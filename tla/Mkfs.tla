-------------------------------- MODULE Mkfs --------------------------------
(***************************************************************************)
(* mkfs.c, the host program that makes the file system image: it has an    *)
(* allocator of its own, freeblock, and writes the bitmap last.  An image  *)
(* w is a disk w.k and w.next, the first free block.                       *)
(***************************************************************************)
EXTENDS Inodes

MkIalloc(w, type) ==
    LET i == Min({j \in Inums : w.k.ino[j].type = "free"})
    IN  <<[w EXCEPT !.k = Iupdate(@, i, [FreeInode EXCEPT !.type = type, !.nlink = 1])], i>>

\* The block of the fbn-th block of inode i and the image with it in place.
MkSlot(w, i, n) ==
    IF w.k.ino[i].addrs[n] # 0 THEN [w |-> w, b |-> w.k.ino[i].addrs[n]]
    ELSE [w |-> [w EXCEPT !.k.ino[i].addrs[n] = w.next, !.next = @ + 1], b |-> w.next]

MkBlock(w, i, fbn) ==
    IF fbn < NDIRECT THEN MkSlot(w, i, fbn + 1)
    ELSE LET s == MkSlot(w, i, NDIRECT + 1)
             j == fbn - NDIRECT + 1
             b == s.w.k.blk[s.b][j][1]
         IN  IF b # 0 THEN [s EXCEPT !.b = b]
             ELSE [w |-> [s.w EXCEPT !.k.blk[s.b][j] = <<s.w.next, "">>, !.next = @ + 1],
                   b |-> s.w.next]

Iappend(w, i, data) ==
    LET Put(x, j) ==
            LET off == x.k.ino[i].size
                m   == MkBlock(x, i, off \div BSIZE)
            IN  [m.w EXCEPT !.k.blk[m.b][(off % BSIZE) + 1] = data[j],
                            !.k.ino[i].size = off + 1]
    IN  FoldLeftDomain(Put, w, data)

\* A file of the command line: an inode, its entry in the root, its data.
MkFile(w, f) ==
    LET a == MkIalloc(w, "file")
        e == Iappend(a[1], ROOTINO, << <<a[2], f.name>> >>)
    IN  Iappend(e, a[2], f.data)

\* main(): the root, the files, its size rounded up, the bitmap.
Image(files) ==
    LET root == MkIalloc([k |-> EmptyDisk, next |-> 1], "dir")
        dots == Iappend(root[1], ROOTINO, << <<ROOTINO, ".">>, <<ROOTINO, "..">> >>)
        w    == FoldLeft(MkFile, dots, files)
    IN  [w.k EXCEPT !.ino[ROOTINO].size = (@ \div BSIZE + 1) * BSIZE,
                    !.used = 1 .. w.next - 1]
=============================================================================
