------------------------------- MODULE Inodes -------------------------------
(***************************************************************************)
(* The disk layout of fs.c as a value, and the functions of fs.c that work *)
(* on it while their caller holds the lock of the inode.  A disk k has the *)
(* on-disk inodes k.ino, the bitmap k.used, the data blocks k.blk and      *)
(* k.bad, the message of the first panic ("" while there is none).         *)
(* Sizes count units: a unit of a directory is an entry <<inum, name>>, a  *)
(* unit of a file the data <<0, v>>, a unit of an indirect block <<b, "">>.*)
(* A free entry and a byte of a zeroed block are both Zero, as on the disk.*)
(***************************************************************************)
EXTENDS Integers, Sequences, SequencesExt, FiniteSets

CONSTANTS NInodes,   \* sb.ninodes: inodes are 1 .. NInodes - 1
          NBlocks,   \* data blocks, those after the bitmap
          BSIZE,     \* units in a block
          NDIRECT,   \* direct blocks of an inode
          NINODE     \* entries of the inode cache

ASSUME InodesAssumption ==
    /\ {NInodes, NBlocks, BSIZE, NINODE} \subseteq Nat \ {0}
    /\ NDIRECT \in Nat

ROOTINO == 1
Inums == 1 .. NInodes - 1
Blocks == 1 .. NBlocks
NINDIRECT == BSIZE
MAXFILE == NDIRECT + NINDIRECT
Zero == <<0, "">>
ZeroBlock == [i \in 1 .. BSIZE |-> Zero]

\* struct dinode.  A cached inode (struct inode) holds a copy of it.
FreeInode == [type |-> "free", nlink |-> 0, size |-> 0,
              addrs |-> [i \in 1 .. NDIRECT + 1 |-> 0], major |-> 0]

EmptyDisk == [ino |-> [i \in Inums |-> FreeInode], used |-> {},
              blk |-> [b \in 0 .. NBlocks |-> ZeroBlock], bad |-> ""]

Panicked(k, msg) == IF k.bad = "" THEN [k EXCEPT !.bad = msg] ELSE k

Iupdate(k, i, d) == [k EXCEPT !.ino[i] = d]
-----------------------------------------------------------------------------
(* Blocks.  Balloc returns the disk and the number of a zeroed block.      *)
\* Mutant of Balloc: the bit of the block is not set.
M_Balloc(k) ==
    LET b == Min(Blocks \ k.used) IN <<[k EXCEPT !.blk[b] = ZeroBlock], b>>

Balloc(k) ==
    LET free == Blocks \ k.used
        b    == Min(free)
    IN  IF free = {} THEN <<Panicked(k, "balloc: out of blocks"), 0>>
        ELSE <<[k EXCEPT !.used = @ \cup {b}, !.blk[b] = ZeroBlock], b>>

Bfree(k, b) ==
    IF b \notin k.used THEN Panicked(k, "freeing free block")
                       ELSE [k EXCEPT !.used = @ \ {b}]

\* The block of d that holds its n-th block of content, allocated with the
\* indirect block if there is none: bmap().
Slot(k, d, n) ==
    IF d.addrs[n] # 0 THEN [k |-> k, d |-> d, b |-> d.addrs[n]]
    ELSE LET a == Balloc(k)
         IN  [k |-> a[1], d |-> [d EXCEPT !.addrs[n] = a[2]], b |-> a[2]]

\* The j-th block of the indirect block that s has found.
Indirect(s, j) ==
    LET a == Balloc(s.k) IN
    IF s.k.blk[s.b][j][1] # 0 THEN [s EXCEPT !.b = s.k.blk[s.b][j][1]]
    ELSE [s EXCEPT !.k = [a[1] EXCEPT !.blk[s.b][j] = <<a[2], "">>], !.b = a[2]]

Bmap(k, d, bn) ==
    IF bn < NDIRECT THEN Slot(k, d, bn + 1)
    ELSE IF bn < MAXFILE THEN Indirect(Slot(k, d, NDIRECT + 1), bn - NDIRECT + 1)
    ELSE [k |-> Panicked(k, "bmap: out of range"), d |-> d, b |-> 0]

\* The blocks itrunc() frees, in its order.
BlocksOf(k, d) ==
    LET ind == d.addrs[NDIRECT + 1]
        in  == IF ind = 0 THEN <<>>
               ELSE [j \in 1 .. NINDIRECT |-> k.blk[ind][j][1]] \o <<ind>>
    IN  SelectSeq(SubSeq(d.addrs, 1, NDIRECT) \o in, LAMBDA b : b # 0)

Itrunc(k, i, d) ==
    LET e == [d EXCEPT !.addrs = FreeInode.addrs, !.size = 0]
    IN  [k |-> Iupdate(FoldLeft(Bfree, k, BlocksOf(k, d)), i, e), d |-> e]
-----------------------------------------------------------------------------
(* Contents.  Unit(k, d, o) is the unit at offset o < d.size.              *)
Unit(k, d, o) == k.blk[Bmap(k, d, o \div BSIZE).b][(o % BSIZE) + 1]

\* Mutant of Readi: reading at the end is an error.
M_Readi(k, d, off, n) ==
    IF off >= d.size THEN [r |-> -1, data |-> <<>>]
    ELSE [r |-> Min({n, d.size - off}),
          data |-> [i \in 1 .. Min({n, d.size - off}) |-> Unit(k, d, off + i - 1)]]

Readi(k, d, off, n) ==
    IF off > d.size THEN [r |-> -1, data |-> <<>>]
    ELSE LET m == Min({n, d.size - off})
         IN  [r |-> m, data |-> [i \in 1 .. m |-> Unit(k, d, off + i - 1)]]

\* The unit v at offset o, in the block that m has found; then the size.
Store(m, o, v) == [k |-> [m.k EXCEPT !.blk[m.b][(o % BSIZE) + 1] = v], d |-> m.d]
Grow(w, i, end) ==
    IF end <= w.d.size THEN w
    ELSE LET d == [w.d EXCEPT !.size = end] IN [k |-> Iupdate(w.k, i, d), d |-> d]

Writei(k, i, d, data, off) ==
    LET end == off + Len(data)
        Put(w, j) == Store(Bmap(w.k, w.d, (off + j - 1) \div BSIZE), off + j - 1, data[j])
    IN  IF off > d.size \/ end > MAXFILE * BSIZE THEN [k |-> k, d |-> d, r |-> -1]
        ELSE Grow(FoldLeftDomain(Put, [k |-> k, d |-> d], data), i, end) @@ [r |-> Len(data)]
-----------------------------------------------------------------------------
(* Directories.  Dirlookup is the offset of the entry, -1 if there is none.*)
Offsets(d) == 0 .. d.size - 1

Dirlookup(k, d, name) ==
    LET hits == {o \in Offsets(d) : Unit(k, d, o)[1] # 0 /\ Unit(k, d, o)[2] = name}
    IN  IF hits = {} THEN -1 ELSE Min(hits)

InumAt(k, d, o) == Unit(k, d, o)[1]

\* dirlink() from its search for an empty entry on: the name is not present.
Dirlink(k, i, d, name, inum) ==
    LET off == Min({o \in Offsets(d) : InumAt(k, d, o) = 0} \cup {d.size})
        Linked(w) == IF w.r = 1 THEN w ELSE [w EXCEPT !.k = Panicked(@, "dirlink")]
    IN  Linked(Writei(k, i, d, << <<inum, name>> >>, off))

\* Mutant of Isdirempty: the search starts an entry late.
M_Isdirempty(k, d) == \A o \in Offsets(d) \ {0, 1, 2} : InumAt(k, d, o) = 0

Isdirempty(k, d) == \A o \in Offsets(d) \ {0, 1} : InumAt(k, d, o) = 0

\* The first free inode, marked with its type on the disk.
Ialloc(k, type) ==
    LET free == {i \in Inums : k.ino[i].type = "free"}
        i    == Min(free)
    IN  IF free = {} THEN <<Panicked(k, "ialloc: no inodes"), ROOTINO>>
        ELSE <<Iupdate(k, i, [FreeInode EXCEPT !.type = type]), i>>
-----------------------------------------------------------------------------
(* The inode cache.  ref, inum and which entry is whose are protected by   *)
(* icache.lock; lock is the holder of the sleep lock, 0 if there is none.  *)
Slots == 1 .. NINODE
NoEntry == [inum |-> 0, ref |-> 0, valid |-> FALSE, lock |-> 0, d |-> FreeInode]

\* Mutant of Iget: the search stops at the first entry of i or of nobody.
M_Iget(ic, i) ==
    LET fit == {s \in Slots : ic[s].ref = 0 \/ ic[s].inum = i}
        s   == Min(fit)
    IN  IF fit = {} THEN <<ic, 0>>
        ELSE IF ic[s].ref > 0 THEN <<[ic EXCEPT ![s].ref = @ + 1], s>>
        ELSE <<[ic EXCEPT ![s].inum = i, ![s].ref = 1, ![s].valid = FALSE], s>>

\* iget(): the cache with a reference more, and the entry; 0 is the panic.
Iget(ic, i) ==
    LET cached == {s \in Slots : ic[s].ref > 0 /\ ic[s].inum = i}
        empty  == {s \in Slots : ic[s].ref = 0}
    IN  IF cached # {}
        THEN LET s == Min(cached) IN <<[ic EXCEPT ![s].ref = @ + 1], s>>
        ELSE IF empty = {} THEN <<ic, 0>>
        ELSE LET s == Min(empty)
             IN  <<[ic EXCEPT ![s].inum = i, ![s].ref = 1, ![s].valid = FALSE], s>>
=============================================================================
