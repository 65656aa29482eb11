-------------------------------- MODULE Calls --------------------------------
(***************************************************************************)
(* Processes that make system calls: files and directories (sysfile.c,     *)
(* file.c, fs.c), address spaces (vm.c, exec.c) and the families they form *)
(* (proc.c, as far as the calls see it).  A process p makes the calls of   *)
(* todo[p] one after the other.                                            *)
(*                                                                         *)
(* Grain: what a call does from the moment it has a sleep lock of an inode *)
(* to its next wait for one is a step, and so is every update of a         *)
(* reference count.  The log (module Log), the buffer cache (Bcache) and   *)
(* sleep() with wakeup() (Proc) are seen through what they promise:        *)
(* transactions are atomic, a block is the same for everybody, a wait ends *)
(* when its condition holds.  A pipe is the byte stream of ByteStream.     *)
(* A panic stops every process.                                            *)
(***************************************************************************)
EXTENDS Mkfs, Memory, TLC

CONSTANTS NPROC, NOFILE, NFILE, MAXARG,
          PIPESIZE,    \* units a pipe holds
          WMAX,        \* units filewrite() writes per transaction
          Files,       \* the files mkfs puts in the image
          Scenarios    \* what process 1 may be asked to do: sequences of calls

ASSUME CallsAssumption ==
    /\ {NPROC, NOFILE, NFILE, MAXARG, PIPESIZE, WMAX} \subseteq Nat \ {0}
    /\ Scenarios # {}

Procs == 1 .. NPROC
Fds == 0 .. NOFILE - 1
FileIds == 1 .. NFILE

VARIABLES
    disk,     \* the disk as the buffer cache shows it
    ic,       \* icache
    ft,       \* ftable: ref, type, readable, writable, ip (an entry of ic), off, pipe
    pipes,    \* the open pipes: from the page of a pipe to its data and its ends
    mem,      \* the physical pages
    proc,     \* ptable
    pc,       \* where a process is in its call, "user" outside of one
    loc,      \* its local variables: every slot in it is a reference it holds
    todo,     \* the calls it still has to make, the current one first
    intrans,  \* the processes between begin_op() and end_op()
    failed,   \* history: calls that returned what their caller did not expect
    astray    \* history: inodes given a name in a directory that was removed

vars == <<disk, ic, ft, pipes, mem, proc, pc, loc, todo, intrans, failed, astray>>

\* A call: its operation, its arguments, what its caller expects of it, and
\* what the caller does next instead of its next call: alt if it returns -1,
\* and if loop is set the call again while it returns more than 0, after a
\* write of what it read to descriptor copy (-1: no write).
NoCall == [op |-> "none", path |-> <<>>, path2 |-> <<>>, mode |-> {}, fd |-> 0, n |-> 0,
           data |-> <<>>, addr |-> 0, args |-> <<>>, prog |-> <<>>,
           want |-> {0}, see |-> <<Zero>>, alt |-> <<>>, loop |-> FALSE, copy |-> -1]
AnyData == <<Zero>>

NoLoc == [cur |-> 0, ip |-> 0, dp |-> 0, put |-> 0, path |-> <<>>, name |-> "",
          par |-> FALSE, then |-> "", i |-> 0, vm |-> NoVm, sz |-> 0]

NoFile == [ref |-> 0, type |-> "none", readable |-> FALSE, writable |-> FALSE,
           ip |-> 0, off |-> 0, pipe |-> 0]

NoProc == [state |-> "unused", parent |-> 0, killed |-> FALSE, cwd |-> 0,
           ofile |-> [fd \in Fds |-> 0], sz |-> 0, vm |-> NoVm, kstack |-> 0]

c(p) == Head(todo[p])
At(p, l) == pc[p] = l /\ disk.bad = "" /\ mem.bad = ""
User(p, op) == /\ At(p, "user") /\ proc[p].state = "used" /\ ~proc[p].killed
               /\ todo[p] # <<>> /\ c(p).op = op

\* The process that starts: userinit(), exec of a program of three pages.
FirstVm == LET s == Setupkvm(AllFree)
               a == Allocuvm(s.m, s.vm, 0, 3 * PGSIZE)
           IN  [a EXCEPT !.vm = Clearpteu(@, 1)]

Init ==
    LET k == Kalloc(FirstVm.m) IN
    /\ disk = Image(Files)
    /\ ic = [s \in Slots |-> IF s = 1 THEN [NoEntry EXCEPT !.inum = ROOTINO, !.ref = 1]
                             ELSE NoEntry]
    /\ ft = [f \in FileIds |-> NoFile]
    /\ pipes = <<>>
    /\ mem = k[1]
    /\ proc = [p \in Procs |->
                 IF p = 1 THEN [NoProc EXCEPT !.state = "used", !.cwd = 1, !.sz = 3 * PGSIZE,
                                              !.vm = FirstVm.vm, !.kstack = k[2]]
                 ELSE NoProc]
    /\ pc = [p \in Procs |-> "user"]
    /\ loc = [p \in Procs |-> NoLoc]
    /\ \E s \in Scenarios : todo = [p \in Procs |-> IF p = 1 THEN s ELSE <<>>]
    /\ intrans = {}
    /\ failed = {}
    /\ astray = {}
-----------------------------------------------------------------------------
(* Returning, and dropping references.                                     *)

Results == -1 .. KERNBASE
Copied(p, data) == IF c(p).copy = -1 THEN <<>>
                   ELSE <<[NoCall EXCEPT !.op = "write", !.fd = c(p).copy, !.data = data,
                                         !.n = Len(data), !.want = Results, !.alt = c(p).alt]>>

\* The call returns r, and shows the data seen to its caller.
Return(p, r, seen) ==
    /\ pc' = [pc EXCEPT ![p] = "user"]
    /\ loc' = [loc EXCEPT ![p] = NoLoc]
    /\ todo' = [todo EXCEPT ![p] = IF r = -1 /\ c(p).alt # <<>> THEN c(p).alt
                                   ELSE IF r > 0 /\ c(p).loop THEN Copied(p, seen) \o @
                                   ELSE Tail(@)]
    /\ failed' = IF r \in c(p).want /\ c(p).see \in {AnyData, seen} THEN failed
                 ELSE failed \cup {<<p, c(p).op, r>>}

Stay == UNCHANGED <<todo, failed>>

Goto(p, l) == pc' = [pc EXCEPT ![p] = l] /\ Stay

\* Go on with iput(s), and at label l after it.
PutThen(p, s, l, new) ==
    /\ loc' = [loc EXCEPT ![p] = [new EXCEPT !.put = s, !.then = l]]
    /\ Goto(p, "put")

EndOp(p) == intrans' = intrans \ {p}

FileOf(p) == proc[p].ofile[c(p).fd]

\* The entry of the cache whose sleep lock p needs for its next step.
Wanted(p) ==
    CASE pc[p] = "walk" /\ loc[p].path # <<>> -> loc[p].cur
      [] pc[p] = "put" -> loc[p].put
      [] pc[p] \in {"open", "exists", "fill", "linkold", "linkbad", "unlinkent",
                    "chdir", "exec"} -> loc[p].ip
      [] pc[p] \in {"create", "linknew", "unlink"} -> loc[p].dp
      [] pc[p] \in {"read", "write", "fstat"} -> IF c(p).n = 0 /\ pc[p] = "write" THEN 0
                                               ELSE ft[FileOf(p)].ip
      [] OTHER -> 0

\* The inode as ilock() leaves it in the cache, and that state of the cache.
Loaded(s) == IF ic[s].valid THEN ic[s].d ELSE disk.ino[ic[s].inum]
Entry(icc, s, d, holder) ==
    [icc EXCEPT ![s].valid = TRUE, ![s].d = d, ![s].lock = holder]
Ilock(p) == LET s == Wanted(p) IN ic[s].lock = 0 /\ Loaded(s).type # "free"

\* The next step of p is a panic: iget() found no entry for the inode p goes
\* on with, ilock() reads a free one, unlink() finds one without links.
Panics(p) ==
    \/ pc[p] = "walk" /\ loc[p].cur = 0
    \/ pc[p] \in {"exists", "fill", "unlinkent", "put"} /\ Wanted(p) = 0
    \/ /\ Wanted(p) # 0 /\ pc[p] # "put" /\ ic[Wanted(p)].lock = 0
       /\ \/ Loaded(Wanted(p)).type = "free"
          \/ pc[p] = "unlinkent" /\ Loaded(Wanted(p)).nlink < 1

UNCH_put == UNCHANGED <<ft, pipes, mem, proc, intrans, failed, todo, astray>>

\* iput(): whether this is the last reference is read under icache.lock, which
\* is released before the reference is dropped.
IputLock(p) ==
    LET s == loc[p].put
        last == ic[s].valid /\ ic[s].d.nlink = 0 /\ ic[s].ref = 1
    IN  /\ At(p, "put") /\ s # 0 /\ ic[s].lock = 0
        /\ ic' = IF last THEN [ic EXCEPT ![s].lock = p] ELSE ic
        /\ pc' = [pc EXCEPT ![p] = IF last THEN "free" ELSE "deref"]
        /\ UNCHANGED <<disk, loc>> /\ UNCH_put

IputFree(p) ==
    LET s == loc[p].put
        t == Itrunc(disk, ic[s].inum, ic[s].d)
        d == [t.d EXCEPT !.type = "free"]
    IN  /\ At(p, "free")
        /\ disk' = Iupdate(t.k, ic[s].inum, d)
        /\ ic' = [ic EXCEPT ![s].d = d]
        /\ pc' = [pc EXCEPT ![p] = "freed"]
        /\ UNCHANGED loc /\ UNCH_put

\* Mutant of IputFreed: the entry's sleep lock is not released.
M_IputFreed(p) ==
    /\ At(p, "freed")
    /\ ic' = [ic EXCEPT ![loc[p].put].valid = FALSE]
    /\ pc' = [pc EXCEPT ![p] = "deref"]
    /\ UNCHANGED <<disk, loc>> /\ UNCH_put

IputFreed(p) ==
    /\ At(p, "freed")
    /\ ic' = [ic EXCEPT ![loc[p].put].valid = FALSE, ![loc[p].put].lock = 0]
    /\ pc' = [pc EXCEPT ![p] = "deref"]
    /\ UNCHANGED <<disk, loc>> /\ UNCH_put

IputDeref(p) ==
    /\ At(p, "deref")
    /\ ic' = [ic EXCEPT ![loc[p].put].ref = @ - 1]
    /\ pc' = [pc EXCEPT ![p] = loc[p].then]
    /\ loc' = [loc EXCEPT ![p].put = 0]
    /\ UNCHANGED disk /\ UNCH_put

Iput(p) == IputLock(p) \/ IputFree(p) \/ IputFreed(p) \/ IputDeref(p)

UNCH_end == UNCHANGED <<disk, ic, ft, pipes, mem, proc, astray>>

Fail(p) == At(p, "fail") /\ EndOp(p) /\ Return(p, -1, AnyData) /\ UNCH_end
Ok(p) == At(p, "ok") /\ EndOp(p) /\ Return(p, 0, AnyData) /\ UNCH_end
-----------------------------------------------------------------------------
(* Paths.  The path "/a/b" is <<"/", "a", "b">>.                           *)

PathOps == {"open", "mkdir", "mknod", "unlink", "link", "chdir", "exec"}
BadStr(p) == c(p).addr >= proc[p].sz

\* Whether the call wants the parent directory of its path.
ToParent(p) == \/ c(p).op \in {"mkdir", "mknod", "unlink"}
               \/ c(p).op = "open" /\ "CREATE" \in c(p).mode

Absolute(path) == path # <<>> /\ Head(path) = "/"
Names(path) == IF Absolute(path) THEN Tail(path) ELSE path

\* Mutant of StartWalk: link() keeps ip locked during nameiparent().
M_StartWalk(p, icc, path, par, ip) ==
    LET held == IF ip = 0 THEN icc ELSE [icc EXCEPT ![ip].lock = p]
        g == Iget(held, IF Absolute(path) THEN ROOTINO ELSE held[proc[p].cwd].inum)
    IN  /\ ic' = g[1]
        /\ loc' = [loc EXCEPT ![p] = [NoLoc EXCEPT !.cur = g[2], !.path = Names(path),
                                                  !.par = par, !.ip = ip]]
        /\ Goto(p, "walk")

\* namex() from its start: ip is a reference the call keeps meanwhile.
StartWalk(p, icc, path, par, ip) ==
    LET cwd == proc[p].cwd
        g == IF Absolute(path) THEN Iget(icc, ROOTINO)
             ELSE <<[icc EXCEPT ![cwd].ref = @ + 1], cwd>>
    IN  /\ ic' = g[1]
        /\ loc' = [loc EXCEPT ![p] = [NoLoc EXCEPT !.cur = g[2], !.path = Names(path),
                                                  !.par = par, !.ip = ip]]
        /\ Goto(p, "walk")

BeginPath(p) ==
    /\ \E op \in PathOps : User(p, op)
    /\ ~BadStr(p)
    /\ c(p).op = "exec" => Len(c(p).args) < MAXARG
    /\ StartWalk(p, ic, c(p).path, ToParent(p), 0)
    /\ intrans' = intrans \cup {p}
    /\ UNCHANGED <<disk, ft, pipes, mem, proc, astray>>

Found(p) == CASE c(p).op = "link" -> IF loc[p].par THEN "linknew" ELSE "linkold"
              [] c(p).op \notin {"link", "unlink"} /\ loc[p].par -> "create"
              [] OTHER -> c(p).op
Missing(p) == IF c(p).op = "link" /\ loc[p].par THEN "linkbad" ELSE "fail"

UNCH_walk == UNCHANGED <<disk, ft, pipes, mem, proc, intrans, astray>>

WalkEnd(p) ==
    LET s == loc[p].cur IN
    /\ At(p, "walk") /\ s # 0 /\ loc[p].path = <<>>
    /\ IF loc[p].par THEN PutThen(p, s, Missing(p), [loc[p] EXCEPT !.cur = 0])
       ELSE /\ loc' = [loc EXCEPT ![p].cur = 0, ![p].ip = s]
            /\ Goto(p, Found(p))
    /\ UNCHANGED ic /\ UNCH_walk

\* One element: the directory is unlocked before the next inode is locked.
WalkElem(p) ==
    LET s == loc[p].cur
        d == Loaded(s)
        name == Head(loc[p].path)
        o == Dirlookup(disk, d, name)
        now == Entry(ic, s, d, 0)
        g == Iget(now, InumAt(disk, d, o))
        last == loc[p].par /\ Len(loc[p].path) = 1
    IN  /\ At(p, "walk") /\ s # 0 /\ loc[p].path # <<>> /\ Ilock(p)
        /\ \/ /\ d.type # "dir" \/ (~last /\ o = -1)
              /\ ic' = now
              /\ PutThen(p, s, Missing(p), [loc[p] EXCEPT !.cur = 0])
           \/ /\ d.type = "dir" /\ last
              /\ ic' = now
              /\ loc' = [loc EXCEPT ![p].cur = 0, ![p].dp = s, ![p].name = name]
              /\ Goto(p, Found(p))
           \/ /\ d.type = "dir" /\ ~last /\ o # -1
              /\ ic' = g[1]
              /\ PutThen(p, s, "walk", [loc[p] EXCEPT !.cur = g[2], !.path = Tail(@)])
        /\ UNCH_walk

Walk(p) == WalkEnd(p) \/ WalkElem(p)
-----------------------------------------------------------------------------
(* open, mkdir and mknod.                                                  *)

UNCH_call == UNCHANGED <<ft, pipes, mem, proc, intrans>>

\* Drop the entry s, unlocked in the cache icc, and go on at l.
UnlockPut(p, icc, s, l, new) == ic' = icc /\ PutThen(p, s, l, new)

OpenOld(p) ==
    LET s == loc[p].ip
        d == Loaded(s)
    IN  /\ At(p, "open") /\ Ilock(p)
        /\ IF d.type = "dir" /\ c(p).mode # {}
           THEN UnlockPut(p, Entry(ic, s, d, 0), s, "fail", NoLoc)
           ELSE ic' = Entry(ic, s, d, p) /\ Goto(p, "opened") /\ UNCHANGED loc
        /\ UNCHANGED <<disk, astray>> /\ UNCH_call

FreeFds(p) == {fd \in Fds : proc[p].ofile[fd] = 0}
FreeFiles == {f \in FileIds : ft[f].ref = 0}

Opened(p) ==
    LET s == loc[p].ip
        f == Min(FreeFiles)
        fd == Min(FreeFds(p))
        mode == c(p).mode
        now == [ic EXCEPT ![s].lock = 0]
    IN  /\ At(p, "opened")
        /\ IF FreeFiles = {} \/ FreeFds(p) = {}
           THEN UnlockPut(p, now, s, "fail", NoLoc) /\ UNCHANGED <<ft, proc, intrans>>
           ELSE /\ ic' = now
                /\ ft' = [ft EXCEPT ![f] = [NoFile EXCEPT !.ref = 1, !.type = "inode", !.ip = s,
                                            !.readable = "WRONLY" \notin mode,
                                            !.writable = mode \cap {"WRONLY", "RDWR"} # {}]]
                /\ proc' = [proc EXCEPT ![p].ofile[fd] = f]
                /\ EndOp(p)
                /\ Return(p, fd, AnyData)
        /\ UNCHANGED <<disk, pipes, mem, astray>>

Create(p) ==
    LET s == loc[p].dp
        d == Loaded(s)
        o == Dirlookup(disk, d, loc[p].name)
        type == CASE c(p).op = "open" -> "file" [] c(p).op = "mkdir" -> "dir" [] OTHER -> "dev"
        a == Ialloc(disk, type)
        old == Iget(Entry(ic, s, d, 0), InumAt(disk, d, o))
        new == Iget(Entry(ic, s, d, p), a[2])
    IN  /\ At(p, "create") /\ Ilock(p)
        /\ \/ /\ o # -1
              /\ UnlockPut(p, old[1], s, "exists", [loc[p] EXCEPT !.dp = 0, !.ip = old[2]])
              /\ UNCHANGED disk
           \/ /\ o = -1
              /\ disk' = a[1]
              /\ ic' = new[1]
              /\ loc' = [loc EXCEPT ![p].ip = new[2]]
              /\ Goto(p, "fill")
        /\ UNCHANGED astray /\ UNCH_call

Exists(p) ==
    LET s == loc[p].ip
        d == Loaded(s)
    IN  /\ At(p, "exists") /\ Ilock(p)
        /\ IF c(p).op = "open" /\ d.type = "file"
           THEN ic' = Entry(ic, s, d, p) /\ Goto(p, "opened") /\ UNCHANGED loc
           ELSE UnlockPut(p, Entry(ic, s, d, 0), s, "fail", NoLoc)
        /\ UNCHANGED <<disk, astray>> /\ UNCH_call

\* create() from ilock(ip) on, dp being locked.
Fill(p) ==
    LET s == loc[p].ip
        t == loc[p].dp
        i == ic[s].inum
        j == ic[t].inum
        dir == c(p).op = "mkdir"
        d == [Loaded(s) EXCEPT !.nlink = 1, !.major = c(p).n]
        e == IF dir THEN [ic[t].d EXCEPT !.nlink = @ + 1] ELSE ic[t].d
        k == Iupdate(disk, i, d)
        dot == Dirlink(Iupdate(k, j, e), i, d, ".", i)
        dots == Dirlink(dot.k, i, dot.d, "..", j)
        w == Dirlink(IF dir THEN dots.k ELSE k, j, e, loc[p].name, i)
    IN  /\ At(p, "fill") /\ Ilock(p)
        /\ disk' = w.k
        /\ UnlockPut(p, Entry(Entry(ic, s, IF dir THEN dots.d ELSE d, p), t, w.d, 0), t,
                     IF c(p).op = "open" THEN "opened" ELSE "made", [loc[p] EXCEPT !.dp = 0])
        /\ astray' = IF ic[t].d.nlink = 0 THEN astray \cup {i, j} ELSE astray
        /\ UNCH_call

Made(p) ==
    /\ At(p, "made")
    /\ UnlockPut(p, [ic EXCEPT ![loc[p].ip].lock = 0], loc[p].ip, "ok", NoLoc)
    /\ UNCHANGED <<disk, astray>> /\ UNCH_call
-----------------------------------------------------------------------------
(* link, unlink and chdir.                                                 *)

LinkOld(p) ==
    LET s == loc[p].ip
        d == Loaded(s)
        e == [d EXCEPT !.nlink = @ + 1]
    IN  /\ At(p, "linkold") /\ Ilock(p)
        /\ \/ /\ d.type = "dir"
              /\ UnlockPut(p, Entry(ic, s, d, 0), s, "fail", NoLoc)
              /\ UNCHANGED disk
           \/ /\ d.type # "dir"
              /\ disk' = Iupdate(disk, ic[s].inum, e)
              /\ StartWalk(p, Entry(ic, s, e, 0), c(p).path2, TRUE, s)
        /\ UNCHANGED astray /\ UNCH_call

\* dirlink() drops the inode of a name it finds while dp is locked.
LinkNew(p) ==
    LET t == loc[p].dp
        d == Loaded(t)
        i == ic[loc[p].ip].inum
        o == Dirlookup(disk, d, loc[p].name)
        g == Iget(Entry(ic, t, d, p), InumAt(disk, d, o))
        w == Dirlink(disk, ic[t].inum, d, loc[p].name, i)
    IN  /\ At(p, "linknew") /\ Ilock(p)
        /\ \/ /\ o # -1
              /\ UnlockPut(p, g[1], g[2], "linkdup", loc[p])
              /\ UNCHANGED <<disk, astray>>
           \/ /\ o = -1
              /\ disk' = w.k
              /\ UnlockPut(p, Entry(ic, t, w.d, 0), t, "linkput", [loc[p] EXCEPT !.dp = 0])
              /\ astray' = IF d.nlink = 0 THEN astray \cup {i} ELSE astray
        /\ UNCH_call

UnlockDp(p, after, to) ==
    LET t == loc[p].dp IN
    /\ At(p, after)
    /\ UnlockPut(p, [ic EXCEPT ![t].lock = 0], t, to, [loc[p] EXCEPT !.dp = 0])
    /\ UNCHANGED <<disk, astray>> /\ UNCH_call

LinkDup(p) == UnlockDp(p, "linkdup", "linkbad")

\* Mutant of LinkPut: link() returns without iput(ip).
M_LinkPut(p) ==
    /\ At(p, "linkput")
    /\ loc' = [loc EXCEPT ![p] = NoLoc]
    /\ Goto(p, "ok")
    /\ UNCHANGED <<disk, ic, astray>> /\ UNCH_call

LinkPut(p) ==
    /\ At(p, "linkput")
    /\ PutThen(p, loc[p].ip, "ok", NoLoc)
    /\ UNCHANGED <<disk, ic, astray>> /\ UNCH_call

\* ip loses a link, and the call its reference to it.
DropLink(p, s, d, to) ==
    LET e == [d EXCEPT !.nlink = @ - 1] IN
    /\ disk' = Iupdate(disk, ic[s].inum, e)
    /\ UnlockPut(p, Entry(ic, s, e, 0), s, to, NoLoc)
    /\ UNCHANGED astray /\ UNCH_call

LinkBad(p) == /\ At(p, "linkbad") /\ Ilock(p)
              /\ DropLink(p, loc[p].ip, Loaded(loc[p].ip), "fail")

Unlink(p) ==
    LET t == loc[p].dp
        d == Loaded(t)
        o == Dirlookup(disk, d, loc[p].name)
        g == Iget(Entry(ic, t, d, p), InumAt(disk, d, o))
        bad == loc[p].name \in {".", ".."} \/ o = -1
    IN  /\ At(p, "unlink") /\ Ilock(p)
        /\ \/ /\ bad
              /\ UnlockPut(p, Entry(ic, t, d, 0), t, "fail", NoLoc)
           \/ /\ ~bad
              /\ ic' = g[1]
              /\ loc' = [loc EXCEPT ![p].ip = g[2], ![p].i = o]
              /\ Goto(p, "unlinkent")
        /\ UNCHANGED <<disk, astray>> /\ UNCH_call

UnlinkEntry(p) ==
    LET s == loc[p].ip
        t == loc[p].dp
        d == Loaded(s)
        j == ic[t].inum
        full == d.type = "dir" /\ ~Isdirempty(disk, d)
        w == Writei(disk, j, ic[t].d, <<Zero>>, loc[p].i)
        e == IF d.type = "dir" THEN [w.d EXCEPT !.nlink = @ - 1] ELSE w.d
    IN  /\ At(p, "unlinkent") /\ Ilock(p) /\ d.nlink >= 1
        /\ \/ /\ full
              /\ UnlockPut(p, Entry(ic, s, d, 0), s, "unlinkbad", [loc[p] EXCEPT !.ip = 0])
              /\ UNCHANGED <<disk, astray>> /\ UNCH_call
           \/ /\ ~full
              /\ disk' = IF d.type = "dir" THEN Iupdate(w.k, j, e) ELSE w.k
              /\ UnlockPut(p, Entry(Entry(ic, s, d, p), t, e, 0), t, "unlinked",
                           [loc[p] EXCEPT !.dp = 0])
              /\ UNCHANGED astray /\ UNCH_call

UnlinkBad(p) == UnlockDp(p, "unlinkbad", "fail")
Unlinked(p) == At(p, "unlinked") /\ DropLink(p, loc[p].ip, ic[loc[p].ip].d, "ok")

Chdir(p) ==
    LET s == loc[p].ip
        d == Loaded(s)
        now == Entry(ic, s, d, 0)
    IN  /\ At(p, "chdir") /\ Ilock(p)
        /\ IF d.type # "dir" THEN UnlockPut(p, now, s, "fail", NoLoc)
           ELSE UnlockPut(p, now, proc[p].cwd, "cd", loc[p])
        /\ UNCHANGED <<disk, astray>> /\ UNCH_call

Cd(p) ==
    /\ At(p, "cd")
    /\ proc' = [proc EXCEPT ![p].cwd = loc[p].ip]
    /\ EndOp(p)
    /\ Return(p, 0, AnyData)
    /\ UNCHANGED <<disk, ic, ft, pipes, mem, astray>>
-----------------------------------------------------------------------------
(* exec.  The first unit of an ELF file is <<n, "elf">> with the number of *)
(* program headers, which follow: <<end, kind>>, end the address after the *)
(* segment and kind "load", or what is wrong with it.                      *)

\* The new address space w, FALSE in w.ok if the segments cannot be had.
LoadSegments(d) ==
    LET head == Readi(disk, d, 0, 1)
        Seg(w, ph) ==
            LET kind == ph.data[1][2]
                Got(a) == a @@ [ok |-> a.sz # 0 /\ kind = "load"]
            IN  IF ph.r # 1 \/ kind = "filesz" THEN [w EXCEPT !.ok = FALSE]
                ELSE IF kind = "note" THEN w
                ELSE Got(Allocuvm(w.m, w.vm, w.sz, ph.data[1][1]))
        Add(w, i) == IF w.ok THEN Seg(w, Readi(disk, d, i, 1)) ELSE w
    IN  IF head.r # 1 \/ head.data[1][2] # "elf"
        THEN [m |-> mem, vm |-> NoVm, sz |-> 0, ok |-> FALSE]
        ELSE FoldLeft(Add, Setupkvm(mem) @@ [sz |-> 0], [i \in 1 .. head.data[1][1] |-> i])

Exec(p) ==
    LET s == loc[p].ip
        d == Loaded(s)
        w == LoadSegments(d)
        now == Entry(ic, s, d, 0)
    IN  /\ At(p, "exec") /\ Ilock(p)
        /\ \/ /\ w.ok
              /\ mem' = w.m
              /\ UnlockPut(p, now, s, "stack", [NoLoc EXCEPT !.vm = w.vm, !.sz = w.sz])
           \/ /\ ~w.ok
              /\ mem' = IF w.vm = NoVm THEN w.m ELSE Freevm(w.m, w.vm)
              /\ UnlockPut(p, now, s, "fail", NoLoc)
        /\ UNCHANGED <<disk, ft, pipes, proc, intrans, astray>>

\* The guard page, the stack with the arguments, and the new image in place
\* of the old one.
ExecStack(p) ==
    LET base == PGROUNDUP(loc[p].sz)
        a == Allocuvm(mem, loc[p].vm, base, base + 2 * PGSIZE)
        vm == Clearpteu(a.vm, base \div PGSIZE)
        need == FoldLeft(+, 0, c(p).args) + 3 + Len(c(p).args) + 1
    IN  /\ At(p, "stack")
        /\ EndOp(p)
        /\ \/ /\ a.sz = 0 \/ ~Copyout(vm, a.sz - need, need)
              /\ mem' = Freevm(a.m, a.vm)
              /\ Return(p, -1, AnyData)
              /\ UNCHANGED proc
           \/ /\ a.sz # 0 /\ Copyout(vm, a.sz - need, need)
              /\ mem' = Freevm(a.m, proc[p].vm)
              /\ proc' = [proc EXCEPT ![p].vm = vm, ![p].sz = a.sz]
              /\ pc' = [pc EXCEPT ![p] = "user"]
              /\ loc' = [loc EXCEPT ![p] = NoLoc]
              /\ todo' = [todo EXCEPT ![p] = c(p).prog]
              /\ failed' = IF 0 \in c(p).want THEN failed ELSE failed \cup {<<p, "exec", 0>>}
        /\ UNCHANGED <<disk, ic, ft, pipes, astray>>

PathCall(p) == \/ BeginPath(p) \/ Walk(p) \/ Iput(p) \/ Fail(p) \/ Ok(p)
               \/ OpenOld(p) \/ Opened(p) \/ Create(p) \/ Exists(p) \/ Fill(p) \/ Made(p)
               \/ LinkOld(p) \/ LinkNew(p) \/ LinkDup(p) \/ LinkPut(p) \/ LinkBad(p)
               \/ Unlink(p) \/ UnlinkEntry(p) \/ UnlinkBad(p) \/ Unlinked(p)
               \/ Chdir(p) \/ Cd(p) \/ Exec(p) \/ ExecStack(p)
-----------------------------------------------------------------------------
(* Calls on descriptors.                                                   *)

OpenFds(p) == {fd \in Fds : proc[p].ofile[fd] # 0}
BadFd(p) == c(p).fd \notin OpenFds(p)
OpenFile(p) == IF BadFd(p) THEN NoFile ELSE ft[FileOf(p)]
\* argptr() for n words.
BadPtr(p, n) == n < 0 \/ c(p).addr >= proc[p].sz \/ c(p).addr + n > proc[p].sz

Refused(p) ==
    CASE c(p).op \in PathOps -> BadStr(p) \/ (c(p).op = "exec" /\ Len(c(p).args) >= MAXARG)
      [] c(p).op = "dup" -> BadFd(p) \/ FreeFds(p) = {}
      [] c(p).op = "close" -> BadFd(p)
      [] c(p).op = "read" -> ~OpenFile(p).readable \/ BadPtr(p, c(p).n)
      [] c(p).op = "write" -> ~OpenFile(p).writable \/ BadPtr(p, c(p).n)
      [] c(p).op = "fstat" -> OpenFile(p).type # "inode" \/ BadPtr(p, 2)
      [] c(p).op = "pipe" -> BadPtr(p, 2)
      [] OTHER -> FALSE

Refuse(p) ==
    /\ User(p, c(p).op) /\ Refused(p)
    /\ Return(p, -1, AnyData)
    /\ UNCHANGED <<disk, ic, ft, pipes, mem, proc, intrans, astray>>

Dup(p) ==
    /\ User(p, "dup") /\ ~Refused(p)
    /\ proc' = [proc EXCEPT ![p].ofile[Min(FreeFds(p))] = FileOf(p)]
    /\ ft' = [ft EXCEPT ![FileOf(p)].ref = @ + 1]
    /\ Return(p, Min(FreeFds(p)), AnyData)
    /\ UNCHANGED <<disk, ic, pipes, mem, intrans, astray>>

\* read, write or fstat has its file.
BeginFd(p) ==
    /\ \E op \in {"read", "write", "fstat"} : User(p, op)
    /\ ~Refused(p)
    /\ Goto(p, c(p).op)
    /\ UNCHANGED <<disk, ic, ft, pipes, mem, proc, loc, intrans, astray>>

OnInode(p, op) == At(p, op) /\ ft[FileOf(p)].type = "inode"
OnPipe(p, op) == At(p, op) /\ ft[FileOf(p)].type = "pipe"

CONSOLE == 1

Fstat(p) ==
    LET s == ft[FileOf(p)].ip
        d == Loaded(s)
    IN  /\ OnInode(p, "fstat") /\ Ilock(p)
        /\ ic' = Entry(ic, s, d, 0)
        /\ Return(p, 0, << <<d.nlink, d.type>>, <<d.size, "">> >>)
        /\ UNCHANGED <<disk, ft, pipes, mem, proc, intrans, astray>>

\* The console gives any part of the n units.
ReadInode(p) ==
    LET f == FileOf(p)
        s == ft[f].ip
        d == Loaded(s)
        got == Readi(disk, d, ft[f].off, c(p).n)
    IN  /\ OnInode(p, "read") /\ Ilock(p)
        /\ ic' = Entry(ic, s, d, 0)
        /\ \/ /\ d.type # "dev"
              /\ ft' = [ft EXCEPT ![f].off = @ + Max({got.r, 0})]
              /\ Return(p, got.r, got.data)
           \/ /\ d.type = "dev"
              /\ ft' \in {[ft EXCEPT ![f].off = @ + r] :
                             r \in IF d.major = CONSOLE THEN 0 .. c(p).n ELSE {0}}
              /\ Return(p, IF d.major = CONSOLE THEN ft'[f].off - ft[f].off ELSE -1, AnyData)
        /\ UNCHANGED <<disk, pipes, mem, proc, intrans, astray>>

\* filewrite(): a transaction of at most WMAX units.
WriteInode(p) ==
    LET f == FileOf(p)
        s == ft[f].ip
        d == Loaded(s)
        left == SubSeq(c(p).data, loc[p].i + 1, c(p).n)
        part == SubSeq(left, 1, Min({WMAX, Len(left)}))
        w == IF d.type # "dev" THEN Writei(disk, ic[s].inum, d, part, ft[f].off)
             ELSE [k |-> disk, d |-> d, r |-> IF d.major = CONSOLE THEN Len(part) ELSE -1]
        done == loc[p].i + w.r
    IN  /\ OnInode(p, "write") /\ c(p).n > 0 /\ Ilock(p)
        /\ disk' = w.k
        /\ ic' = Entry(ic, s, w.d, 0)
        /\ ft' = [ft EXCEPT ![f].off = @ + Max({w.r, 0})]
        /\ \/ /\ w.r = -1
              /\ Return(p, -1, AnyData)
           \/ /\ w.r # -1 /\ done = c(p).n
              /\ Return(p, c(p).n, AnyData)
           \/ /\ w.r # -1 /\ done < c(p).n
              /\ loc' = [loc EXCEPT ![p].i = done]
              /\ Goto(p, "write")
        /\ UNCHANGED <<pipes, mem, proc, intrans, astray>>

WriteNothing(p) ==
    /\ OnInode(p, "write") /\ c(p).n = 0
    /\ Return(p, 0, AnyData)
    /\ UNCHANGED <<disk, ic, ft, pipes, mem, proc, intrans, astray>>
-----------------------------------------------------------------------------
(* Closing, and pipes.                                                     *)

\* fileclose(f) after which p goes on at l: reference, file or pipe goes.
Fileclose(p, f, inode, other) ==
    LET g == ft[f].pipe
        half == [pipes EXCEPT ![g] = IF ft[f].writable THEN [@ EXCEPT !.writeopen = FALSE]
                                     ELSE [@ EXCEPT !.readopen = FALSE]]
    IN  \/ /\ ft[f].ref > 1
           /\ ft' = [ft EXCEPT ![f].ref = @ - 1]
           /\ other
           /\ UNCHANGED <<pipes, mem, intrans>>
        \/ /\ ft[f].ref = 1 /\ ft[f].type = "pipe"
           /\ ft' = [ft EXCEPT ![f] = NoFile]
           /\ IF half[g].readopen \/ half[g].writeopen
              THEN pipes' = half /\ UNCHANGED mem
              ELSE pipes' = [h \in DOMAIN pipes \ {g} |-> pipes[h]] /\ mem' = Kfree(mem, g)
           /\ other
           /\ UNCHANGED intrans
        \/ /\ ft[f].ref = 1 /\ ft[f].type = "inode"
           /\ ft' = [ft EXCEPT ![f] = NoFile]
           /\ intrans' = intrans \cup {p}
           /\ PutThen(p, ft[f].ip, inode, NoLoc)
           /\ UNCHANGED <<pipes, mem>>

Close(p) ==
    /\ User(p, "close") /\ ~Refused(p)
    /\ proc' = [proc EXCEPT ![p].ofile[c(p).fd] = 0]
    /\ Fileclose(p, FileOf(p), "ok", Return(p, 0, AnyData))
    /\ UNCHANGED <<disk, ic, astray>>

\* Without two files, two descriptors and a page, everything is given back.
Pipe(p) ==
    LET f0 == Min(FreeFiles)
        f1 == Min(FreeFiles \ {f0})
        d0 == Min(FreeFds(p))
        d1 == Min(FreeFds(p) \ {d0})
        a == Kalloc(mem)
        files == Cardinality(FreeFiles) > 1 /\ a[2] # 0
        end == [NoFile EXCEPT !.ref = 1, !.type = "pipe", !.pipe = a[2]]
    IN  /\ User(p, "pipe") /\ ~Refused(p)
        /\ \/ /\ files /\ Cardinality(FreeFds(p)) > 1
              /\ mem' = [a[1] EXCEPT !.tag[a[2]] = "pipe"]
              /\ ft' = [ft EXCEPT ![f0] = [end EXCEPT !.readable = TRUE],
                                  ![f1] = [end EXCEPT !.writable = TRUE]]
              /\ pipes' = (a[2] :> [data |-> <<>>, readopen |-> TRUE, writeopen |-> TRUE]) @@ pipes
              /\ proc' = [proc EXCEPT ![p].ofile[d0] = f0, ![p].ofile[d1] = f1]
              /\ Return(p, 0, AnyData)
           \/ /\ ~files \/ Cardinality(FreeFds(p)) < 2
              /\ mem' = IF files THEN Kfree(a[1], a[2]) ELSE mem
              /\ Return(p, -1, AnyData)
              /\ UNCHANGED <<ft, pipes, proc>>
        /\ UNCHANGED <<disk, ic, intrans, astray>>

UNCH_pipe == UNCHANGED <<disk, ic, ft, mem, proc, intrans, astray>>

\* piperead(): waits while the pipe is empty and has a writer.
ReadPipe(p) ==
    LET g == ft[FileOf(p)].pipe
        q == pipes[g]
        m == Min({c(p).n, Len(q.data)})
    IN  /\ OnPipe(p, "read")
        /\ \/ /\ q.data # <<>> \/ ~q.writeopen
              /\ pipes' = [pipes EXCEPT ![g].data = SubSeq(@, m + 1, Len(@))]
              /\ Return(p, m, SubSeq(q.data, 1, m))
           \/ /\ q.data = <<>> /\ q.writeopen /\ proc[p].killed
              /\ Return(p, -1, AnyData)
              /\ UNCHANGED pipes
        /\ UNCH_pipe

\* pipewrite(): looks at the reader and at killed when the pipe is full only.
WritePipe(p) ==
    LET g == ft[FileOf(p)].pipe
        q == pipes[g]
        left == SubSeq(c(p).data, loc[p].i + 1, c(p).n)
        m == Min({PIPESIZE - Len(q.data), Len(left)})
    IN  /\ OnPipe(p, "write")
        /\ \/ /\ m = Len(left)
              /\ pipes' = [pipes EXCEPT ![g].data = @ \o left]
              /\ Return(p, c(p).n, AnyData)
           \/ /\ 0 < m /\ m < Len(left)
              /\ pipes' = [pipes EXCEPT ![g].data = @ \o SubSeq(left, 1, m)]
              /\ loc' = [loc EXCEPT ![p].i = @ + m]
              /\ Goto(p, "write")
           \/ /\ m = 0 /\ left # <<>>
              /\ ~q.readopen \/ proc[p].killed
              /\ Return(p, -1, AnyData)
              /\ UNCHANGED pipes
        /\ UNCH_pipe

FdCall(p) == \/ Refuse(p) \/ Dup(p) \/ BeginFd(p) \/ Fstat(p) \/ ReadInode(p) \/ WriteInode(p)
             \/ WriteNothing(p) \/ Close(p) \/ Pipe(p) \/ ReadPipe(p) \/ WritePipe(p)
-----------------------------------------------------------------------------
(* Processes and their memory.  A pid is the number of the table entry.    *)

Fork(p) ==
    LET free == {q \in Procs : proc[q].state = "unused"}
        q == Min(free)
        k == Kalloc(mem)
        v == Copyuvm(k[1], proc[p].vm, proc[p].sz)
        Dups(f) == Cardinality({fd \in Fds : proc[p].ofile[fd] = f})
    IN  /\ User(p, "fork")
        /\ \/ /\ free # {} /\ k[2] # 0 /\ v.ok
              /\ mem' = [v.m EXCEPT !.tag[k[2]] = "kstack"]
              /\ proc' = [proc EXCEPT ![q] = [proc[p] EXCEPT !.parent = p, !.killed = FALSE,
                                                           !.vm = v.vm, !.kstack = k[2]]]
              /\ ft' = [f \in FileIds |-> [ft[f] EXCEPT !.ref = @ + Dups(f)]]
              /\ ic' = [ic EXCEPT ![proc[p].cwd].ref = @ + 1]
              /\ pc' = pc
              /\ todo' = [todo EXCEPT ![p] = Tail(@), ![q] = c(p).prog]
              /\ failed' = IF q \in c(p).want THEN failed ELSE failed \cup {<<p, "fork", q>>}
              /\ loc' = loc
           \/ /\ free = {} \/ k[2] = 0 \/ ~v.ok
              /\ mem' = IF free = {} \/ k[2] = 0 THEN mem ELSE Kfree(v.m, k[2])
              /\ Return(p, -1, AnyData)
              /\ UNCHANGED <<proc, ft, ic>>
        /\ UNCHANGED <<disk, pipes, intrans, astray>>

\* exit() or the end of a killed process, on its way to user space.
Die(p) ==
    /\ \/ User(p, "exit")
       \/ At(p, "user") /\ proc[p].state = "used" /\ proc[p].killed
    /\ Goto(p, "exit")
    /\ UNCHANGED <<disk, ic, ft, pipes, mem, proc, loc, intrans, astray>>

ExitClose(p) ==
    LET fd == Min(OpenFds(p)) IN
    /\ At(p, "exit") /\ OpenFds(p) # {}
    /\ proc' = [proc EXCEPT ![p].ofile[fd] = 0]
    /\ Fileclose(p, proc[p].ofile[fd], "exitend", Goto(p, "exit") /\ UNCHANGED loc)
    /\ UNCHANGED <<disk, ic, astray>>

ExitEnd(p) ==
    /\ At(p, "exitend")
    /\ EndOp(p)
    /\ Goto(p, "exit")
    /\ UNCHANGED <<disk, ic, ft, pipes, mem, proc, loc, astray>>

ExitCwd(p) ==
    /\ At(p, "exit") /\ OpenFds(p) = {}
    /\ intrans' = intrans \cup {p}
    /\ PutThen(p, proc[p].cwd, "exited", NoLoc)
    /\ UNCHANGED <<disk, ic, ft, pipes, mem, proc, astray>>

\* A zombie; its children are init's, which is outside of the table (0).
Exited(p) ==
    /\ At(p, "exited")
    /\ EndOp(p)
    /\ proc' = [q \in Procs |-> IF q = p THEN [proc[q] EXCEPT !.state = "zombie", !.cwd = 0]
                               ELSE IF proc[q].parent = p THEN [proc[q] EXCEPT !.parent = 0]
                               ELSE proc[q]]
    /\ pc' = [pc EXCEPT ![p] = "user"]
    /\ loc' = [loc EXCEPT ![p] = NoLoc]
    /\ todo' = [todo EXCEPT ![p] = <<>>]
    /\ UNCHANGED <<disk, ic, ft, pipes, mem, failed, astray>>

\* wait() frees what the zombie q still has.
Reap(q) ==
    /\ mem' = Freevm(Kfree(mem, proc[q].kstack), proc[q].vm)
    /\ proc' = [proc EXCEPT ![q] = NoProc]

Children(p) == {q \in Procs : proc[q].state # "unused" /\ proc[q].parent = p}

Wait(p) ==
    LET dead == {q \in Children(p) : proc[q].state = "zombie"} IN
    /\ At(p, "user") /\ proc[p].state = "used" /\ todo[p] # <<>> /\ c(p).op = "wait"
    /\ \/ /\ dead # {}
          /\ Reap(Min(dead))
          /\ Return(p, Min(dead), AnyData)
       \/ /\ dead = {}
          /\ Children(p) = {} \/ proc[p].killed
          /\ Return(p, -1, AnyData)
          /\ UNCHANGED <<mem, proc>>
    /\ UNCHANGED <<disk, ic, ft, pipes, intrans, astray>>

InitReaps(q) ==
    /\ At(q, "user") /\ proc[q].state = "zombie" /\ proc[q].parent = 0
    /\ Reap(q)
    /\ UNCHANGED <<disk, ic, ft, pipes, pc, loc, todo, intrans, failed, astray>>

Kill(p) ==
    LET q == c(p).n IN
    /\ User(p, "kill")
    /\ \/ /\ q \in Procs /\ proc[q].state # "unused"
          /\ proc' = [proc EXCEPT ![q].killed = TRUE]
          /\ Return(p, 0, AnyData)
       \/ /\ q \notin Procs \/ proc[q].state = "unused"
          /\ Return(p, -1, AnyData)
          /\ UNCHANGED proc
    /\ UNCHANGED <<disk, ic, ft, pipes, mem, intrans, astray>>

Sbrk(p) ==
    LET g == Growproc(mem, proc[p].vm, proc[p].sz, c(p).n) IN
    /\ User(p, "sbrk")
    /\ mem' = g.m
    /\ proc' = [proc EXCEPT ![p].vm = g.vm, ![p].sz = g.sz]
    /\ Return(p, g.r, AnyData)
    /\ UNCHANGED <<disk, ic, ft, pipes, intrans, astray>>

\* An access of the program itself: a fault kills it.
Touch(p) ==
    LET mapped == c(p).addr >= 0 /\ Uva2ka(proc[p].vm, c(p).addr \div PGSIZE) IN
    /\ User(p, "touch")
    /\ IF mapped THEN Return(p, 0, AnyData) /\ UNCHANGED proc
       ELSE proc' = [proc EXCEPT ![p].killed = TRUE] /\ UNCHANGED <<pc, loc>> /\ Stay
    /\ UNCHANGED <<disk, ic, ft, pipes, mem, intrans, astray>>

\* getpid, uptime and sleep: time is not modelled.
Pass(p) ==
    /\ \E op \in {"getpid", "sleep"} : User(p, op)
    /\ Return(p, IF c(p).op = "getpid" THEN p ELSE 0, AnyData)
    /\ UNCHANGED <<disk, ic, ft, pipes, mem, proc, intrans, astray>>

ProcCall(p) == \/ Fork(p) \/ Die(p) \/ ExitClose(p) \/ ExitEnd(p) \/ ExitCwd(p) \/ Exited(p)
               \/ Wait(p) \/ InitReaps(p) \/ Kill(p) \/ Sbrk(p) \/ Touch(p) \/ Pass(p)

\* The processes of S wait for each other's inode locks.
LockCycle(S) == S # {} /\ \A p \in S : Wanted(p) # 0 /\ ic[Wanted(p)].lock \in S

\* None of the programs that run (Scenarios) reaches a panic of fs.c, kalloc.c,
\* vm.c or sysfile.c, however their calls interleave.  Other programs do, with
\* calls as legal: "ilock: no type" (fs.c:311), "dirlink" (fs.c:576), and those
\* of a disk or a cache that is full.
NoPanic == disk.bad = "" /\ mem.bad = "" /\ \A p \in Procs : ~Panics(p)

\* The end: a panic, a deadlock, or nothing left to do.
Halted == ~NoPanic \/ \E S \in SUBSET Procs : LockCycle(S)
Done ==
    /\ Halted \/ \A p \in Procs : todo[p] = <<>> /\ pc[p] = "user" /\ proc[p].state # "zombie"
    /\ UNCHANGED vars

Next == (\E p \in Procs : PathCall(p) \/ FdCall(p) \/ ProcCall(p)) \/ Done

Spec == Init /\ [][Next]_vars
-----------------------------------------------------------------------------
(* Properties.                                                             *)

\* The reference counts are the numbers of holders: an entry of the inode
\* cache is held by local variables, open files and working directories, a
\* file by descriptors (iget, idup, iput, filedup, fileclose, fork, exit).
RefsMatchHolders ==
    /\ \A s \in Slots : ic[s].ref =
          Cardinality({h \in Procs \X {"cur", "ip", "dp", "put"} : loc[h[1]][h[2]] = s})
        + Cardinality({f \in FileIds : ft[f].ip = s})
        + Cardinality({p \in Procs : proc[p].cwd = s /\ loc[p].then \notin {"cd", "exited"}})
    /\ \A f \in FileIds : ft[f].ref =
          Cardinality({h \in Procs \X Fds : proc[h[1]].ofile[h[2]] = f})

\* iget() looks for the entry of an inode in use before it takes a free one
\* (fs.c:252): all its users share one entry, so one sleep lock and one copy.
OneEntryPerInode == \A s, u \in Slots :
    ic[s].ref > 0 /\ ic[u].ref > 0 /\ ic[s].inum = ic[u].inum => s = u

\* An entry whose sleep lock is held is in use by a call that goes on: iget(),
\* which does not look at the lock, recycles no locked entry, and no process
\* is back in user space with an inode locked.
LocksAreHeld == \A s \in Slots :
    ic[s].lock # 0 => ic[s].ref > 0 /\ pc[ic[s].lock] # "user"

\* Two calls never change one inode at a time: the sleep lock that excludes
\* them is one, and its holder still has its reference (iget, ilock, iput).
LocksExclude == OneEntryPerInode /\ LocksAreHeld

Allocated == {i \in Inums : disk.ino[i].type # "free"}
LiveDirs == {i \in Inums \ astray : disk.ino[i].type = "dir" /\ disk.ino[i].nlink > 0}
NamesOf(i) == {n \in LiveDirs \X (0 .. MAXFILE * BSIZE - 1) :
                 LET d == disk.ino[n[1]] IN
                 /\ n[2] < d.size
                 /\ InumAt(disk, d, n[2]) = i
                 /\ Unit(disk, d, n[2])[2] # "."}

\* Between transactions nlink counts the names of an inode, no name is of a
\* free inode, every block in use belongs to one inode, the bitmap knows the
\* others, and the cache agrees with the disk.  An inode that was created or
\* linked in a directory already removed has no name: astray.
DiskConsistent == intrans = {} =>
    LET owned == FlattenSeq([i \in Inums |-> BlocksOf(disk, disk.ino[i])])
    IN  /\ \A i \in Inums \ astray : Cardinality(NamesOf(i)) =
              IF i \in Allocated THEN disk.ino[i].nlink ELSE 0
        /\ IsInjective(owned) /\ ToSet(owned) = disk.used
        /\ \A s \in Slots : ic[s].ref > 0 /\ ic[s].valid => ic[s].d = disk.ino[ic[s].inum]

VmPages(vm) == <<vm.dir>> \o [i \in 1 .. NUPT + NKPT |-> vm.pt[i - 1]]
                          \o [i \in 1 .. NUPT * NPTE |-> vm.map[i - 1].pa]
PagesOf(p) == <<proc[p].kstack>> \o VmPages(proc[p].vm) \o VmPages(loc[p].vm)

\* Every physical page is on the free list or has one owner: a kernel stack,
\* a page of one address space or its tables, or a pipe (kalloc, kfree and
\* the undoing of fork, exec, pipe and sbrk that fail).
PagesOwnedOnce ==
    LET uses == mem.free \o SelectSeq([g \in Pages |-> g], LAMBDA g : g \in DOMAIN pipes)
                \o SelectSeq(FlattenSeq([p \in Procs |-> PagesOf(p)]), LAMBDA g : g # 0)
    IN  Len(uses) = NPAGES /\ ToSet(uses) = Pages

\* Processes wait for each other's inode locks only if one of them waits in
\* iput(): ilock() alone goes from a directory to what it names (create,
\* unlink), and namex() and link() lock one inode at a time.
LockCyclesNeedIput == \A S \in SUBSET Procs : LockCycle(S) => \E p \in S : pc[p] = "put"

\* No processes wait for each other's inode locks: what linkunlink() of
\* usertests.c looks for (usertests.c:855).
NoLockCycle == \A S \in SUBSET Procs : ~LockCycle(S)

\* Every call of a test returns, and shows, what the test expects of it.
CallsReturnAsTested == failed = {}
=============================================================================
