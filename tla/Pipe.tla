-------------------------------- MODULE Pipe --------------------------------
(***************************************************************************)
(* One pipe of xv6 (pipe.c), the files at its two ends (fileclose() of     *)
(* file.c) and the processes that share it by fork().                      *)
(*                                                                         *)
(* p->lock is a spinlock; sleep() releases it once it holds ptable.lock,   *)
(* and kill(), which takes only ptable.lock, comes between any two steps.  *)
(*                                                                         *)
(* Abstractions: every process holds at most one descriptor of each end;   *)
(* what it does besides using the pipe is not modelled; a killed process   *)
(* starts no further call, it closes its descriptors (exit()).             *)
(***************************************************************************)
EXTENDS Naturals, FiniteSets

CONSTANTS
  Procs,       \* the processes that share the pipe
  NoProc,      \* "the lock is free"
  Bytes,
  PIPESIZE,    \* pipe.c:11
  W,           \* the counters are unsigned integers modulo W
  MaxN         \* bound: the largest count of a read or write

ASSUME PipeAssumption ==
  /\ NoProc \notin Procs
  /\ PIPESIZE \in Nat \ {0}
  /\ W \in Nat /\ W > PIPESIZE /\ W % PIPESIZE = 0
  /\ MaxN \in Nat

VARIABLES
  data, nread, nwrite,
  readopen, writeopen,
  freed,        \* kfree() has been called on the pipe
  lock,
  rfd, wfd,     \* who has the read end, the write end open
  pc,
  n, i,         \* requested and transferred bytes of the call
  killed,
  last          \* the byte copied out last

pipeVars == <<data, nread, nwrite, last>>
endVars  == <<readopen, writeopen, freed, rfd, wfd>>
procVars == <<n, i>>

vars == <<pipeVars, endVars, procVars, lock, pc, killed>>

PCs == { "user",                   \* outside the pipe
         "racq", "wacq",           \* at acquire(&p->lock)
         "rwait",                  \* in the first loop of piperead()
         "rcopy",                  \* in its second loop
         "wloop",                  \* in the loop of pipewrite()
         "rdoze", "wdoze",         \* about to sleep(), killed tested
         "rsleep", "wsleep",       \* asleep
         "rclose", "wclose" }      \* in pipeclose()

TypeOK ==
  /\ data \in [0 .. PIPESIZE - 1 -> Bytes]
  /\ nread \in 0 .. W - 1 /\ nwrite \in 0 .. W - 1
  /\ readopen \in BOOLEAN /\ writeopen \in BOOLEAN /\ freed \in BOOLEAN
  /\ lock \in Procs \cup {NoProc}
  /\ rfd \subseteq Procs /\ wfd \subseteq Procs
  /\ pc \in [Procs -> PCs]
  /\ n \in [Procs -> 0 .. MaxN] /\ i \in [Procs -> 0 .. MaxN]
  /\ killed \in [Procs -> BOOLEAN]
  /\ last \in Bytes

(* After pipealloc() and fork(); the page holds what it held before.       *)
Init ==
  /\ data \in [0 .. PIPESIZE - 1 -> Bytes]
  /\ nread = 0 /\ nwrite = 0
  /\ readopen = TRUE /\ writeopen = TRUE /\ freed = FALSE
  /\ lock = NoProc
  /\ rfd = Procs /\ wfd = Procs
  /\ pc = [p \in Procs |-> "user"]
  /\ n = [p \in Procs |-> 0] /\ i = [p \in Procs |-> 0]
  /\ killed = [p \in Procs |-> FALSE]
  /\ last \in Bytes

-----------------------------------------------------------------------------
(* ++ on a uint.                                                           *)
Inc(x) == (x + 1) % W

(* Mutant of Full: one byte too many.                                      *)
M_Full == nwrite = (nread + PIPESIZE + 1) % W

Empty == nread = nwrite
Full  == nwrite = (nread + PIPESIZE) % W

(* The processes of f asleep at a point of from have been woken.           *)
Awake(f, from) ==
  [q \in Procs |->
     IF f[q] \in from THEN IF f[q] = "rsleep" THEN "racq" ELSE "wacq"
                      ELSE f[q]]

Readers == {"rsleep"}      \* sleeping on &p->nread
Writers == {"wsleep"}      \* sleeping on &p->nwrite

Acquire(p, from, to) ==
  /\ pc[p] = from
  /\ lock = NoProc
  /\ lock' = p
  /\ pc' = [pc EXCEPT ![p] = to]

(* p, in the kernel with the lock, releases it and returns.                *)
Return(f, p) ==
  /\ lock' = NoProc
  /\ pc' = [f EXCEPT ![p] = "user"]
  /\ n' = [n EXCEPT ![p] = 0]
  /\ i' = [i EXCEPT ![p] = 0]

(* sleep(chan, &p->lock), up to sched().                                   *)
Sleep(p, from, to) ==
  /\ pc[p] = from
  /\ lock' = NoProc
  /\ pc' = [pc EXCEPT ![p] = to]

-----------------------------------------------------------------------------
(* read() and write() by a process that has the end open                   *)

Call(p, fds, to) ==
  /\ pc[p] = "user" /\ ~ killed[p]
  /\ p \in fds
  /\ \E k \in 0 .. MaxN : n' = [n EXCEPT ![p] = k]
  /\ i' = [i EXCEPT ![p] = 0]
  /\ pc' = [pc EXCEPT ![p] = to]
  /\ UNCHANGED <<pipeVars, endVars, lock, killed>>

CallRead(p)  == Call(p, rfd, "racq")
CallWrite(p) == Call(p, wfd, "wacq")

ReadAcquire(p) ==
  /\ Acquire(p, "racq", "rwait")
  /\ UNCHANGED <<pipeVars, endVars, procVars, killed>>

(* while(p->nread == p->nwrite && p->writeopen)                            *)
ReadWait(p) ==
  /\ pc[p] = "rwait"
  /\ \/ /\ Empty /\ writeopen /\ killed[p]
        /\ Return(pc, p)
     \/ /\ Empty /\ writeopen /\ ~ killed[p]
        /\ pc' = [pc EXCEPT ![p] = "rdoze"]
        /\ UNCHANGED <<lock, procVars>>
     \/ /\ ~ (Empty /\ writeopen)
        /\ pc' = [pc EXCEPT ![p] = "rcopy"]
        /\ UNCHANGED <<lock, procVars>>
  /\ UNCHANGED <<pipeVars, endVars, killed>>

ReadSleep(p) ==
  /\ Sleep(p, "rdoze", "rsleep")
  /\ UNCHANGED <<pipeVars, endVars, procVars, killed>>

ReadByte(p) ==
  /\ pc[p] = "rcopy"
  /\ i[p] < n[p] /\ ~ Empty
  /\ last' = data[nread % PIPESIZE]
  /\ nread' = Inc(nread)
  /\ i' = [i EXCEPT ![p] = @ + 1]
  /\ UNCHANGED <<data, nwrite, endVars, n, lock, pc, killed>>

ReadReturn(p) ==
  /\ pc[p] = "rcopy"
  /\ i[p] = n[p] \/ Empty
  /\ Return(Awake(pc, Writers), p)
  /\ UNCHANGED <<pipeVars, endVars, killed>>

WriteAcquire(p) ==
  /\ Acquire(p, "wacq", "wloop")
  /\ UNCHANGED <<pipeVars, endVars, procVars, killed>>

(* while(p->nwrite == p->nread + PIPESIZE)                                 *)
WriteFull(p) ==
  /\ pc[p] = "wloop"
  /\ i[p] < n[p] /\ Full
  /\ \/ /\ ~ readopen \/ killed[p]
        /\ Return(pc, p)
     \/ /\ readopen /\ ~ killed[p]
        /\ pc' = [Awake(pc, Readers) EXCEPT ![p] = "wdoze"]
        /\ UNCHANGED <<lock, procVars>>
  /\ UNCHANGED <<pipeVars, endVars, killed>>

WriteSleep(p) ==
  /\ Sleep(p, "wdoze", "wsleep")
  /\ UNCHANGED <<pipeVars, endVars, procVars, killed>>

WriteByte(p) ==
  /\ pc[p] = "wloop"
  /\ i[p] < n[p] /\ ~ Full
  /\ \E b \in Bytes : data' = [data EXCEPT ![nwrite % PIPESIZE] = b]
  /\ nwrite' = Inc(nwrite)
  /\ i' = [i EXCEPT ![p] = @ + 1]
  /\ UNCHANGED <<nread, last, endVars, n, lock, pc, killed>>

(* Mutant of WriteReturn: the readers are not woken.                       *)
M_WriteReturn(p) ==
  /\ pc[p] = "wloop"
  /\ i[p] = n[p]
  /\ Return(pc, p)
  /\ UNCHANGED <<pipeVars, endVars, killed>>

WriteReturn(p) ==
  /\ pc[p] = "wloop"
  /\ i[p] = n[p]
  /\ Return(Awake(pc, Readers), p)
  /\ UNCHANGED <<pipeVars, endVars, killed>>

-----------------------------------------------------------------------------
(* close(), exit() and kill()                                              *)

(* Mutant of LastRef: f->ref is not looked at.                             *)
M_LastRef(fds, p) == TRUE

(* --f->ref == 0                                                           *)
LastRef(fds, p) == fds = {p}

(* fileclose(), up to pipeclose().                                         *)
Close(p) ==
  /\ pc[p] = "user"
  /\ \/ /\ p \in rfd
        /\ rfd' = rfd \ {p}
        /\ pc' = [pc EXCEPT ![p] = IF LastRef(rfd, p) THEN "rclose" ELSE "user"]
        /\ UNCHANGED wfd
     \/ /\ p \in wfd
        /\ wfd' = wfd \ {p}
        /\ pc' = [pc EXCEPT ![p] = IF LastRef(wfd, p) THEN "wclose" ELSE "user"]
        /\ UNCHANGED rfd
  /\ UNCHANGED <<pipeVars, readopen, writeopen, freed, procVars, lock, killed>>

(* Whom pipeclose() wakes.                                                 *)
CloseWakes(writable) == IF writable THEN Readers ELSE Writers

(* Mutant of Unused: the page is freed with the first end.                 *)
M_Unused(ro, wo) == ~ ro \/ ~ wo

(* p->readopen == 0 && p->writeopen == 0                                   *)
Unused(ro, wo) == ~ ro /\ ~ wo

(* pipeclose(p, writable)                                                  *)
PipeClose(p) ==
  /\ pc[p] \in {"rclose", "wclose"}
  /\ lock = NoProc
  /\ LET writable == pc[p] = "wclose"
     IN /\ readopen'  = (readopen /\ writable)
        /\ writeopen' = (writeopen /\ ~ writable)
        /\ pc' = [Awake(pc, CloseWakes(writable)) EXCEPT ![p] = "user"]
  /\ freed' = Unused(readopen', writeopen')
  /\ UNCHANGED <<pipeVars, rfd, wfd, procVars, lock, killed>>

(* kill(): wakes p if it is asleep.                                        *)
Kill(p) ==
  /\ ~ killed[p]
  /\ killed' = [killed EXCEPT ![p] = TRUE]
  /\ pc' = [pc EXCEPT ![p] = Awake(pc, Readers \cup Writers)[p]]
  /\ UNCHANGED <<pipeVars, endVars, procVars, lock>>

-----------------------------------------------------------------------------
Step(p) ==
  \/ ReadAcquire(p) \/ ReadWait(p) \/ ReadSleep(p) \/ ReadByte(p)
  \/ ReadReturn(p)
  \/ WriteAcquire(p) \/ WriteFull(p) \/ WriteSleep(p) \/ WriteByte(p)
  \/ WriteReturn(p)
  \/ PipeClose(p)

Next ==
  \E p \in Procs :
    CallRead(p) \/ CallWrite(p) \/ Step(p) \/ Close(p) \/ Kill(p)

Spec == Init /\ [][Next]_vars

-----------------------------------------------------------------------------
(* Safety                                                                  *)

(* The bytes in the pipe, oldest first.                                    *)
Contents ==
  [k \in 1 .. (nwrite + W - nread) % W |->
     data[((nread + k - 1) % W) % PIPESIZE]]

(* The ring buffer and its wrapping counters implement a bounded stream:   *)
(* no byte is lost, repeated or reordered between pipewrite() and          *)
(* piperead(), whichever processes share the ends.                         *)
Stream == INSTANCE ByteStream WITH queue <- Contents, Capacity <- PIPESIZE

ImplementsByteStream == Stream!SSpec

(* No lost wakeup between piperead(), pipewrite() and pipeclose(): a reader*)
(* sleeps on an empty pipe whose write end is open, a writer on a full one *)
(* whose read end is open, or a process that will wake them has the lock.  *)
(* The exception: a writer that finds itself killed on a full pipe returns *)
(* without waking the readers of the bytes it has written (pipe.c:86-90).  *)
SleepersJustified ==
  \A p \in Procs :
    /\ pc[p] = "rsleep" =>
         \/ lock # NoProc
         \/ writeopen /\ (Empty \/ \E q \in Procs : killed[q])
    /\ pc[p] = "wsleep" =>
         \/ lock # NoProc
         \/ readopen /\ Full

(* pipeclose() frees the page when nobody can use it any more.             *)
NotUsedAfterFree ==
  /\ TypeOK
  /\ freed => /\ lock = NoProc
           /\ \A p \in Procs : pc[p] = "user" /\ p \notin rfd \cup wfd

(* What the results mean: a read of some bytes returns 0 only when nobody  *)
(* has the write end open, and a write returns -1 to a process that has not*)
(* been killed only when nobody has the read end open.                     *)
ReturnsAction ==
  \A p \in Procs :
    pc'[p] = "user" =>
      /\ pc[p] = "rcopy" /\ i[p] = 0 /\ n[p] > 0 => wfd = {}
      /\ pc[p] = "wloop" /\ i[p] < n[p] /\ ~ killed[p] => rfd = {}

HonestReturns == [][ReturnsAction]_vars
=============================================================================
