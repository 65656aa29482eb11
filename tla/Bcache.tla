------------------------------- MODULE Bcache -------------------------------
(***************************************************************************)
(* The buffer cache (bio.c) with the sleep locks of its buffers            *)
(* (sleeplock.c) and the disk queue behind it (ide.c).                     *)
(*                                                                         *)
(* A process reads a block, may change it and hand it to log_write(),      *)
(* which pins it, or to bwrite(), and releases it.  Critical sections of   *)
(* bcache.lock, idelock and the spinlock of a sleep lock are steps;        *)
(* kill() may wake a sleeper at any time.                                  *)
(*                                                                         *)
(* Abstractions: a process holds one buffer at a time; bget() recycles any *)
(* unused buffer, not the least recently used one; a buffer under a write  *)
(* request is locked, so the disk takes its contents when it is done.  The *)
(* disk makes no errors: the branch of ideintr() that leaves the data of a *)
(* failed read alone (ide.c:118) is left out.                              *)
(***************************************************************************)
EXTENDS Naturals, Sequences, FiniteSets

CONSTANTS
  Procs, NoProc,
  Bufs, NoBuf,         \* bcache.buf
  Blocks, NoBlock,     \* blocks of the disk
  Vals                 \* block contents

ASSUME BcacheAssumption ==
  /\ IsFiniteSet(Procs)
  /\ NoProc \notin Procs /\ NoBuf \notin Bufs /\ NoBlock \notin Blocks

VARIABLES
  blk, ref, valid, dirty, data,   \* the fields of the buffers
  owner,       \* b->lock: who has locked it
  disk,
  idequeue,
  active,      \* the request idestart() has given to the disk
  pc,
  buf,         \* the buffer a process works on
  want,        \* the block it asked for
  panicked

bufVars == <<blk, ref, valid, dirty, data>>
ideVars == <<disk, idequeue, active>>

vars == <<bufVars, owner, ideVars, pc, buf, want, panicked>>

PCs == { "idle",
         "lock",        \* in acquiresleep(), about to test locked
         "locksleep",   \* in its sleep()
         "iderw",       \* about to call iderw()
         "iosleep",     \* in its sleep()
         "iowake",      \* woken, about to test the flags
         "use",         \* has the buffer
         "changed",     \* has changed it
         "brelse" }     \* in brelse(), lock released

TypeOK ==
  /\ blk \in [Bufs -> Blocks \cup {NoBlock}]
  /\ ref \in [Bufs -> 0 .. Cardinality(Procs)]
  /\ valid \in [Bufs -> BOOLEAN] /\ dirty \in [Bufs -> BOOLEAN]
  /\ data \in [Bufs -> Vals]
  /\ owner \in [Bufs -> Procs \cup {NoProc}]
  /\ disk \in [Blocks -> Vals]
  /\ idequeue \in Seq(Bufs)
  /\ active \in Bufs \cup {NoBuf}
  /\ pc \in [Procs -> PCs]
  /\ buf \in [Procs -> Bufs \cup {NoBuf}]
  /\ want \in [Procs -> Blocks \cup {NoBlock}]
  /\ panicked \in BOOLEAN

(* After binit() and ideinit().                                            *)
Init ==
  /\ blk = [k \in Bufs |-> NoBlock] /\ ref = [k \in Bufs |-> 0]
  /\ valid = [k \in Bufs |-> FALSE] /\ dirty = [k \in Bufs |-> FALSE]
  /\ \E v \in Vals :
       /\ data = [k \in Bufs |-> v]
       /\ disk = [b \in Blocks |-> v]
  /\ owner = [k \in Bufs |-> NoProc]
  /\ idequeue = <<>> /\ active = NoBuf
  /\ pc = [p \in Procs |-> "idle"]
  /\ buf = [p \in Procs |-> NoBuf]
  /\ want = [p \in Procs |-> NoBlock]
  /\ panicked = FALSE

(* A panic stops the machine.                                              *)
Running == ~ panicked

Goto(p, to) == pc' = [pc EXCEPT ![p] = to]

(* wakeup(): the processes of S go on where they tested their condition.   *)
Awake(f, S) ==
  [q \in Procs |-> IF q \notin S THEN f[q]
                   ELSE IF f[q] = "locksleep" THEN "lock"
                   ELSE IF f[q] = "iosleep" THEN "iowake" ELSE f[q]]

-----------------------------------------------------------------------------
(* bget()                                                                  *)

Cached(b) == {k \in Bufs : blk[k] = b}

(* Mutants of Unused: a pinned buffer, or one that is not locked although  *)
(* somebody waits for it, is recycled.                                     *)
M_UnusedDirty == {k \in Bufs : ref[k] = 0}
M_UnusedRef   == {k \in Bufs : owner[k] = NoProc /\ ~ dirty[k]}

(* Even if refcnt==0, B_DIRTY indicates a buffer is in use.                *)
Unused == {k \in Bufs : ref[k] = 0 /\ ~ dirty[k]}

Take(p, k, b) ==
  /\ buf' = [buf EXCEPT ![p] = k]
  /\ want' = [want EXCEPT ![p] = b]
  /\ Goto(p, "lock")

BgetHit(p, b) ==
  /\ Running
  /\ pc[p] = "idle"
  /\ \E k \in Cached(b) :
       /\ ref' = [ref EXCEPT ![k] = @ + 1]
       /\ Take(p, k, b)
  /\ UNCHANGED <<blk, valid, dirty, data, owner, ideVars, panicked>>

BgetRecycle(p, b) ==
  /\ Running
  /\ pc[p] = "idle"
  /\ Cached(b) = {}
  /\ \E k \in Unused :
       /\ blk' = [blk EXCEPT ![k] = b]
       /\ valid' = [valid EXCEPT ![k] = FALSE]
       /\ dirty' = [dirty EXCEPT ![k] = FALSE]
       /\ ref' = [ref EXCEPT ![k] = 1]
       /\ Take(p, k, b)
  /\ UNCHANGED <<data, owner, ideVars, panicked>>

(* panic("bget: no buffers")                                               *)
BgetPanic(p, b) ==
  /\ Running
  /\ pc[p] = "idle"
  /\ Cached(b) = {} /\ Unused = {}
  /\ panicked' = TRUE
  /\ UNCHANGED <<bufVars, owner, ideVars, pc, buf, want>>

-----------------------------------------------------------------------------
(* acquiresleep() and releasesleep()                                       *)

AcquireSleep(p) ==
  /\ Running
  /\ pc[p] = "lock"
  /\ LET k == buf[p]
     IN \/ /\ owner[k] = NoProc
           /\ owner' = [owner EXCEPT ![k] = p]
           /\ Goto(p, IF valid[k] THEN "use" ELSE "iderw")
        \/ /\ owner[k] # NoProc
           /\ Goto(p, "locksleep")
           /\ UNCHANGED owner
  /\ UNCHANGED <<bufVars, ideVars, buf, want, panicked>>

(* Mutant of LockSleepers: the sleepers are not woken.                     *)
M_LockSleepers(k) == {}

LockSleepers(k) == {q \in Procs : buf[q] = k /\ pc[q] = "locksleep"}

(* brelse(), first part.                                                   *)
ReleaseSleep(p) ==
  /\ Running
  /\ pc[p] = "use"
  /\ owner' = [owner EXCEPT ![buf[p]] = NoProc]
  /\ pc' = [Awake(pc, LockSleepers(buf[p])) EXCEPT ![p] = "brelse"]
  /\ UNCHANGED <<bufVars, ideVars, buf, want, panicked>>

Unref(k) == [ref EXCEPT ![k] = @ - 1]

(* brelse(), second part, under bcache.lock.                               *)
Brelse(p) ==
  /\ Running
  /\ pc[p] = "brelse"
  /\ ref' = Unref(buf[p])
  /\ buf' = [buf EXCEPT ![p] = NoBuf]
  /\ want' = [want EXCEPT ![p] = NoBlock]
  /\ Goto(p, "idle")
  /\ UNCHANGED <<blk, valid, dirty, data, owner, ideVars, panicked>>

-----------------------------------------------------------------------------
(* Changes: the holder alters the contents, then calls log_write() or      *)
(* bwrite().                                                               *)

Change(p, v) ==
  /\ Running
  /\ pc[p] = "use"
  /\ data' = [data EXCEPT ![buf[p]] = v]
  /\ Goto(p, "changed")
  /\ UNCHANGED <<blk, ref, valid, dirty, owner, ideVars, buf, want, panicked>>

(* b->flags |= B_DIRTY in log_write() (to = "use") or bwrite() ("iderw").  *)
SetDirty(p, to) ==
  /\ Running
  /\ pc[p] = "changed"
  /\ dirty' = [dirty EXCEPT ![buf[p]] = TRUE]
  /\ Goto(p, to)
  /\ UNCHANGED <<blk, ref, valid, data, owner, ideVars, buf, want, panicked>>

LogWrite(p) == SetDirty(p, "use")
Bwrite(p)   == SetDirty(p, "iderw")

-----------------------------------------------------------------------------
(* iderw() and ideintr()                                                   *)

(* Append to the queue, start the disk if it is idle, sleep.               *)
Iderw(p) ==
  /\ Running
  /\ pc[p] = "iderw"
  /\ idequeue' = Append(idequeue, buf[p])
  /\ active' = IF idequeue = <<>> THEN buf[p] ELSE active
  /\ Goto(p, "iosleep")
  /\ UNCHANGED <<bufVars, owner, disk, buf, want, panicked>>

(* (b->flags & (B_VALID|B_DIRTY)) == B_VALID                               *)
Synced(k) == valid[k] /\ ~ dirty[k]

IderwAgain(p) ==
  /\ Running
  /\ pc[p] = "iowake"
  /\ Goto(p, IF Synced(buf[p]) THEN "use" ELSE "iosleep")
  /\ UNCHANGED <<bufVars, owner, ideVars, buf, want, panicked>>

(* Mutant of NextRequest: the disk is not started again.                   *)
M_NextRequest(q) == NoBuf

(* Start disk on next buf in queue.                                        *)
NextRequest(q) == IF q = <<>> THEN NoBuf ELSE Head(q)

(* The disk is done with the active request and interrupts.                *)
IdeIntr ==
  /\ Running
  /\ active # NoBuf
  /\ LET k == Head(idequeue)
     IN /\ IF dirty[k]
             THEN disk' = [disk EXCEPT ![blk[k]] = data[k]] /\ UNCHANGED data
             ELSE data' = [data EXCEPT ![k] = disk[blk[k]]] /\ UNCHANGED disk
        /\ valid' = [valid EXCEPT ![k] = TRUE]
        /\ dirty' = [dirty EXCEPT ![k] = FALSE]
        /\ pc' = Awake(pc, {q \in Procs : pc[q] = "iosleep" /\ buf[q] = k})
  /\ idequeue' = Tail(idequeue)
  /\ active' = NextRequest(Tail(idequeue))
  /\ UNCHANGED <<blk, ref, owner, buf, want, panicked>>

(* kill() wakes a process whatever it sleeps for.                          *)
Kill(p) ==
  /\ Running
  /\ pc[p] \in {"locksleep", "iosleep"}
  /\ pc' = Awake(pc, {p})
  /\ UNCHANGED <<bufVars, owner, ideVars, buf, want, panicked>>

-----------------------------------------------------------------------------
Step(p) ==
  \/ AcquireSleep(p) \/ ReleaseSleep(p) \/ Brelse(p)
  \/ LogWrite(p) \/ Bwrite(p) \/ Iderw(p) \/ IderwAgain(p)

Next ==
  \/ \E p \in Procs :
       \/ \E b \in Blocks :
            BgetHit(p, b) \/ BgetRecycle(p, b) \/ BgetPanic(p, b)
       \/ Step(p) \/ Kill(p)
       \/ \E v \in Vals : Change(p, v)
  \/ IdeIntr

Spec == Init /\ [][Next]_vars

-----------------------------------------------------------------------------
(* Safety                                                                  *)

(* What a reader of block b finds.                                         *)
View(b) ==
  LET ks == {k \in Cached(b) : valid[k]}
  IN IF ks = {} THEN disk[b] ELSE data[CHOOSE k \in ks : TRUE]

(* The cache is "a synchronization point for disk blocks used by multiple  *)
(* processes" (bio.c:6): a block has one holder, and neither recycling nor *)
(* the disk queue nor a wakeup changes what is read from it.               *)
Store == INSTANCE BlockStore WITH
  mem    <- [b \in Blocks |-> View(b)],
  holder <- [b \in Blocks |-> IF Cached(b) = {} THEN NoProc
                              ELSE owner[CHOOSE k \in Cached(b) : TRUE]]

ImplementsBlockStore == Store!BSpec

(* A buffer keeps its block while somebody waits for it or has it (bget()  *)
(* drops bcache.lock before it locks the buffer), no block has two of      *)
(* them, and a reader returns with its own, valid one.                     *)
BufferStable ==
  /\ TypeOK
  /\ \A p \in Procs : buf[p] # NoBuf => blk[buf[p]] = want[p]
  /\ \A j, k \in Bufs : blk[j] = blk[k] => j = k \/ blk[j] = NoBlock
  /\ \A p \in Procs :
       pc[p] \in {"use", "changed"} => valid[buf[p]] /\ owner[buf[p]] = p

(* No lost wakeup and no lost request: who sleeps for a buffer finds it    *)
(* locked, who sleeps for the disk is in its queue, and the disk is at the *)
(* head of the queue.                                                      *)
SleepersJustified ==
  /\ \A p \in Procs :
       /\ pc[p] = "locksleep" => owner[buf[p]] # NoProc
       /\ pc[p] = "iosleep" => \E j \in DOMAIN idequeue : idequeue[j] = buf[p]
  /\ active = IF idequeue = <<>> THEN NoBuf ELSE Head(idequeue)

-----------------------------------------------------------------------------
(* Liveness                                                                *)

(* The disk answers, and who has a buffer goes on with it and, however     *)
(* often it changes and writes it, releases it at last.  Nobody is         *)
(* promised to get a lock: releasesleep() only makes its waiters RUNNABLE, *)
(* and the same process may lock the buffer again before they run.         *)
Fairness ==
  /\ WF_vars(IdeIntr)
  /\ \A p \in Procs :
       /\ WF_vars(LogWrite(p) \/ Bwrite(p) \/ Iderw(p) \/ IderwAgain(p))
       /\ SF_vars(ReleaseSleep(p))

LiveSpec == Spec /\ Fairness

(* Who sleeps for a buffer is at last awake at a moment when it is free    *)
(* (releasesleep(), sleeplock.c:38-40), and who calls iderw() gets its     *)
(* answer and returns, whatever the other requests and kill() do           *)
(* (ide.c:137-168).  Unless the cache runs out of buffers.                 *)
BreadProceeds ==
  \A p \in Procs :
    /\ pc[p] = "locksleep" ~>
         (pc[p] = "lock" /\ owner[buf[p]] = NoProc) \/ panicked
    /\ pc[p] = "iderw" ~> pc[p] = "use" \/ panicked
=============================================================================
