-------------------------------- MODULE Log ---------------------------------
(***************************************************************************)
(* The write-ahead log of xv6 (log.c) with the block cache it pins its     *)
(* blocks in (bio.c) and a disk that keeps what was written when the       *)
(* machine crashes or panics.                                              *)
(*                                                                         *)
(* File-system calls run begin_op(), change blocks in the cache, hand them *)
(* to log_write() and run end_op(); the last one out commits for all.      *)
(* Every write of one block to the disk is atomic and is one step; a crash *)
(* may come between any two steps.                                         *)
(*                                                                         *)
(* Abstractions: the contents of a block are a value of Vals; the buffers  *)
(* of the log area itself are not cached here (commit() and recovery write *)
(* and read them through, with equal contents); a buffer is not recycled   *)
(* while somebody holds it, and the cache is large enough (NBUF).  The log *)
(* on the disk has room for LOGSIZE blocks; what lies behind its NLOG - 1  *)
(* data blocks is not modelled.                                            *)
(***************************************************************************)
EXTENDS Naturals, Sequences, FiniteSets

CONSTANTS
  Procs,        \* processes that make file-system calls
  Blocks,       \* the home locations the log protects
  Vals,         \* block contents
  InitVal,      \* what mkfs has put in every block
  NoVal,        \* no buffer
  NoBlock,      \* no block
  LOGSIZE,      \* param.h:11
  MAXOPBLOCKS,  \* param.h:10
  NLOG,         \* sb.nlog: blocks of the log area, the header included
  MaxCrashes    \* bound on the number of crashes

ASSUME LogAssumption ==
  /\ IsFiniteSet(Procs)
  /\ LOGSIZE \in Nat /\ MAXOPBLOCKS \in 1 .. LOGSIZE
  /\ NLOG \in Nat /\ NLOG > 1
  /\ InitVal \in Vals /\ NoVal \notin Vals /\ NoBlock \notin Blocks
  /\ MaxCrashes \in Nat

VARIABLES
  disk,         \* home locations
  dlog,         \* the log's data blocks on the disk
  dhead,        \* the log header on the disk: the blocks of a committed
                \* transaction, in log order
  cache,        \* valid buffers
  dirty,        \* blocks whose buffer has B_DIRTY: not to be recycled
  head,         \* log.lh
  outstanding, committing,   \* log.outstanding, log.committing
  pc,           \* where each process is
  held,         \* the buffer a process has locked and changed
  wrote,        \* blocks its call has changed so far
  tail,         \* the loop variable of write_log() and install_trans()
  boot,         \* recovery's progress
  panicked,
  crashes

memVars  == <<cache, dirty, head, outstanding, committing>>
procVars == <<pc, held, wrote, tail>>
diskVars == <<disk, dlog, dhead>>
sysVars  == <<boot, panicked, crashes>>

vars == <<memVars, procVars, diskVars, sysVars>>

PCs == { "idle",      \* not in a call
         "asleep",    \* in the sleep() of begin_op()
         "op",        \* between begin_op() and end_op()
         "changed",   \* has changed a buffer, about to call log_write()
         "append",    \* in log_write(), past the checks, before acquire
         "wlog",      \* in write_log()
         "whead",     \* before the write_head() that commits
         "install",   \* in install_trans()
         "erase",     \* before the write_head() that erases
         "done" }     \* commit() has returned

TypeOK ==
  /\ disk \in [Blocks -> Vals]
  /\ dlog \in [1 .. LOGSIZE -> Vals]
  /\ dhead \in Seq(Blocks)
  /\ cache \in [Blocks -> Vals \cup {NoVal}]
  /\ dirty \subseteq Blocks
  /\ head \in Seq(Blocks)
  /\ outstanding \in Nat
  /\ committing \in BOOLEAN
  /\ pc \in [Procs -> PCs]
  /\ held \in [Procs -> Blocks \cup {NoBlock}]
  /\ wrote \in [Procs -> SUBSET Blocks]
  /\ tail \in 1 .. LOGSIZE + 1
  /\ boot \in {"rhead", "rinstall", "rerase", "up"}
  /\ panicked \in BOOLEAN
  /\ crashes \in 0 .. MaxCrashes

(* The state of memory at power on.                                        *)
Reset ==
  /\ cache' = [b \in Blocks |-> NoVal]
  /\ dirty' = {}
  /\ head' = <<>>
  /\ outstanding' = 0
  /\ committing' = FALSE
  /\ pc' = [p \in Procs |-> "idle"]
  /\ held' = [p \in Procs |-> NoBlock]
  /\ wrote' = [p \in Procs |-> {}]
  /\ tail' = 1
  /\ boot' = "rhead"
  /\ panicked' = FALSE

(* A file system made by mkfs, before the first boot.                      *)
Init ==
  /\ disk = [b \in Blocks |-> InitVal]
  /\ dlog = [i \in 1 .. LOGSIZE |-> InitVal]
  /\ dhead = <<>>
  /\ cache = [b \in Blocks |-> NoVal]
  /\ dirty = {}
  /\ head = <<>>
  /\ outstanding = 0
  /\ committing = FALSE
  /\ pc = [p \in Procs |-> "idle"]
  /\ held = [p \in Procs |-> NoBlock]
  /\ wrote = [p \in Procs |-> {}]
  /\ tail = 1
  /\ boot = "rhead"
  /\ panicked = FALSE
  /\ crashes = 0

Running == boot = "up" /\ ~ panicked

Elems(s) == {s[i] : i \in DOMAIN s}

(* bread(): the cached contents, or those of the disk.                     *)
View(b) == IF cache[b] = NoVal THEN disk[b] ELSE cache[b]

-----------------------------------------------------------------------------
(* begin_op(), the changes of a call, log_write()                          *)

(* this op might exhaust log space                                         *)
Exhausts == Len(head) + (outstanding + 1) * MAXOPBLOCKS > LOGSIZE

BeginOp(p) ==
  /\ Running
  /\ pc[p] = "idle"
  /\ ~ committing /\ ~ Exhausts
  /\ outstanding' = outstanding + 1
  /\ pc' = [pc EXCEPT ![p] = "op"]
  /\ UNCHANGED <<cache, dirty, head, committing, held, wrote, tail,
                 diskVars, sysVars>>

BeginSleep(p) ==
  /\ Running
  /\ pc[p] = "idle"
  /\ committing \/ Exhausts
  /\ pc' = [pc EXCEPT ![p] = "asleep"]
  /\ UNCHANGED <<memVars, held, wrote, tail, diskVars, sysVars>>

(* Mutant of Awake: nobody is woken.                                       *)
M_Awake(f) == f

(* wakeup(&log): the sleepers go round the loop of begin_op() again.       *)
Awake(f) == [q \in Procs |-> IF f[q] = "asleep" THEN "idle" ELSE f[q]]

(* bread() and a change of the buffer, which stays locked.  A call changes *)
(* at most MAXOPBLOCKS blocks.                                             *)
Change(p, b, v) ==
  /\ Running
  /\ pc[p] = "op"
  /\ \A q \in Procs : held[q] # b
  /\ Cardinality(wrote[p] \cup {b}) <= MAXOPBLOCKS
  /\ cache' = [cache EXCEPT ![b] = v]
  /\ held' = [held EXCEPT ![p] = b]
  /\ wrote' = [wrote EXCEPT ![p] = @ \cup {b}]
  /\ pc' = [pc EXCEPT ![p] = "changed"]
  /\ UNCHANGED <<dirty, head, outstanding, committing, tail,
                 diskVars, sysVars>>

TooBig == Len(head) >= LOGSIZE \/ Len(head) >= NLOG - 1

(* The checks of log_write(), made before it takes log.lock.               *)
LogWriteCheck(p) ==
  /\ Running
  /\ pc[p] = "changed"
  /\ \/ TooBig /\ panicked' = TRUE /\ UNCHANGED pc
     \/ ~ TooBig /\ pc' = [pc EXCEPT ![p] = "append"] /\ UNCHANGED panicked
  /\ UNCHANGED <<memVars, held, wrote, tail, diskVars, boot, crashes>>

(* Mutant of Pin: the buffer may be recycled before the commit.            *)
M_Pin(b) == UNCHANGED dirty

(* b->flags |= B_DIRTY: prevent eviction.                                  *)
Pin(b) == dirty' = dirty \cup {b}

(* The rest of log_write(), under log.lock, and the caller's brelse().     *)
LogWrite(p) ==
  /\ Running
  /\ pc[p] = "append"
  /\ head' = IF held[p] \in Elems(head) THEN head ELSE Append(head, held[p])
  /\ Pin(held[p])
  /\ held' = [held EXCEPT ![p] = NoBlock]
  /\ pc' = [pc EXCEPT ![p] = "op"]
  /\ UNCHANGED <<cache, outstanding, committing, wrote, tail,
                 diskVars, sysVars>>

-----------------------------------------------------------------------------
(* end_op() and commit()                                                   *)

EndOp(p) ==
  /\ Running
  /\ pc[p] = "op"
  /\ outstanding' = outstanding - 1
  /\ wrote' = [wrote EXCEPT ![p] = {}]
  /\ \/ /\ outstanding' = 0
        /\ committing' = TRUE
        /\ pc' = [pc EXCEPT ![p] = IF head = <<>> THEN "done" ELSE "wlog"]
        /\ tail' = 1
     \/ /\ outstanding' # 0
        /\ pc' = Awake([pc EXCEPT ![p] = "idle"])
        /\ UNCHANGED <<committing, tail>>
  /\ UNCHANGED <<cache, dirty, head, held, diskVars, sysVars>>

(* One round of write_log(): from the cache to the log.                    *)
WriteLog(p) ==
  /\ Running
  /\ pc[p] = "wlog"
  /\ dlog' = [dlog EXCEPT ![tail] = View(head[tail])]
  /\ tail' = IF tail = Len(head) THEN 1 ELSE tail + 1
  /\ pc' = [pc EXCEPT ![p] = IF tail = Len(head) THEN "whead" ELSE "wlog"]
  /\ UNCHANGED <<memVars, held, wrote, disk, dhead, sysVars>>

(* Mutant of Commit: the header is not written before the installation.    *)
M_Commit(p) ==
  /\ Running
  /\ pc[p] = "whead"
  /\ pc' = [pc EXCEPT ![p] = "install"]
  /\ UNCHANGED <<memVars, held, wrote, tail, diskVars, sysVars>>

(* write_head(): the real commit.                                          *)
Commit(p) ==
  /\ Running
  /\ pc[p] = "whead"
  /\ dhead' = head
  /\ pc' = [pc EXCEPT ![p] = "install"]
  /\ UNCHANGED <<memVars, held, wrote, tail, disk, dlog, sysVars>>

(* One round of install_trans(): from the log to the home location, whose  *)
(* buffer is clean from now on.                                            *)
InstallBlock(b, v) ==
  /\ disk' = [disk EXCEPT ![b] = v]
  /\ cache' = [cache EXCEPT ![b] = v]
  /\ dirty' = dirty \ {b}

InstallTrans(p) ==
  /\ Running
  /\ pc[p] = "install"
  /\ InstallBlock(head[tail], dlog[tail])
  /\ tail' = IF tail = Len(head) THEN 1 ELSE tail + 1
  /\ pc' = [pc EXCEPT ![p] = IF tail = Len(head) THEN "erase" ELSE "install"]
  /\ UNCHANGED <<head, outstanding, committing, held, wrote,
                 dlog, dhead, sysVars>>

(* Mutant of Erase: the header on the disk is left as it is.               *)
M_Erase(p) ==
  /\ Running
  /\ pc[p] = "erase"
  /\ head' = <<>>
  /\ pc' = [pc EXCEPT ![p] = "done"]
  /\ UNCHANGED <<cache, dirty, outstanding, committing, held, wrote, tail,
                 diskVars, sysVars>>

(* log.lh.n = 0; write_head().                                             *)
Erase(p) ==
  /\ Running
  /\ pc[p] = "erase"
  /\ head' = <<>>
  /\ dhead' = <<>>
  /\ pc' = [pc EXCEPT ![p] = "done"]
  /\ UNCHANGED <<cache, dirty, outstanding, committing, held, wrote, tail,
                 disk, dlog, sysVars>>

(* Mutant of EndCommit: log.committing stays set.                          *)
M_EndCommitFlag(p) ==
  /\ Running
  /\ pc[p] = "done"
  /\ pc' = Awake([pc EXCEPT ![p] = "idle"])
  /\ UNCHANGED <<memVars, held, wrote, tail, diskVars, sysVars>>

(* The end of end_op(), after commit().                                    *)
EndCommit(p) ==
  /\ Running
  /\ pc[p] = "done"
  /\ committing' = FALSE
  /\ pc' = Awake([pc EXCEPT ![p] = "idle"])
  /\ UNCHANGED <<cache, dirty, head, outstanding, held, wrote, tail,
                 diskVars, sysVars>>

-----------------------------------------------------------------------------
(* The block cache around it                                               *)

Unpinned(b) == b \notin dirty /\ \A p \in Procs : held[p] # b

(* bget() recycles the buffer of an unused clean block.                    *)
Evict(b) ==
  /\ Running
  /\ cache[b] # NoVal
  /\ Unpinned(b)
  /\ cache' = [cache EXCEPT ![b] = NoVal]
  /\ UNCHANGED <<dirty, head, outstanding, committing, procVars,
                 diskVars, sysVars>>

(* A reader brings a block in.                                             *)
ReadBlock(b) ==
  /\ Running
  /\ cache[b] = NoVal
  /\ cache' = [cache EXCEPT ![b] = disk[b]]
  /\ UNCHANGED <<dirty, head, outstanding, committing, procVars,
                 diskVars, sysVars>>

-----------------------------------------------------------------------------
(* Crashes and recover_from_log(), run by the first process                *)

Crash ==
  /\ crashes < MaxCrashes
  /\ crashes' = crashes + 1
  /\ Reset
  /\ UNCHANGED diskVars

(* read_head()                                                             *)
RecoverHead ==
  /\ boot = "rhead"
  /\ head' = dhead
  /\ tail' = 1
  /\ boot' = IF dhead = <<>> THEN "rerase" ELSE "rinstall"
  /\ UNCHANGED <<cache, dirty, outstanding, committing, pc, held, wrote,
                 diskVars, panicked, crashes>>

RecoverInstall ==
  /\ boot = "rinstall"
  /\ InstallBlock(head[tail], dlog[tail])
  /\ tail' = IF tail = Len(head) THEN 1 ELSE tail + 1
  /\ boot' = IF tail = Len(head) THEN "rerase" ELSE "rinstall"
  /\ UNCHANGED <<head, outstanding, committing, pc, held, wrote,
                 dlog, dhead, panicked, crashes>>

RecoverErase ==
  /\ boot = "rerase"
  /\ head' = <<>>
  /\ dhead' = <<>>
  /\ boot' = "up"
  /\ UNCHANGED <<cache, dirty, outstanding, committing, procVars,
                 disk, dlog, panicked, crashes>>

-----------------------------------------------------------------------------
CommitStep(p) ==
  \/ WriteLog(p) \/ Commit(p) \/ InstallTrans(p) \/ Erase(p) \/ EndCommit(p)

OpStep(p) ==
  \/ LogWriteCheck(p) \/ LogWrite(p) \/ EndOp(p)

Recover == RecoverHead \/ RecoverInstall \/ RecoverErase

Next ==
  \/ \E p \in Procs :
       \/ BeginOp(p) \/ BeginSleep(p)
       \/ \E b \in Blocks, v \in Vals : Change(p, b, v)
       \/ OpStep(p) \/ CommitStep(p)
  \/ \E b \in Blocks : Evict(b) \/ ReadBlock(b)
  \/ Recover
  \/ Crash

Spec == Init /\ [][Next]_vars

-----------------------------------------------------------------------------
(* Safety                                                                  *)

(* What a reboot makes of block b: the contents in the log if the header   *)
(* names it, else those of its home location.                              *)
AfterReboot(b) ==
  IF b \in Elems(dhead)
    THEN dlog[CHOOSE i \in DOMAIN dhead : dhead[i] = b]
    ELSE disk[b]

(* The logging layer implements the atomic disk: its memory is what bread()*)
(* returns, its disk what recovery would restore, and the calls it groups  *)
(* reach the disk together or not at all (log.c:8-21).                     *)
Atomic == INSTANCE AtomicDisk WITH
  mem    <- [b \in Blocks |-> IF boot = "up" THEN View(b) ELSE AfterReboot(b)],
  disk   <- [b \in Blocks |-> AfterReboot(b)],
  active <- {p \in Procs : pc[p] \in {"op", "changed", "append"}}

ImplementsAtomicDisk == Atomic!ASpec

(* The write-ahead rule: a home location is written only while the header  *)
(* on the disk names it, so that a crash halfway can be repaired.          *)
WriteAhead ==
  [][\A b \in Blocks : disk'[b] # disk[b] => b \in Elems(dhead)]_vars

(* The blocks of the log are not overwritten while a header on the disk    *)
(* still names them (commit() erases it before it ends, log.c:199).        *)
LogNotReused ==
  dhead # <<>> /\ boot = "up" => \A p \in Procs : pc[p] # "wlog"

(* No lost wakeup: whoever sleeps in begin_op() has a call in progress or  *)
(* a commit to wake it (log.c:130-133, :155-160, :169).                    *)
SleepersHaveWaker ==
  /\ TypeOK
  /\ (\E p \in Procs : pc[p] = "asleep") => outstanding > 0 \/ committing

-----------------------------------------------------------------------------
(* Liveness                                                                *)

(* Calls end and commits proceed.  Nobody is promised to get in: a woken   *)
(* process is only RUNNABLE, and others may begin and commit before it     *)
(* runs, again and again (begin_op() is not first in, first out).          *)
Fairness ==
  \A p \in Procs :
    /\ SF_vars(EndOp(p))
    /\ WF_vars(LogWriteCheck(p) \/ LogWrite(p))
    /\ WF_vars(CommitStep(p))

LiveSpec == Spec /\ Fairness

(* A process that sleeps in begin_op() is woken at last at a moment when   *)
(* the log is open to it: no commit is under way and its blocks fit        *)
(* (log.c:130-139).  Unless the machine panics or crashes.                 *)
SleeperCanEnter ==
  \A p \in Procs :
    pc[p] = "asleep" ~>
      \/ pc[p] = "idle" /\ ~ committing /\ ~ Exhausts
      \/ panicked \/ boot # "up"
=============================================================================
