----------------------------- MODULE AtomicDisk -----------------------------
(***************************************************************************)
(* What the logging layer of xv6 (log.c) promises to file-system calls: a  *)
(* call's block writes, made between begin_op() and end_op(), reach the    *)
(* disk together with those of the calls it overlaps, all or none, and     *)
(* only when no call is in progress; a crash takes the disk back to the    *)
(* last commit.                                                            *)
(***************************************************************************)
CONSTANTS Procs, Blocks, Vals, InitVal

VARIABLES
  mem,      \* what the running system reads from each block
  disk,     \* what it reads after a crash
  active    \* the calls between begin_op() and end_op()

avars == <<mem, disk, active>>

AInit ==
  /\ mem = [b \in Blocks |-> InitVal]
  /\ disk = mem
  /\ active = {}

ABegin(p) ==
  /\ p \notin active
  /\ active' = active \cup {p}
  /\ UNCHANGED <<mem, disk>>

AWrite(p, b, v) ==
  /\ p \in active
  /\ mem' = [mem EXCEPT ![b] = v]
  /\ UNCHANGED <<disk, active>>

AEnd(p) ==
  /\ p \in active
  /\ active' = active \ {p}
  /\ UNCHANGED <<mem, disk>>

ACommit ==
  /\ active = {}
  /\ disk' = mem
  /\ UNCHANGED <<mem, active>>

ACrash ==
  /\ mem' = disk
  /\ active' = {}
  /\ UNCHANGED disk

ANext ==
  \/ \E p \in Procs :
       \/ ABegin(p) \/ AEnd(p)
       \/ \E b \in Blocks, v \in Vals : AWrite(p, b, v)
  \/ ACommit
  \/ ACrash

ASpec == AInit /\ [][ANext]_avars
=============================================================================
