----------------------------- MODULE BlockStore -----------------------------
(***************************************************************************)
(* What the buffer cache of xv6 (bio.c) promises to its callers: a block   *)
(* is held by one process at a time, and only its holder changes it.       *)
(***************************************************************************)
CONSTANTS Procs, NoProc, Blocks, Vals

VARIABLES
  mem,      \* what a process that reads the block finds
  holder    \* who has it

bvars == <<mem, holder>>

BInit ==
  /\ mem \in [Blocks -> Vals]
  /\ holder = [b \in Blocks |-> NoProc]

Take(p, b) ==
  /\ holder[b] = NoProc
  /\ holder' = [holder EXCEPT ![b] = p]
  /\ UNCHANGED mem

Set(p, b, v) ==
  /\ holder[b] = p
  /\ mem' = [mem EXCEPT ![b] = v]
  /\ UNCHANGED holder

Give(p, b) ==
  /\ holder[b] = p
  /\ holder' = [holder EXCEPT ![b] = NoProc]
  /\ UNCHANGED mem

BNext ==
  \E p \in Procs, b \in Blocks :
    Take(p, b) \/ Give(p, b) \/ \E v \in Vals : Set(p, b, v)

BSpec == BInit /\ [][BNext]_bvars
=============================================================================
