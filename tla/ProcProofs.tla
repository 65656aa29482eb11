----------------------------- MODULE ProcProofs -----------------------------
(***************************************************************************)
(* Proofs about Proc, for any number of CPUs and any size of the process   *)
(* table: the type invariant and the safety invariants that the run        *)
(* Proc_safety checks on a small instance.                                 *)
(*                                                                         *)
(* The safety invariants are not inductive one by one.  IInv joins them to *)
(* what they lean on: who may be where in the code (PcInv), what fork()    *)
(* owns while it builds a child (ForkInv), and who holds tickslock         *)
(* (TickInv).                                                              *)
(***************************************************************************)
EXTENDS Proc, TLAPS

ForkPCs == {"fork2", "fork3", "fork4"}

(* fork() in p owns the EMBRYO slot np[p]: nobody else builds it, and its  *)
(* fields are filled in the order of the code.                             *)
ForkInv ==
  /\ \A p \in Slots : np[p] # Null <=> pc[p] \in ForkPCs
  /\ \A p \in Slots : np[p] # Null =>
       /\ np[p] \in Slots
       /\ state[np[p]] = "EMBRYO"
       /\ state[p] \in {"RUNNING", "RUNNABLE"}
       /\ parent[np[p]] = IF pc[p] = "fork4" THEN p ELSE Null
       /\ pc[p] # "fork2" => kstack[np[p]]
  /\ \A p, q \in Slots : np[p] = np[q] /\ np[p] # Null => p = q
  /\ \A q \in Slots : state[q] = "EMBRYO" => \E p \in Slots : np[p] = q

(* The point of the code a process is at agrees with its state.            *)
PcInv ==
  \A p \in Slots :
    /\ state[p] \in {"UNUSED", "EMBRYO"} => pc[p] \in {"none", "forkret"}
    /\ state[p] = "SLEEPING" => \/ pc[p] = "wait" /\ chan[p] = p
                                \/ pc[p] = "sleep2" /\ chan[p] = TicksChan
    /\ state[p] = "ZOMBIE" => pc[p] \in {"exit2", "dead"}

(* A CPU is never in a slot that is free or still being built.             *)
CpuLive == \A c \in CPUs : proc[c] # Null => Live(proc[c])

(* initproc never leaves the table.                                        *)
InitAlive == state[InitProc] \in {"RUNNABLE", "RUNNING", "SLEEPING"}

(* initproc has no parent, and nobody is his own.                          *)
ParentInv == parent[InitProc] = Null /\ \A p \in Slots : parent[p] # p

(* tickslock is held by a CPU in the timer interrupt, or on behalf of a    *)
(* process in sys_sleep() with time left, which keeps its CPU.             *)
TickInv ==
  /\ \A c \in CPUs : mode[c] = "tick" => tickslock = c
  /\ \A p \in Slots : pc[p] = "sleep1" =>
       /\ left[p] > 0
       /\ \E c \in CPUs :
            /\ proc[c] = p
            /\ mode[c] = "run"
            /\ tickslock = c
            /\ ptlock # c

IInv ==
  /\ TypeOK
  /\ SwitchSafe
  /\ ForkInv
  /\ PcInv
  /\ CpuLive
  /\ InitAlive
  /\ StackLive
  /\ ParentInv
  /\ ParentAlive
  /\ PidsUnique
  /\ WaitJustified
  /\ TickInv
  /\ SleepJustified

-----------------------------------------------------------------------------
(* Slot 1 exists ...                                                       *)
LEMMA InitSlot == InitProc \in Slots
  BY ProcAssumption DEF ProcAssumption, InitProc, Slots

(* ... and no slot is the null pointer.                                    *)
LEMMA NullNotSlot == Null \notin Slots
  BY ProcAssumption DEF ProcAssumption, Null, Slots

(* The state after userinit() is well typed.                               *)
LEMMA InitTypeOK ==
  ASSUME Init
  PROVE  TypeOK
<1>. USE ProcAssumption DEF ProcAssumption, TypeOK, Null, InitProc, TicksChan,
     ProcStates, PCs, Modes, idVars, cpuVars, lockVars
<1>1. /\ state \in [Slots -> ProcStates]
      /\ pc \in [Slots -> PCs]
      /\ pid \in [Slots -> Nat]
  BY DEF Init
<1>2. /\ parent \in [Slots -> Slots \cup {Null}]
      /\ chan \in [Slots -> Slots \cup {Null, TicksChan}]
      /\ np \in [Slots -> Slots \cup {Null}]
      /\ left \in [Slots -> 0 .. MaxSleep]
  BY DEF Init
<1>3. killed \in [Slots -> BOOLEAN] /\ kstack \in [Slots -> BOOLEAN]
  BY DEF Init
<1>4. proc \in [CPUs -> Slots \cup {Null}] /\ mode \in [CPUs -> Modes]
  BY DEF Init
<1>. QED
  BY <1>1, <1>2, <1>3, <1>4 DEF Init

(* Every action of the kernel keeps the variables in their ranges.         *)
LEMMA StepTypeOK ==
  ASSUME TypeOK, [Next]_vars
  PROVE  TypeOK'
<1>. USE ProcAssumption DEF ProcAssumption, TypeOK, Null, InitProc, TicksChan,
     ProcStates, PCs, Modes, idVars, cpuVars, lockVars
<1>1. ASSUME NEW c \in CPUs, SchedStart(c)
      PROVE  TypeOK'
  BY <1>1 DEF SchedStart, Idle, Runnable, Dispatch
<1>2. ASSUME NEW c \in CPUs, SchedNext(c)
      PROVE  TypeOK'
  BY <1>2 DEF SchedNext, RunnableAfter, Runnable, Dispatch
<1>3. ASSUME NEW c \in CPUs, Timer(c)
      PROVE  TypeOK'
  BY <1>3 DEF Timer, InterruptsOn, AfterTimer
<1>4. ASSUME NEW c \in CPUs, Tick(c)
      PROVE  TypeOK'
  BY <1>4 DEF Tick, InterruptsOn, TickDown
<1>5. ASSUME NEW c \in CPUs, TickWakeup(c)
      PROVE  TypeOK'
  BY <1>5 DEF TickWakeup, AfterTimer, Wakeup1
<1>6. ASSUME NEW c \in CPUs, NEW p \in Slots, Resume(c, p)
      PROVE  TypeOK'
  BY <1>6 DEF Resume
<1>7. ASSUME NEW c \in CPUs, NEW p \in Slots, Yield(c, p)
      PROVE  TypeOK'
  BY <1>7 DEF Yield
<1>8. ASSUME NEW c \in CPUs, NEW p \in Slots, SyscallEnter(c, p)
      PROVE  TypeOK'
  BY <1>8 DEF SyscallEnter, Executing, Goto
<1>9. ASSUME NEW c \in CPUs, NEW p \in Slots, TrapExit(c, p)
      PROVE  TypeOK'
  BY <1>9 DEF TrapExit, Executing, Goto
<1>10. ASSUME NEW c \in CPUs, NEW p \in Slots, TrapReturn(c, p)
      PROVE  TypeOK'
  BY <1>10 DEF TrapReturn, Executing, Goto
<1>11. ASSUME NEW c \in CPUs, NEW p \in Slots, Fault(c, p)
      PROVE  TypeOK'
  BY <1>11 DEF Fault, Executing, Goto
<1>12. ASSUME NEW c \in CPUs, NEW p \in Slots, ForkAllocSlot(c, p)
      PROVE  TypeOK'
  BY <1>12 DEF ForkAllocSlot, AllocPid, Executing, Unused
<1>13. ASSUME NEW c \in CPUs, NEW p \in Slots, ForkAllocStack(c, p)
      PROVE  TypeOK'
  <2>1. CASE ForkFail(p)
    BY <1>13, <2>1 DEF ForkAllocStack, Executing, ForkFail
  <2>2. CASE ~ ForkFail(p)
    <3>1. /\ kstack' = [kstack EXCEPT ![np[p]] = TRUE]
          /\ pc' = [pc EXCEPT ![p] = "fork3", ![np[p]] = "forkret"]
      BY <1>13, <2>2 DEF ForkAllocStack
    <3>2. kstack' \in [Slots -> BOOLEAN] /\ pc' \in [Slots -> PCs]
      BY <3>1
    <3>. QED
      BY <1>13, <2>2, <3>2 DEF ForkAllocStack, Executing
  <2>. QED
    BY <2>1, <2>2
<1>14. ASSUME NEW c \in CPUs, NEW p \in Slots, ForkCopy(c, p)
      PROVE  TypeOK'
  <2>1. CASE ForkFail(p)
    BY <1>14, <2>1 DEF ForkCopy, Executing, ForkFail
  <2>2. CASE ~ ForkFail(p)
    BY <1>14, <2>2 DEF ForkCopy, Executing
  <2>. QED
    BY <2>1, <2>2
<1>15. ASSUME NEW c \in CPUs, NEW p \in Slots, ForkRunnable(c, p)
      PROVE  TypeOK'
  BY <1>15 DEF ForkRunnable, Executing, Goto
<1>16. ASSUME NEW c \in CPUs, NEW p \in Slots, WaitReap(c, p)
      PROVE  TypeOK'
  BY <1>16 DEF WaitReap, InWait, Zombies, Children
<1>17. ASSUME NEW c \in CPUs, NEW p \in Slots, WaitFail(c, p)
      PROVE  TypeOK'
  BY <1>17 DEF WaitFail, InWait, Zombies, Children
<1>18. ASSUME NEW c \in CPUs, NEW p \in Slots, WaitSleep(c, p)
      PROVE  TypeOK'
  BY <1>18 DEF WaitSleep, InWait, Zombies, Children
<1>19. ASSUME NEW c \in CPUs, NEW p \in Slots, SysExit(c, p)
      PROVE  TypeOK'
  BY <1>19 DEF SysExit, Executing, Goto
<1>20. ASSUME NEW c \in CPUs, NEW p \in Slots, ExitInit(c, p)
      PROVE  TypeOK'
  BY <1>20 DEF ExitInit, Executing
<1>21. ASSUME NEW c \in CPUs, NEW p \in Slots, Exit(c, p)
      PROVE  TypeOK'
  <2>1. Wakeup1(ExitWakes(p)) \in [Slots -> ProcStates]
    BY DEF Wakeup1
  <2>. QED
    BY <1>21, <2>1, InitSlot DEF Exit, Executing, Goto, Adopted
<1>22. ASSUME NEW c \in CPUs, NEW p \in Slots, ExitSched(c, p)
      PROVE  TypeOK'
  BY <1>22 DEF ExitSched, Goto
<1>23. ASSUME NEW c \in CPUs, NEW p \in Slots, Kill(c, p)
      PROVE  TypeOK'
  <2>1. PICK k \in KillPids :
          \/ \E q \in Slots : /\ killed' = [killed EXCEPT ![q] = TRUE]
                             /\ state' = WakeKilled(q)
          \/ UNCHANGED <<killed, state>>
    BY <1>23 DEF Kill, Named
  <2>2. \A q \in Slots : WakeKilled(q) \in [Slots -> ProcStates]
    BY DEF WakeKilled
  <2>3. killed' \in [Slots -> BOOLEAN]
    BY <2>1
  <2>4. state' \in [Slots -> ProcStates]
    BY <2>1, <2>2
  <2>. QED
    BY <1>23, <2>3, <2>4 DEF Kill, Executing, Goto
<1>24. ASSUME NEW c \in CPUs, NEW p \in Slots, SysSleep(c, p)
      PROVE  TypeOK'
  BY <1>24 DEF SysSleep, Executing, Goto
<1>25. ASSUME NEW c \in CPUs, NEW p \in Slots, SleepOnTicks(c, p)
      PROVE  TypeOK'
  BY <1>25 DEF SleepOnTicks, Executing, Goto
<1>26. ASSUME NEW c \in CPUs, NEW p \in Slots, SysSleepAgain(c, p)
      PROVE  TypeOK'
  BY <1>26 DEF SysSleepAgain, Executing, Goto
<1>27. CASE UNCHANGED vars
  BY <1>27 DEF vars, idVars, cpuVars, lockVars
<1>. QED
  BY <1>1, <1>2, <1>3, <1>4, <1>5, <1>6, <1>7, <1>8, <1>9, <1>10, <1>11,
     <1>12, <1>13, <1>14, <1>15, <1>16, <1>17, <1>18, <1>19, <1>20, <1>21,
     <1>22, <1>23, <1>24, <1>25, <1>26, <1>27
     DEF Next, SchedStep, TimerStep, KernelStep, UserStep

(* Every field of struct proc, of struct cpu and the locks keep to their   *)
(* ranges (proc.h:2-57).                                                   *)
THEOREM TypeCorrect == Spec => []TypeOK
<1>1. Init => TypeOK
  BY InitTypeOK
<1>2. TypeOK /\ [Next]_vars => TypeOK'
  BY StepTypeOK
<1>. QED
  BY <1>1, <1>2, PTL DEF Spec

-----------------------------------------------------------------------------
(* The switch between processes and schedulers.                            *)

(* Each step keeps one CPU per process and the hand-over of ptable.lock.    *)
LEMMA SwitchSafeStep ==
  ASSUME IInv, [Next]_vars
  PROVE  SwitchSafe'
<1>. USE DEF Null, idVars, cpuVars, lockVars, SwitchSafe
<1>0. /\ state \in [Slots -> ProcStates]
      /\ proc \in [CPUs -> Slots \cup {Null}]
      /\ mode \in [CPUs -> Modes]
      /\ ptlock \in CPUs \cup {NoCpu}
      /\ np \in [Slots -> Slots \cup {Null}]
      /\ NoCpu \notin CPUs
      /\ Null \notin Slots
      /\ OneCpu
      /\ RunningOnCpu
      /\ HandOver
      /\ ForkInv
  BY ProcAssumption, InitSlot, NullNotSlot DEF IInv, TypeOK, SwitchSafe, ProcAssumption
<1>1. ASSUME NEW c \in CPUs, SchedStart(c)
      PROVE  SwitchSafe'
  <2>1. PICK p \in Runnable : Dispatch(c, p) /\ ptlock' = c /\ mode' = mode
    BY <1>1 DEF SchedStart
  <2>2. /\ p \in Slots /\ state[p] = "RUNNABLE" /\ proc[c] = Null
        /\ ptlock = NoCpu
        /\ \A d \in CPUs : proc[d] # p
    BY <1>0, <1>1 DEF SchedStart, Idle, Runnable, HandOver
  <2>3. OneCpu'
    BY <1>0, <2>1, <2>2 DEF OneCpu, Dispatch
  <2>4. RunningOnCpu'
    BY <1>0, <2>1, <2>2 DEF RunningOnCpu, Dispatch
  <2>5. HandOver'
    BY <1>0, <2>1, <2>2 DEF HandOver, Dispatch
  <2>. QED
    BY <2>3, <2>4, <2>5
<1>2. ASSUME NEW c \in CPUs, SchedNext(c)
      PROVE  SwitchSafe'
  <2>1. CASE RunnableAfter(proc[c]) = {}
    <3>1. proc' = [proc EXCEPT ![c] = Null] /\ ptlock' = NoCpu /\ state' = state
      BY <1>2, <2>1 DEF SchedNext
    <3>2. ptlock = c /\ state[proc[c]] # "RUNNING"
      BY <1>2 DEF SchedNext
    <3>3. OneCpu'
      BY <1>0, <3>1 DEF OneCpu
    <3>4. RunningOnCpu'
      BY <1>0, <3>1, <3>2 DEF RunningOnCpu
    <3>5. HandOver'
      BY <1>0, <3>1, <3>2 DEF HandOver
    <3>. QED
      BY <3>3, <3>4, <3>5
  <2>2. CASE RunnableAfter(proc[c]) # {}
    <3>1. PICK p \in RunnableAfter(proc[c]) : Dispatch(c, p) /\ ptlock' = ptlock
      BY <1>2, <2>2 DEF SchedNext
    <3>2. /\ p \in Slots /\ state[p] = "RUNNABLE" /\ proc[c] # p
          /\ ptlock = c /\ state[proc[c]] # "RUNNING"
          /\ \A d \in CPUs : proc[d] # p
      BY <1>0, <1>2 DEF SchedNext, RunnableAfter, Runnable, HandOver, Slots
    <3>3. OneCpu'
      BY <1>0, <3>1, <3>2 DEF OneCpu, Dispatch
    <3>4. RunningOnCpu'
      BY <1>0, <3>1, <3>2 DEF RunningOnCpu, Dispatch
    <3>5. HandOver'
      BY <1>0, <3>1, <3>2 DEF HandOver, Dispatch
    <3>. QED
      BY <3>3, <3>4, <3>5
  <2>. QED
    BY <2>1, <2>2
<1>3. ASSUME NEW c \in CPUs, Timer(c)
      PROVE  SwitchSafe'
  BY <1>0, <1>3 DEF Timer, InterruptsOn, AfterTimer, OneCpu, RunningOnCpu,
     HandOver
<1>4. ASSUME NEW c \in CPUs, Tick(c)
      PROVE  SwitchSafe'
  BY <1>0, <1>4 DEF Tick, InterruptsOn, TickDown, OneCpu, RunningOnCpu,
     HandOver
<1>5. ASSUME NEW c \in CPUs, TickWakeup(c)
      PROVE  SwitchSafe'
  BY <1>0, <1>5 DEF TickWakeup, AfterTimer, Wakeup1, OneCpu, RunningOnCpu,
     HandOver
<1>6. ASSUME NEW c \in CPUs, NEW p \in Slots, Resume(c, p)
      PROVE  SwitchSafe'
  BY <1>0, <1>6 DEF Resume, OneCpu, RunningOnCpu, HandOver
<1>7. ASSUME NEW c \in CPUs, NEW p \in Slots, Yield(c, p)
      PROVE  SwitchSafe'
  <2>1. OneCpu'
    BY <1>0, <1>7 DEF Yield, OneCpu, HandOver
  <2>2. RunningOnCpu'
    BY <1>0, <1>7 DEF Yield, RunningOnCpu, HandOver
  <2>3. HandOver'
    <3> SUFFICES ASSUME NEW d \in CPUs
                 PROVE  /\ proc'[d] # Null /\ state'[proc'[d]] # "RUNNING"
                             => ptlock' = d
                        /\ ptlock' = d => proc'[d] # Null
      BY DEF HandOver
    <3>1. CASE d = c
      BY <1>0, <1>7, <3>1 DEF Yield, OneCpu, HandOver
    <3>2. CASE d # c
      <4>1. proc'[d] = proc[d] /\ ptlock' # d
        BY <1>0, <1>7, <3>2 DEF Yield, HandOver
      <4>2. proc[d] # Null => state[proc[d]] = "RUNNING" /\ proc[d] # p
        BY <1>0, <1>7, <3>2 DEF Yield, OneCpu, HandOver
      <4>. QED
        BY <1>0, <1>7, <4>1, <4>2 DEF Yield
    <3>. QED
      BY <3>1, <3>2
  <2>. QED
    BY <2>1, <2>2, <2>3
<1>8. ASSUME NEW c \in CPUs, NEW p \in Slots, SyscallEnter(c, p)
      PROVE  SwitchSafe'
  BY <1>0, <1>8 DEF SyscallEnter, Executing, Goto, OneCpu, RunningOnCpu,
     HandOver
<1>9. ASSUME NEW c \in CPUs, NEW p \in Slots, TrapExit(c, p)
      PROVE  SwitchSafe'
  BY <1>0, <1>9 DEF TrapExit, Executing, Goto, OneCpu, RunningOnCpu, HandOver
<1>10. ASSUME NEW c \in CPUs, NEW p \in Slots, TrapReturn(c, p)
      PROVE  SwitchSafe'
  BY <1>0, <1>10 DEF TrapReturn, Executing, Goto, OneCpu, RunningOnCpu,
     HandOver
<1>11. ASSUME NEW c \in CPUs, NEW p \in Slots, Fault(c, p)
      PROVE  SwitchSafe'
  BY <1>0, <1>11 DEF Fault, Executing, Goto, OneCpu, RunningOnCpu, HandOver
<1>12. ASSUME NEW c \in CPUs, NEW p \in Slots, ForkAllocSlot(c, p)
      PROVE  SwitchSafe'
  BY <1>0, <1>12 DEF ForkAllocSlot, AllocPid, Executing, Unused, OneCpu, RunningOnCpu,
     HandOver
<1>13. ASSUME NEW c \in CPUs, NEW p \in Slots, ForkAllocStack(c, p)
      PROVE  SwitchSafe'
  <2>1. OneCpu'
    BY <1>0, <1>13 DEF ForkAllocStack, Executing, ForkFail, ForkInv,
       ForkPCs, OneCpu, RunningOnCpu, HandOver, OneCpu
  <2>2. RunningOnCpu'
    BY <1>0, <1>13 DEF ForkAllocStack, Executing, ForkFail, ForkInv,
       ForkPCs, OneCpu, RunningOnCpu, HandOver, RunningOnCpu
  <2>3. HandOver'
    BY <1>0, <1>13 DEF ForkAllocStack, Executing, ForkFail, ForkInv,
       ForkPCs, OneCpu, RunningOnCpu, HandOver, HandOver
  <2>. QED
    BY <2>1, <2>2, <2>3
<1>14. ASSUME NEW c \in CPUs, NEW p \in Slots, ForkCopy(c, p)
      PROVE  SwitchSafe'
  <2>1. OneCpu'
    BY <1>0, <1>14 DEF ForkCopy, Executing, ForkFail, ForkInv, ForkPCs,
       OneCpu, RunningOnCpu, HandOver, OneCpu
  <2>2. RunningOnCpu'
    BY <1>0, <1>14 DEF ForkCopy, Executing, ForkFail, ForkInv, ForkPCs,
       OneCpu, RunningOnCpu, HandOver, RunningOnCpu
  <2>3. HandOver'
    BY <1>0, <1>14 DEF ForkCopy, Executing, ForkFail, ForkInv, ForkPCs,
       OneCpu, RunningOnCpu, HandOver, HandOver
  <2>. QED
    BY <2>1, <2>2, <2>3
<1>15. ASSUME NEW c \in CPUs, NEW p \in Slots, ForkRunnable(c, p)
      PROVE  SwitchSafe'
  <2>1. OneCpu'
    BY <1>0, <1>15 DEF ForkRunnable, Executing, Goto, ForkInv, ForkPCs,
       OneCpu, RunningOnCpu, HandOver, OneCpu
  <2>2. RunningOnCpu'
    BY <1>0, <1>15 DEF ForkRunnable, Executing, Goto, ForkInv, ForkPCs,
       OneCpu, RunningOnCpu, HandOver, RunningOnCpu
  <2>3. HandOver'
    BY <1>0, <1>15 DEF ForkRunnable, Executing, Goto, ForkInv, ForkPCs,
       OneCpu, RunningOnCpu, HandOver, HandOver
  <2>. QED
    BY <2>1, <2>2, <2>3
<1>16. ASSUME NEW c \in CPUs, NEW p \in Slots, WaitReap(c, p)
      PROVE  SwitchSafe'
  BY <1>0, <1>16 DEF WaitReap, InWait, Zombies, Children, OneCpu,
     RunningOnCpu, HandOver
<1>17. ASSUME NEW c \in CPUs, NEW p \in Slots, WaitFail(c, p)
      PROVE  SwitchSafe'
  BY <1>0, <1>17 DEF WaitFail, InWait, Zombies, Children, OneCpu,
     RunningOnCpu, HandOver
<1>18. ASSUME NEW c \in CPUs, NEW p \in Slots, WaitSleep(c, p)
      PROVE  SwitchSafe'
  <2>1. OneCpu'
    BY <1>0, <1>18 DEF WaitSleep, InWait, Zombies, Children, OneCpu,
       HandOver
  <2>2. RunningOnCpu'
    BY <1>0, <1>18 DEF WaitSleep, InWait, Zombies, Children, RunningOnCpu,
       HandOver
  <2>3. HandOver'
    <3> SUFFICES ASSUME NEW d \in CPUs
                 PROVE  /\ proc'[d] # Null /\ state'[proc'[d]] # "RUNNING"
                             => ptlock' = d
                        /\ ptlock' = d => proc'[d] # Null
      BY DEF HandOver
    <3>1. CASE d = c
      BY <1>0, <1>18, <3>1 DEF WaitSleep, InWait, Zombies, Children, OneCpu,
         HandOver
    <3>2. CASE d # c
      <4>1. proc'[d] = proc[d] /\ ptlock' # d
        BY <1>0, <1>18, <3>2 DEF WaitSleep, InWait, Zombies, Children, HandOver
      <4>2. proc[d] # Null => state[proc[d]] = "RUNNING" /\ proc[d] # p
        BY <1>0, <1>18, <3>2 DEF WaitSleep, InWait, Zombies, Children, OneCpu,
         HandOver
      <4>. QED
        BY <1>0, <1>18, <4>1, <4>2 DEF WaitSleep, InWait, Zombies, Children
    <3>. QED
      BY <3>1, <3>2
  <2>. QED
    BY <2>1, <2>2, <2>3
<1>19. ASSUME NEW c \in CPUs, NEW p \in Slots, SysExit(c, p)
      PROVE  SwitchSafe'
  BY <1>0, <1>19 DEF SysExit, Executing, Goto, OneCpu, RunningOnCpu, HandOver
<1>20. ASSUME NEW c \in CPUs, NEW p \in Slots, ExitInit(c, p)
      PROVE  SwitchSafe'
  BY <1>0, <1>20 DEF ExitInit, Executing, OneCpu, RunningOnCpu, HandOver
<1>21. ASSUME NEW c \in CPUs, NEW p \in Slots, Exit(c, p)
      PROVE  SwitchSafe'
  <2>1. OneCpu'
    BY <1>0, <1>21 DEF Exit, Executing, Goto, Wakeup1, ExitWakes, Adopted,
       Zombies, Children, OneCpu, HandOver
  <2>2. RunningOnCpu'
    BY <1>0, <1>21 DEF Exit, Executing, Goto, Wakeup1, ExitWakes, Adopted,
       Zombies, Children, RunningOnCpu, HandOver
  <2>3. HandOver'
    <3> SUFFICES ASSUME NEW d \in CPUs
                 PROVE  /\ proc'[d] # Null /\ state'[proc'[d]] # "RUNNING"
                             => ptlock' = d
                        /\ ptlock' = d => proc'[d] # Null
      BY DEF HandOver
    <3>1. CASE d = c
      BY <1>0, <1>21, <3>1 DEF Exit, Executing, Goto, Wakeup1, ExitWakes, Adopted,
         Zombies, Children, OneCpu, HandOver
    <3>2. CASE d # c
      <4>1. proc'[d] = proc[d] /\ ptlock' # d
        BY <1>0, <1>21, <3>2 DEF Exit, Executing, Goto, Wakeup1, ExitWakes, Adopted,
         Zombies, Children, HandOver
      <4>2. proc[d] # Null => state[proc[d]] = "RUNNING" /\ proc[d] # p
        BY <1>0, <1>21, <3>2 DEF Exit, Executing, Goto, Wakeup1, ExitWakes, Adopted,
         Zombies, Children, OneCpu, HandOver
      <4>. QED
        BY <1>0, <1>21, <4>1, <4>2 DEF Exit, Executing, Goto, Wakeup1, ExitWakes,
         Adopted, Zombies, Children
    <3>. QED
      BY <3>1, <3>2
  <2>. QED
    BY <2>1, <2>2, <2>3
<1>22. ASSUME NEW c \in CPUs, NEW p \in Slots, ExitSched(c, p)
      PROVE  SwitchSafe'
  BY <1>0, <1>22 DEF ExitSched, Goto, OneCpu, RunningOnCpu, HandOver
<1>23. ASSUME NEW c \in CPUs, NEW p \in Slots, Kill(c, p)
      PROVE  SwitchSafe'
  BY <1>0, <1>23 DEF Kill, Executing, Goto, Named, WakeKilled, OneCpu,
     RunningOnCpu, HandOver
<1>24. ASSUME NEW c \in CPUs, NEW p \in Slots, SysSleep(c, p)
      PROVE  SwitchSafe'
  BY <1>0, <1>24 DEF SysSleep, Executing, Goto, OneCpu, RunningOnCpu,
     HandOver
<1>25. ASSUME NEW c \in CPUs, NEW p \in Slots, SleepOnTicks(c, p)
      PROVE  SwitchSafe'
  <2>1. OneCpu'
    BY <1>0, <1>25 DEF SleepOnTicks, Executing, Goto, OneCpu, HandOver
  <2>2. RunningOnCpu'
    BY <1>0, <1>25 DEF SleepOnTicks, Executing, Goto, RunningOnCpu,
       HandOver
  <2>3. HandOver'
    <3> SUFFICES ASSUME NEW d \in CPUs
                 PROVE  /\ proc'[d] # Null /\ state'[proc'[d]] # "RUNNING"
                             => ptlock' = d
                        /\ ptlock' = d => proc'[d] # Null
      BY DEF HandOver
    <3>1. CASE d = c
      BY <1>0, <1>25, <3>1 DEF SleepOnTicks, Executing, Goto, OneCpu, HandOver
    <3>2. CASE d # c
      <4>1. proc'[d] = proc[d] /\ ptlock' # d
        BY <1>0, <1>25, <3>2 DEF SleepOnTicks, Executing, Goto, HandOver
      <4>2. proc[d] # Null => state[proc[d]] = "RUNNING" /\ proc[d] # p
        BY <1>0, <1>25, <3>2 DEF SleepOnTicks, Executing, Goto, OneCpu, HandOver
      <4>. QED
        BY <1>0, <1>25, <4>1, <4>2 DEF SleepOnTicks, Executing, Goto
    <3>. QED
      BY <3>1, <3>2
  <2>. QED
    BY <2>1, <2>2, <2>3
<1>26. ASSUME NEW c \in CPUs, NEW p \in Slots, SysSleepAgain(c, p)
      PROVE  SwitchSafe'
  BY <1>0, <1>26 DEF SysSleepAgain, Executing, Goto, OneCpu, RunningOnCpu,
     HandOver
<1>27. CASE UNCHANGED vars
  BY <1>0, <1>27 DEF vars, OneCpu, RunningOnCpu, HandOver
<1>. QED
  BY <1>1, <1>2, <1>3, <1>4, <1>5, <1>6, <1>7, <1>8, <1>9, <1>10, <1>11,
     <1>12, <1>13, <1>14, <1>15, <1>16, <1>17, <1>18, <1>19, <1>20, <1>21,
     <1>22, <1>23, <1>24, <1>25, <1>26, <1>27
     DEF Next, SchedStep, TimerStep, KernelStep, UserStep

-----------------------------------------------------------------------------
(* States, program points and stacks.                                      *)

(* The state of a process agrees with its program point.                   *)
LEMMA PcInvStep ==
  ASSUME IInv, [Next]_vars
  PROVE  PcInv'
<1>. USE DEF Null, idVars, cpuVars, lockVars, PcInv
<1>0. /\ state \in [Slots -> ProcStates]
      /\ proc \in [CPUs -> Slots \cup {Null}]
      /\ pc \in [Slots -> PCs]
      /\ chan \in [Slots -> Slots \cup {Null, TicksChan}]
      /\ np \in [Slots -> Slots \cup {Null}]
      /\ NoCpu \notin CPUs
      /\ Null \notin Slots
      /\ HandOver
      /\ PcInv
      /\ ForkInv
  BY ProcAssumption, InitSlot, NullNotSlot DEF IInv, TypeOK, SwitchSafe, ProcAssumption
<1>1. ASSUME NEW c \in CPUs, SchedStart(c)
      PROVE  PcInv'
  BY <1>0, <1>1 DEF SchedStart, Idle, Runnable, Dispatch, HandOver, ForkInv,
     ForkPCs
<1>2. ASSUME NEW c \in CPUs, SchedNext(c)
      PROVE  PcInv'
  BY <1>0, <1>2 DEF SchedNext, RunnableAfter, Runnable, Dispatch, HandOver,
     ForkInv, ForkPCs
<1>3. ASSUME NEW c \in CPUs, Timer(c)
      PROVE  PcInv'
  BY <1>0, <1>3 DEF Timer, InterruptsOn, AfterTimer, HandOver, ForkInv,
     ForkPCs
<1>4. ASSUME NEW c \in CPUs, Tick(c)
      PROVE  PcInv'
  BY <1>0, <1>4 DEF Tick, InterruptsOn, TickDown, HandOver, ForkInv, ForkPCs
<1>5. ASSUME NEW c \in CPUs, TickWakeup(c)
      PROVE  PcInv'
  BY <1>0, <1>5 DEF TickWakeup, AfterTimer, Wakeup1, HandOver, ForkInv,
     ForkPCs
<1>6. ASSUME NEW c \in CPUs, NEW p \in Slots, Resume(c, p)
      PROVE  PcInv'
  BY <1>0, <1>6 DEF Resume, HandOver, ForkInv, ForkPCs
<1>7. ASSUME NEW c \in CPUs, NEW p \in Slots, Yield(c, p)
      PROVE  PcInv'
  BY <1>0, <1>7 DEF Yield, HandOver, ForkInv, ForkPCs
<1>8. ASSUME NEW c \in CPUs, NEW p \in Slots, SyscallEnter(c, p)
      PROVE  PcInv'
  BY <1>0, <1>8 DEF SyscallEnter, Executing, Goto, HandOver, ForkInv, ForkPCs
<1>9. ASSUME NEW c \in CPUs, NEW p \in Slots, TrapExit(c, p)
      PROVE  PcInv'
  BY <1>0, <1>9 DEF TrapExit, Executing, Goto, HandOver, ForkInv, ForkPCs
<1>10. ASSUME NEW c \in CPUs, NEW p \in Slots, TrapReturn(c, p)
      PROVE  PcInv'
  BY <1>0, <1>10 DEF TrapReturn, Executing, Goto, HandOver, ForkInv, ForkPCs
<1>11. ASSUME NEW c \in CPUs, NEW p \in Slots, Fault(c, p)
      PROVE  PcInv'
  BY <1>0, <1>11 DEF Fault, Executing, Goto, HandOver, ForkInv, ForkPCs
<1>12. ASSUME NEW c \in CPUs, NEW p \in Slots, ForkAllocSlot(c, p)
      PROVE  PcInv'
  BY <1>0, <1>12 DEF ForkAllocSlot, AllocPid, Executing, Unused, HandOver, ForkInv,
     ForkPCs
<1>13. ASSUME NEW c \in CPUs, NEW p \in Slots, ForkAllocStack(c, p)
      PROVE  PcInv'
  BY <1>0, <1>13 DEF ForkAllocStack, Executing, ForkFail, HandOver, ForkInv,
     ForkPCs
<1>14. ASSUME NEW c \in CPUs, NEW p \in Slots, ForkCopy(c, p)
      PROVE  PcInv'
  BY <1>0, <1>14 DEF ForkCopy, Executing, ForkFail, HandOver, ForkInv,
     ForkPCs
<1>15. ASSUME NEW c \in CPUs, NEW p \in Slots, ForkRunnable(c, p)
      PROVE  PcInv'
  BY <1>0, <1>15 DEF ForkRunnable, Executing, Goto, HandOver, ForkInv,
     ForkPCs
<1>16. ASSUME NEW c \in CPUs, NEW p \in Slots, WaitReap(c, p)
      PROVE  PcInv'
  BY <1>0, <1>16 DEF WaitReap, InWait, Zombies, Children, HandOver, ForkInv,
     ForkPCs
<1>17. ASSUME NEW c \in CPUs, NEW p \in Slots, WaitFail(c, p)
      PROVE  PcInv'
  BY <1>0, <1>17 DEF WaitFail, InWait, Zombies, Children, HandOver, ForkInv,
     ForkPCs
<1>18. ASSUME NEW c \in CPUs, NEW p \in Slots, WaitSleep(c, p)
      PROVE  PcInv'
  BY <1>0, <1>18 DEF WaitSleep, InWait, Zombies, Children, HandOver,
     ForkInv, ForkPCs
<1>19. ASSUME NEW c \in CPUs, NEW p \in Slots, SysExit(c, p)
      PROVE  PcInv'
  BY <1>0, <1>19 DEF SysExit, Executing, Goto, HandOver, ForkInv, ForkPCs
<1>20. ASSUME NEW c \in CPUs, NEW p \in Slots, ExitInit(c, p)
      PROVE  PcInv'
  BY <1>0, <1>20 DEF ExitInit, Executing, HandOver, ForkInv, ForkPCs
<1>21. ASSUME NEW c \in CPUs, NEW p \in Slots, Exit(c, p)
      PROVE  PcInv'
  BY <1>0, <1>21 DEF Exit, Executing, Goto, Wakeup1, ExitWakes, Adopted,
     Zombies, Children, HandOver, ForkInv, ForkPCs
<1>22. ASSUME NEW c \in CPUs, NEW p \in Slots, ExitSched(c, p)
      PROVE  PcInv'
  BY <1>0, <1>22 DEF ExitSched, Goto, HandOver, ForkInv, ForkPCs
<1>23. ASSUME NEW c \in CPUs, NEW p \in Slots, Kill(c, p)
      PROVE  PcInv'
  BY <1>0, <1>23 DEF Kill, Executing, Goto, Named, WakeKilled, HandOver,
     ForkInv, ForkPCs
<1>24. ASSUME NEW c \in CPUs, NEW p \in Slots, SysSleep(c, p)
      PROVE  PcInv'
  BY <1>0, <1>24 DEF SysSleep, Executing, Goto, HandOver, ForkInv, ForkPCs
<1>25. ASSUME NEW c \in CPUs, NEW p \in Slots, SleepOnTicks(c, p)
      PROVE  PcInv'
  BY <1>0, <1>25 DEF SleepOnTicks, Executing, Goto, HandOver, ForkInv,
     ForkPCs
<1>26. ASSUME NEW c \in CPUs, NEW p \in Slots, SysSleepAgain(c, p)
      PROVE  PcInv'
  BY <1>0, <1>26 DEF SysSleepAgain, Executing, Goto, HandOver, ForkInv,
     ForkPCs
<1>27. CASE UNCHANGED vars
  BY <1>0, <1>27 DEF vars, HandOver, ForkInv, ForkPCs
<1>. QED
  BY <1>1, <1>2, <1>3, <1>4, <1>5, <1>6, <1>7, <1>8, <1>9, <1>10, <1>11,
     <1>12, <1>13, <1>14, <1>15, <1>16, <1>17, <1>18, <1>19, <1>20, <1>21,
     <1>22, <1>23, <1>24, <1>25, <1>26, <1>27
     DEF Next, SchedStep, TimerStep, KernelStep, UserStep

(* initproc never exits.                                                   *)
LEMMA InitAliveStep ==
  ASSUME IInv, [Next]_vars
  PROVE  InitAlive'
<1>. USE DEF Null, idVars, cpuVars, lockVars, InitAlive
<1>0. /\ state \in [Slots -> ProcStates]
      /\ proc \in [CPUs -> Slots \cup {Null}]
      /\ np \in [Slots -> Slots \cup {Null}]
      /\ NoCpu \notin CPUs
      /\ Null \notin Slots
      /\ InitProc \in Slots
      /\ HandOver
      /\ InitAlive
      /\ ForkInv
  BY ProcAssumption, InitSlot, NullNotSlot DEF IInv, TypeOK, SwitchSafe, ProcAssumption
<1>1. ASSUME NEW c \in CPUs, SchedStart(c)
      PROVE  InitAlive'
  BY <1>0, <1>1 DEF SchedStart, Idle, Runnable, Dispatch, HandOver, ForkInv
<1>2. ASSUME NEW c \in CPUs, SchedNext(c)
      PROVE  InitAlive'
  BY <1>0, <1>2 DEF SchedNext, RunnableAfter, Runnable, Dispatch, HandOver,
     ForkInv
<1>3. ASSUME NEW c \in CPUs, Timer(c)
      PROVE  InitAlive'
  BY <1>0, <1>3 DEF Timer, InterruptsOn, AfterTimer, HandOver, ForkInv
<1>4. ASSUME NEW c \in CPUs, Tick(c)
      PROVE  InitAlive'
  BY <1>0, <1>4 DEF Tick, InterruptsOn, TickDown, HandOver, ForkInv
<1>5. ASSUME NEW c \in CPUs, TickWakeup(c)
      PROVE  InitAlive'
  BY <1>0, <1>5 DEF TickWakeup, AfterTimer, Wakeup1, HandOver, ForkInv
<1>6. ASSUME NEW c \in CPUs, NEW p \in Slots, Resume(c, p)
      PROVE  InitAlive'
  BY <1>0, <1>6 DEF Resume, HandOver, ForkInv
<1>7. ASSUME NEW c \in CPUs, NEW p \in Slots, Yield(c, p)
      PROVE  InitAlive'
  BY <1>0, <1>7 DEF Yield, HandOver, ForkInv
<1>8. ASSUME NEW c \in CPUs, NEW p \in Slots, SyscallEnter(c, p)
      PROVE  InitAlive'
  BY <1>0, <1>8 DEF SyscallEnter, Executing, Goto, HandOver, ForkInv
<1>9. ASSUME NEW c \in CPUs, NEW p \in Slots, TrapExit(c, p)
      PROVE  InitAlive'
  BY <1>0, <1>9 DEF TrapExit, Executing, Goto, HandOver, ForkInv
<1>10. ASSUME NEW c \in CPUs, NEW p \in Slots, TrapReturn(c, p)
      PROVE  InitAlive'
  BY <1>0, <1>10 DEF TrapReturn, Executing, Goto, HandOver, ForkInv
<1>11. ASSUME NEW c \in CPUs, NEW p \in Slots, Fault(c, p)
      PROVE  InitAlive'
  BY <1>0, <1>11 DEF Fault, Executing, Goto, HandOver, ForkInv
<1>12. ASSUME NEW c \in CPUs, NEW p \in Slots, ForkAllocSlot(c, p)
      PROVE  InitAlive'
  BY <1>0, <1>12 DEF ForkAllocSlot, AllocPid, Executing, Unused, HandOver, ForkInv
<1>13. ASSUME NEW c \in CPUs, NEW p \in Slots, ForkAllocStack(c, p)
      PROVE  InitAlive'
  BY <1>0, <1>13 DEF ForkAllocStack, Executing, ForkFail, HandOver, ForkInv
<1>14. ASSUME NEW c \in CPUs, NEW p \in Slots, ForkCopy(c, p)
      PROVE  InitAlive'
  BY <1>0, <1>14 DEF ForkCopy, Executing, ForkFail, HandOver, ForkInv
<1>15. ASSUME NEW c \in CPUs, NEW p \in Slots, ForkRunnable(c, p)
      PROVE  InitAlive'
  BY <1>0, <1>15 DEF ForkRunnable, Executing, Goto, HandOver, ForkInv
<1>16. ASSUME NEW c \in CPUs, NEW p \in Slots, WaitReap(c, p)
      PROVE  InitAlive'
  BY <1>0, <1>16 DEF WaitReap, InWait, Zombies, Children, HandOver, ForkInv
<1>17. ASSUME NEW c \in CPUs, NEW p \in Slots, WaitFail(c, p)
      PROVE  InitAlive'
  BY <1>0, <1>17 DEF WaitFail, InWait, Zombies, Children, HandOver, ForkInv
<1>18. ASSUME NEW c \in CPUs, NEW p \in Slots, WaitSleep(c, p)
      PROVE  InitAlive'
  BY <1>0, <1>18 DEF WaitSleep, InWait, Zombies, Children, HandOver, ForkInv
<1>19. ASSUME NEW c \in CPUs, NEW p \in Slots, SysExit(c, p)
      PROVE  InitAlive'
  BY <1>0, <1>19 DEF SysExit, Executing, Goto, HandOver, ForkInv
<1>20. ASSUME NEW c \in CPUs, NEW p \in Slots, ExitInit(c, p)
      PROVE  InitAlive'
  BY <1>0, <1>20 DEF ExitInit, Executing, HandOver, ForkInv
<1>21. ASSUME NEW c \in CPUs, NEW p \in Slots, Exit(c, p)
      PROVE  InitAlive'
  BY <1>0, <1>21 DEF Exit, Executing, Goto, Wakeup1, ExitWakes, Adopted,
     Zombies, Children, HandOver, ForkInv
<1>22. ASSUME NEW c \in CPUs, NEW p \in Slots, ExitSched(c, p)
      PROVE  InitAlive'
  BY <1>0, <1>22 DEF ExitSched, Goto, HandOver, ForkInv
<1>23. ASSUME NEW c \in CPUs, NEW p \in Slots, Kill(c, p)
      PROVE  InitAlive'
  BY <1>0, <1>23 DEF Kill, Executing, Goto, Named, WakeKilled, HandOver,
     ForkInv
<1>24. ASSUME NEW c \in CPUs, NEW p \in Slots, SysSleep(c, p)
      PROVE  InitAlive'
  BY <1>0, <1>24 DEF SysSleep, Executing, Goto, HandOver, ForkInv
<1>25. ASSUME NEW c \in CPUs, NEW p \in Slots, SleepOnTicks(c, p)
      PROVE  InitAlive'
  BY <1>0, <1>25 DEF SleepOnTicks, Executing, Goto, HandOver, ForkInv
<1>26. ASSUME NEW c \in CPUs, NEW p \in Slots, SysSleepAgain(c, p)
      PROVE  InitAlive'
  BY <1>0, <1>26 DEF SysSleepAgain, Executing, Goto, HandOver, ForkInv
<1>27. CASE UNCHANGED vars
  BY <1>0, <1>27 DEF vars, HandOver, ForkInv
<1>. QED
  BY <1>1, <1>2, <1>3, <1>4, <1>5, <1>6, <1>7, <1>8, <1>9, <1>10, <1>11,
     <1>12, <1>13, <1>14, <1>15, <1>16, <1>17, <1>18, <1>19, <1>20, <1>21,
     <1>22, <1>23, <1>24, <1>25, <1>26, <1>27
     DEF Next, SchedStep, TimerStep, KernelStep, UserStep

(* A process leaves its CPU before its slot is freed.                       *)
LEMMA CpuLiveStep ==
  ASSUME IInv, [Next]_vars
  PROVE  CpuLive'
<1>. USE DEF Null, idVars, cpuVars, lockVars, CpuLive, Live
<1>0. /\ state \in [Slots -> ProcStates]
      /\ proc \in [CPUs -> Slots \cup {Null}]
      /\ np \in [Slots -> Slots \cup {Null}]
      /\ NoCpu \notin CPUs
      /\ Null \notin Slots
      /\ OneCpu
      /\ HandOver
      /\ CpuLive
      /\ ForkInv
  BY ProcAssumption, InitSlot, NullNotSlot DEF IInv, TypeOK, SwitchSafe, ProcAssumption
<1>1. ASSUME NEW c \in CPUs, SchedStart(c)
      PROVE  CpuLive'
  BY <1>0, <1>1 DEF SchedStart, Idle, Runnable, Dispatch, OneCpu, HandOver,
     ForkInv
<1>2. ASSUME NEW c \in CPUs, SchedNext(c)
      PROVE  CpuLive'
  BY <1>0, <1>2 DEF SchedNext, RunnableAfter, Runnable, Dispatch, OneCpu,
     HandOver, ForkInv
<1>3. ASSUME NEW c \in CPUs, Timer(c)
      PROVE  CpuLive'
  BY <1>0, <1>3 DEF Timer, InterruptsOn, AfterTimer, OneCpu, HandOver,
     ForkInv
<1>4. ASSUME NEW c \in CPUs, Tick(c)
      PROVE  CpuLive'
  BY <1>0, <1>4 DEF Tick, InterruptsOn, TickDown, OneCpu, HandOver, ForkInv
<1>5. ASSUME NEW c \in CPUs, TickWakeup(c)
      PROVE  CpuLive'
  BY <1>0, <1>5 DEF TickWakeup, AfterTimer, Wakeup1, OneCpu, HandOver,
     ForkInv
<1>6. ASSUME NEW c \in CPUs, NEW p \in Slots, Resume(c, p)
      PROVE  CpuLive'
  BY <1>0, <1>6 DEF Resume, OneCpu, HandOver, ForkInv
<1>7. ASSUME NEW c \in CPUs, NEW p \in Slots, Yield(c, p)
      PROVE  CpuLive'
  BY <1>0, <1>7 DEF Yield, OneCpu, HandOver, ForkInv
<1>8. ASSUME NEW c \in CPUs, NEW p \in Slots, SyscallEnter(c, p)
      PROVE  CpuLive'
  BY <1>0, <1>8 DEF SyscallEnter, Executing, Goto, OneCpu, HandOver, ForkInv
<1>9. ASSUME NEW c \in CPUs, NEW p \in Slots, TrapExit(c, p)
      PROVE  CpuLive'
  BY <1>0, <1>9 DEF TrapExit, Executing, Goto, OneCpu, HandOver, ForkInv
<1>10. ASSUME NEW c \in CPUs, NEW p \in Slots, TrapReturn(c, p)
      PROVE  CpuLive'
  BY <1>0, <1>10 DEF TrapReturn, Executing, Goto, OneCpu, HandOver, ForkInv
<1>11. ASSUME NEW c \in CPUs, NEW p \in Slots, Fault(c, p)
      PROVE  CpuLive'
  BY <1>0, <1>11 DEF Fault, Executing, Goto, OneCpu, HandOver, ForkInv
<1>12. ASSUME NEW c \in CPUs, NEW p \in Slots, ForkAllocSlot(c, p)
      PROVE  CpuLive'
  BY <1>0, <1>12 DEF ForkAllocSlot, AllocPid, Executing, Unused, OneCpu, HandOver,
     ForkInv
<1>13. ASSUME NEW c \in CPUs, NEW p \in Slots, ForkAllocStack(c, p)
      PROVE  CpuLive'
  BY <1>0, <1>13 DEF ForkAllocStack, Executing, ForkFail, OneCpu, HandOver,
     ForkInv
<1>14. ASSUME NEW c \in CPUs, NEW p \in Slots, ForkCopy(c, p)
      PROVE  CpuLive'
  BY <1>0, <1>14 DEF ForkCopy, Executing, ForkFail, OneCpu, HandOver, ForkInv
<1>15. ASSUME NEW c \in CPUs, NEW p \in Slots, ForkRunnable(c, p)
      PROVE  CpuLive'
  BY <1>0, <1>15 DEF ForkRunnable, Executing, Goto, OneCpu, HandOver, ForkInv
<1>16. ASSUME NEW c \in CPUs, NEW p \in Slots, WaitReap(c, p)
      PROVE  CpuLive'
  BY <1>0, <1>16 DEF WaitReap, InWait, Zombies, Children, OneCpu, HandOver,
     ForkInv
<1>17. ASSUME NEW c \in CPUs, NEW p \in Slots, WaitFail(c, p)
      PROVE  CpuLive'
  BY <1>0, <1>17 DEF WaitFail, InWait, Zombies, Children, OneCpu, HandOver,
     ForkInv
<1>18. ASSUME NEW c \in CPUs, NEW p \in Slots, WaitSleep(c, p)
      PROVE  CpuLive'
  BY <1>0, <1>18 DEF WaitSleep, InWait, Zombies, Children, OneCpu, HandOver,
     ForkInv
<1>19. ASSUME NEW c \in CPUs, NEW p \in Slots, SysExit(c, p)
      PROVE  CpuLive'
  BY <1>0, <1>19 DEF SysExit, Executing, Goto, OneCpu, HandOver, ForkInv
<1>20. ASSUME NEW c \in CPUs, NEW p \in Slots, ExitInit(c, p)
      PROVE  CpuLive'
  BY <1>0, <1>20 DEF ExitInit, Executing, OneCpu, HandOver, ForkInv
<1>21. ASSUME NEW c \in CPUs, NEW p \in Slots, Exit(c, p)
      PROVE  CpuLive'
  BY <1>0, <1>21 DEF Exit, Executing, Goto, Wakeup1, ExitWakes, Adopted,
     Zombies, Children, OneCpu, HandOver, ForkInv
<1>22. ASSUME NEW c \in CPUs, NEW p \in Slots, ExitSched(c, p)
      PROVE  CpuLive'
  BY <1>0, <1>22 DEF ExitSched, Goto, OneCpu, HandOver, ForkInv
<1>23. ASSUME NEW c \in CPUs, NEW p \in Slots, Kill(c, p)
      PROVE  CpuLive'
  BY <1>0, <1>23 DEF Kill, Executing, Goto, Named, WakeKilled, OneCpu,
     HandOver, ForkInv
<1>24. ASSUME NEW c \in CPUs, NEW p \in Slots, SysSleep(c, p)
      PROVE  CpuLive'
  BY <1>0, <1>24 DEF SysSleep, Executing, Goto, OneCpu, HandOver, ForkInv
<1>25. ASSUME NEW c \in CPUs, NEW p \in Slots, SleepOnTicks(c, p)
      PROVE  CpuLive'
  BY <1>0, <1>25 DEF SleepOnTicks, Executing, Goto, OneCpu, HandOver, ForkInv
<1>26. ASSUME NEW c \in CPUs, NEW p \in Slots, SysSleepAgain(c, p)
      PROVE  CpuLive'
  BY <1>0, <1>26 DEF SysSleepAgain, Executing, Goto, OneCpu, HandOver,
     ForkInv
<1>27. CASE UNCHANGED vars
  BY <1>0, <1>27 DEF vars, OneCpu, HandOver, ForkInv
<1>. QED
  BY <1>1, <1>2, <1>3, <1>4, <1>5, <1>6, <1>7, <1>8, <1>9, <1>10, <1>11,
     <1>12, <1>13, <1>14, <1>15, <1>16, <1>17, <1>18, <1>19, <1>20, <1>21,
     <1>22, <1>23, <1>24, <1>25, <1>26, <1>27
     DEF Next, SchedStep, TimerStep, KernelStep, UserStep

(* Stacks live as long as somebody may be on them.                         *)
LEMMA StackLiveStep ==
  ASSUME IInv, [Next]_vars
  PROVE  StackLive'
<1>. USE DEF Null, idVars, cpuVars, lockVars, StackLive, Live
<1>0. /\ state \in [Slots -> ProcStates]
      /\ proc \in [CPUs -> Slots \cup {Null}]
      /\ np \in [Slots -> Slots \cup {Null}]
      /\ kstack \in [Slots -> BOOLEAN]
      /\ NoCpu \notin CPUs
      /\ Null \notin Slots
      /\ CpuLive
      /\ HandOver
      /\ StackLive
      /\ ForkInv
  BY ProcAssumption, InitSlot, NullNotSlot DEF IInv, TypeOK, SwitchSafe, ProcAssumption
<1>1. ASSUME NEW c \in CPUs, SchedStart(c)
      PROVE  StackLive'
  BY <1>0, <1>1 DEF SchedStart, Idle, Runnable, Dispatch, CpuLive, HandOver,
     ForkInv, ForkPCs
<1>2. ASSUME NEW c \in CPUs, SchedNext(c)
      PROVE  StackLive'
  BY <1>0, <1>2 DEF SchedNext, RunnableAfter, Runnable, Dispatch, CpuLive,
     HandOver, ForkInv, ForkPCs
<1>3. ASSUME NEW c \in CPUs, Timer(c)
      PROVE  StackLive'
  BY <1>0, <1>3 DEF Timer, InterruptsOn, AfterTimer, CpuLive, HandOver,
     ForkInv, ForkPCs
<1>4. ASSUME NEW c \in CPUs, Tick(c)
      PROVE  StackLive'
  BY <1>0, <1>4 DEF Tick, InterruptsOn, TickDown, CpuLive, HandOver,
     ForkInv, ForkPCs
<1>5. ASSUME NEW c \in CPUs, TickWakeup(c)
      PROVE  StackLive'
  BY <1>0, <1>5 DEF TickWakeup, AfterTimer, Wakeup1, CpuLive, HandOver,
     ForkInv, ForkPCs
<1>6. ASSUME NEW c \in CPUs, NEW p \in Slots, Resume(c, p)
      PROVE  StackLive'
  BY <1>0, <1>6 DEF Resume, CpuLive, HandOver, ForkInv, ForkPCs
<1>7. ASSUME NEW c \in CPUs, NEW p \in Slots, Yield(c, p)
      PROVE  StackLive'
  BY <1>0, <1>7 DEF Yield, CpuLive, HandOver, ForkInv, ForkPCs
<1>8. ASSUME NEW c \in CPUs, NEW p \in Slots, SyscallEnter(c, p)
      PROVE  StackLive'
  BY <1>0, <1>8 DEF SyscallEnter, Executing, Goto, CpuLive, HandOver,
     ForkInv, ForkPCs
<1>9. ASSUME NEW c \in CPUs, NEW p \in Slots, TrapExit(c, p)
      PROVE  StackLive'
  BY <1>0, <1>9 DEF TrapExit, Executing, Goto, CpuLive, HandOver, ForkInv,
     ForkPCs
<1>10. ASSUME NEW c \in CPUs, NEW p \in Slots, TrapReturn(c, p)
      PROVE  StackLive'
  BY <1>0, <1>10 DEF TrapReturn, Executing, Goto, CpuLive, HandOver,
     ForkInv, ForkPCs
<1>11. ASSUME NEW c \in CPUs, NEW p \in Slots, Fault(c, p)
      PROVE  StackLive'
  BY <1>0, <1>11 DEF Fault, Executing, Goto, CpuLive, HandOver, ForkInv,
     ForkPCs
<1>12. ASSUME NEW c \in CPUs, NEW p \in Slots, ForkAllocSlot(c, p)
      PROVE  StackLive'
  BY <1>0, <1>12 DEF ForkAllocSlot, AllocPid, Executing, Unused, CpuLive, HandOver,
     ForkInv, ForkPCs
<1>13. ASSUME NEW c \in CPUs, NEW p \in Slots, ForkAllocStack(c, p)
      PROVE  StackLive'
  <2>1. CASE ForkFail(p)
    BY <1>0, <1>13, <2>1 DEF ForkAllocStack, Executing, ForkFail, CpuLive,
       HandOver, ForkInv, ForkPCs
  <2>2. CASE ~ ForkFail(p)
    BY <1>0, <1>13, <2>2 DEF ForkAllocStack, Executing, CpuLive, HandOver,
       ForkInv, ForkPCs
  <2>. QED
    BY <2>1, <2>2
<1>14. ASSUME NEW c \in CPUs, NEW p \in Slots, ForkCopy(c, p)
      PROVE  StackLive'
  <2>1. CASE ForkFail(p)
    BY <1>0, <1>14, <2>1 DEF ForkCopy, Executing, ForkFail, CpuLive,
       HandOver, ForkInv, ForkPCs
  <2>2. CASE ~ ForkFail(p)
    BY <1>0, <1>14, <2>2 DEF ForkCopy, Executing, CpuLive, HandOver,
       ForkInv, ForkPCs
  <2>. QED
    BY <2>1, <2>2
<1>15. ASSUME NEW c \in CPUs, NEW p \in Slots, ForkRunnable(c, p)
      PROVE  StackLive'
  BY <1>0, <1>15 DEF ForkRunnable, Executing, Goto, CpuLive, HandOver,
     ForkInv, ForkPCs
<1>16. ASSUME NEW c \in CPUs, NEW p \in Slots, WaitReap(c, p)
      PROVE  StackLive'
  BY <1>0, <1>16 DEF WaitReap, InWait, Zombies, Children, CpuLive, HandOver,
     ForkInv, ForkPCs
<1>17. ASSUME NEW c \in CPUs, NEW p \in Slots, WaitFail(c, p)
      PROVE  StackLive'
  BY <1>0, <1>17 DEF WaitFail, InWait, Zombies, Children, CpuLive, HandOver,
     ForkInv, ForkPCs
<1>18. ASSUME NEW c \in CPUs, NEW p \in Slots, WaitSleep(c, p)
      PROVE  StackLive'
  BY <1>0, <1>18 DEF WaitSleep, InWait, Zombies, Children, CpuLive,
     HandOver, ForkInv, ForkPCs
<1>19. ASSUME NEW c \in CPUs, NEW p \in Slots, SysExit(c, p)
      PROVE  StackLive'
  BY <1>0, <1>19 DEF SysExit, Executing, Goto, CpuLive, HandOver, ForkInv,
     ForkPCs
<1>20. ASSUME NEW c \in CPUs, NEW p \in Slots, ExitInit(c, p)
      PROVE  StackLive'
  BY <1>0, <1>20 DEF ExitInit, Executing, CpuLive, HandOver, ForkInv, ForkPCs
<1>21. ASSUME NEW c \in CPUs, NEW p \in Slots, Exit(c, p)
      PROVE  StackLive'
  BY <1>0, <1>21 DEF Exit, Executing, Goto, Wakeup1, ExitWakes, Adopted,
     Zombies, Children, CpuLive, HandOver, ForkInv, ForkPCs
<1>22. ASSUME NEW c \in CPUs, NEW p \in Slots, ExitSched(c, p)
      PROVE  StackLive'
  BY <1>0, <1>22 DEF ExitSched, Goto, CpuLive, HandOver, ForkInv, ForkPCs
<1>23. ASSUME NEW c \in CPUs, NEW p \in Slots, Kill(c, p)
      PROVE  StackLive'
  BY <1>0, <1>23 DEF Kill, Executing, Goto, Named, WakeKilled, CpuLive,
     HandOver, ForkInv, ForkPCs
<1>24. ASSUME NEW c \in CPUs, NEW p \in Slots, SysSleep(c, p)
      PROVE  StackLive'
  BY <1>0, <1>24 DEF SysSleep, Executing, Goto, CpuLive, HandOver, ForkInv,
     ForkPCs
<1>25. ASSUME NEW c \in CPUs, NEW p \in Slots, SleepOnTicks(c, p)
      PROVE  StackLive'
  BY <1>0, <1>25 DEF SleepOnTicks, Executing, Goto, CpuLive, HandOver,
     ForkInv, ForkPCs
<1>26. ASSUME NEW c \in CPUs, NEW p \in Slots, SysSleepAgain(c, p)
      PROVE  StackLive'
  BY <1>0, <1>26 DEF SysSleepAgain, Executing, Goto, CpuLive, HandOver,
     ForkInv, ForkPCs
<1>27. CASE UNCHANGED vars
  BY <1>0, <1>27 DEF vars, CpuLive, HandOver, ForkInv, ForkPCs
<1>. QED
  BY <1>1, <1>2, <1>3, <1>4, <1>5, <1>6, <1>7, <1>8, <1>9, <1>10, <1>11,
     <1>12, <1>13, <1>14, <1>15, <1>16, <1>17, <1>18, <1>19, <1>20, <1>21,
     <1>22, <1>23, <1>24, <1>25, <1>26, <1>27
     DEF Next, SchedStep, TimerStep, KernelStep, UserStep

(* nextpid only grows past the pids in use.                                *)
LEMMA PidsUniqueStep ==
  ASSUME IInv, [Next]_vars
  PROVE  PidsUnique'
<1>. USE DEF Null, idVars, cpuVars, lockVars, PidsUnique
<1>0. /\ state \in [Slots -> ProcStates]
      /\ proc \in [CPUs -> Slots \cup {Null}]
      /\ np \in [Slots -> Slots \cup {Null}]
      /\ pid \in [Slots -> Nat]
      /\ nextpid \in Nat
      /\ NoCpu \notin CPUs
      /\ Null \notin Slots
      /\ InitProc \in Slots
      /\ HandOver
      /\ InitAlive
      /\ PidsUnique
      /\ ForkInv
  BY ProcAssumption, InitSlot, NullNotSlot DEF IInv, TypeOK, SwitchSafe, ProcAssumption
<1>1. ASSUME NEW c \in CPUs, SchedStart(c)
      PROVE  PidsUnique'
  BY <1>0, <1>1 DEF SchedStart, Idle, Runnable, Dispatch, HandOver, ForkInv
<1>2. ASSUME NEW c \in CPUs, SchedNext(c)
      PROVE  PidsUnique'
  BY <1>0, <1>2 DEF SchedNext, RunnableAfter, Runnable, Dispatch, HandOver,
     ForkInv
<1>3. ASSUME NEW c \in CPUs, Timer(c)
      PROVE  PidsUnique'
  BY <1>0, <1>3 DEF Timer, InterruptsOn, AfterTimer, HandOver, ForkInv
<1>4. ASSUME NEW c \in CPUs, Tick(c)
      PROVE  PidsUnique'
  BY <1>0, <1>4 DEF Tick, InterruptsOn, TickDown, HandOver, ForkInv
<1>5. ASSUME NEW c \in CPUs, TickWakeup(c)
      PROVE  PidsUnique'
  BY <1>0, <1>5 DEF TickWakeup, AfterTimer, Wakeup1, HandOver, ForkInv
<1>6. ASSUME NEW c \in CPUs, NEW p \in Slots, Resume(c, p)
      PROVE  PidsUnique'
  BY <1>0, <1>6 DEF Resume, HandOver, ForkInv
<1>7. ASSUME NEW c \in CPUs, NEW p \in Slots, Yield(c, p)
      PROVE  PidsUnique'
  BY <1>0, <1>7 DEF Yield, HandOver, ForkInv
<1>8. ASSUME NEW c \in CPUs, NEW p \in Slots, SyscallEnter(c, p)
      PROVE  PidsUnique'
  BY <1>0, <1>8 DEF SyscallEnter, Executing, Goto, HandOver, ForkInv
<1>9. ASSUME NEW c \in CPUs, NEW p \in Slots, TrapExit(c, p)
      PROVE  PidsUnique'
  BY <1>0, <1>9 DEF TrapExit, Executing, Goto, HandOver, ForkInv
<1>10. ASSUME NEW c \in CPUs, NEW p \in Slots, TrapReturn(c, p)
      PROVE  PidsUnique'
  BY <1>0, <1>10 DEF TrapReturn, Executing, Goto, HandOver, ForkInv
<1>11. ASSUME NEW c \in CPUs, NEW p \in Slots, Fault(c, p)
      PROVE  PidsUnique'
  BY <1>0, <1>11 DEF Fault, Executing, Goto, HandOver, ForkInv
<1>12. ASSUME NEW c \in CPUs, NEW p \in Slots, ForkAllocSlot(c, p)
      PROVE  PidsUnique'
  <2>1. CASE Unused = {}
    BY <1>0, <1>12, <2>1 DEF ForkAllocSlot, AllocPid
  <2>2. CASE Unused # {}
    <3>1. PICK q \in Slots :
            /\ state[q] = "UNUSED"
            /\ state' = [state EXCEPT ![q] = "EMBRYO"]
            /\ pid' = [pid EXCEPT ![q] = nextpid]
            /\ nextpid' = nextpid + 1
      BY <1>12, <2>2 DEF ForkAllocSlot, AllocPid, Unused
    <3>2. nextpid > 0
      BY <1>0 DEF InitAlive
    <3>3. \A r \in Slots : r # q /\ state'[r] # "UNUSED" =>
            state[r] # "UNUSED" /\ pid'[r] = pid[r]
      BY <1>0, <3>1
    <3>4. state'[q] # "UNUSED" /\ pid'[q] = nextpid
      BY <1>0, <3>1
    <3>. QED
      BY <1>0, <3>1, <3>2, <3>3, <3>4
  <2>. QED
    BY <2>1, <2>2
<1>13. ASSUME NEW c \in CPUs, NEW p \in Slots, ForkAllocStack(c, p)
      PROVE  PidsUnique'
  BY <1>0, <1>13 DEF ForkAllocStack, Executing, ForkFail, HandOver, ForkInv
<1>14. ASSUME NEW c \in CPUs, NEW p \in Slots, ForkCopy(c, p)
      PROVE  PidsUnique'
  BY <1>0, <1>14 DEF ForkCopy, Executing, ForkFail, HandOver, ForkInv
<1>15. ASSUME NEW c \in CPUs, NEW p \in Slots, ForkRunnable(c, p)
      PROVE  PidsUnique'
  BY <1>0, <1>15 DEF ForkRunnable, Executing, Goto, HandOver, ForkInv
<1>16. ASSUME NEW c \in CPUs, NEW p \in Slots, WaitReap(c, p)
      PROVE  PidsUnique'
  BY <1>0, <1>16 DEF WaitReap, InWait, Zombies, Children, HandOver, ForkInv
<1>17. ASSUME NEW c \in CPUs, NEW p \in Slots, WaitFail(c, p)
      PROVE  PidsUnique'
  BY <1>0, <1>17 DEF WaitFail, InWait, Zombies, Children, HandOver, ForkInv
<1>18. ASSUME NEW c \in CPUs, NEW p \in Slots, WaitSleep(c, p)
      PROVE  PidsUnique'
  BY <1>0, <1>18 DEF WaitSleep, InWait, Zombies, Children, HandOver, ForkInv
<1>19. ASSUME NEW c \in CPUs, NEW p \in Slots, SysExit(c, p)
      PROVE  PidsUnique'
  BY <1>0, <1>19 DEF SysExit, Executing, Goto, HandOver, ForkInv
<1>20. ASSUME NEW c \in CPUs, NEW p \in Slots, ExitInit(c, p)
      PROVE  PidsUnique'
  BY <1>0, <1>20 DEF ExitInit, Executing, HandOver, ForkInv
<1>21. ASSUME NEW c \in CPUs, NEW p \in Slots, Exit(c, p)
      PROVE  PidsUnique'
  BY <1>0, <1>21 DEF Exit, Executing, Goto, Wakeup1, ExitWakes, Adopted,
     Zombies, Children, HandOver, ForkInv
<1>22. ASSUME NEW c \in CPUs, NEW p \in Slots, ExitSched(c, p)
      PROVE  PidsUnique'
  BY <1>0, <1>22 DEF ExitSched, Goto, HandOver, ForkInv
<1>23. ASSUME NEW c \in CPUs, NEW p \in Slots, Kill(c, p)
      PROVE  PidsUnique'
  BY <1>0, <1>23 DEF Kill, Executing, Goto, Named, WakeKilled, HandOver,
     ForkInv
<1>24. ASSUME NEW c \in CPUs, NEW p \in Slots, SysSleep(c, p)
      PROVE  PidsUnique'
  BY <1>0, <1>24 DEF SysSleep, Executing, Goto, HandOver, ForkInv
<1>25. ASSUME NEW c \in CPUs, NEW p \in Slots, SleepOnTicks(c, p)
      PROVE  PidsUnique'
  BY <1>0, <1>25 DEF SleepOnTicks, Executing, Goto, HandOver, ForkInv
<1>26. ASSUME NEW c \in CPUs, NEW p \in Slots, SysSleepAgain(c, p)
      PROVE  PidsUnique'
  BY <1>0, <1>26 DEF SysSleepAgain, Executing, Goto, HandOver, ForkInv
<1>27. CASE UNCHANGED vars
  BY <1>0, <1>27 DEF vars, HandOver, ForkInv
<1>. QED
  BY <1>1, <1>2, <1>3, <1>4, <1>5, <1>6, <1>7, <1>8, <1>9, <1>10, <1>11,
     <1>12, <1>13, <1>14, <1>15, <1>16, <1>17, <1>18, <1>19, <1>20, <1>21,
     <1>22, <1>23, <1>24, <1>25, <1>26, <1>27
     DEF Next, SchedStep, TimerStep, KernelStep, UserStep

-----------------------------------------------------------------------------
(* fork(), parents and children.                                          *)

(* The child under construction belongs to one fork().                      *)
LEMMA ForkInvStep ==
  ASSUME IInv, [Next]_vars
  PROVE  ForkInv'
<1>. USE DEF Null, idVars, cpuVars, lockVars, ForkInv, ForkPCs
<1>0. /\ state \in [Slots -> ProcStates]
      /\ proc \in [CPUs -> Slots \cup {Null}]
      /\ pc \in [Slots -> PCs]
      /\ np \in [Slots -> Slots \cup {Null}]
      /\ kstack \in [Slots -> BOOLEAN]
      /\ parent \in [Slots -> Slots \cup {Null}]
      /\ NoCpu \notin CPUs
      /\ Null \notin Slots
      /\ InitProc \in Slots
      /\ HandOver
      /\ PcInv
      /\ ForkInv
      /\ ParentAlive
  BY ProcAssumption, InitSlot, NullNotSlot DEF IInv, TypeOK, SwitchSafe, ProcAssumption
<1>1. ASSUME NEW c \in CPUs, SchedStart(c)
      PROVE  ForkInv'
  BY <1>0, <1>1 DEF SchedStart, Idle, Runnable, Dispatch, HandOver, PcInv,
     ParentAlive
<1>2. ASSUME NEW c \in CPUs, SchedNext(c)
      PROVE  ForkInv'
  BY <1>0, <1>2 DEF SchedNext, RunnableAfter, Runnable, Dispatch, HandOver,
     PcInv, ParentAlive
<1>3. ASSUME NEW c \in CPUs, Timer(c)
      PROVE  ForkInv'
  BY <1>0, <1>3 DEF Timer, InterruptsOn, AfterTimer, HandOver, PcInv,
     ParentAlive
<1>4. ASSUME NEW c \in CPUs, Tick(c)
      PROVE  ForkInv'
  BY <1>0, <1>4 DEF Tick, InterruptsOn, TickDown, HandOver, PcInv,
     ParentAlive
<1>5. ASSUME NEW c \in CPUs, TickWakeup(c)
      PROVE  ForkInv'
  BY <1>0, <1>5 DEF TickWakeup, AfterTimer, Wakeup1, HandOver, PcInv,
     ParentAlive
<1>6. ASSUME NEW c \in CPUs, NEW p \in Slots, Resume(c, p)
      PROVE  ForkInv'
  BY <1>0, <1>6 DEF Resume, HandOver, PcInv, ParentAlive
<1>7. ASSUME NEW c \in CPUs, NEW p \in Slots, Yield(c, p)
      PROVE  ForkInv'
  BY <1>0, <1>7 DEF Yield, HandOver, PcInv, ParentAlive
<1>8. ASSUME NEW c \in CPUs, NEW p \in Slots, SyscallEnter(c, p)
      PROVE  ForkInv'
  BY <1>0, <1>8 DEF SyscallEnter, Executing, Goto, HandOver, PcInv,
     ParentAlive
<1>9. ASSUME NEW c \in CPUs, NEW p \in Slots, TrapExit(c, p)
      PROVE  ForkInv'
  BY <1>0, <1>9 DEF TrapExit, Executing, Goto, HandOver, PcInv, ParentAlive
<1>10. ASSUME NEW c \in CPUs, NEW p \in Slots, TrapReturn(c, p)
      PROVE  ForkInv'
  BY <1>0, <1>10 DEF TrapReturn, Executing, Goto, HandOver, PcInv,
     ParentAlive
<1>11. ASSUME NEW c \in CPUs, NEW p \in Slots, Fault(c, p)
      PROVE  ForkInv'
  BY <1>0, <1>11 DEF Fault, Executing, Goto, HandOver, PcInv, ParentAlive
<1>12. ASSUME NEW c \in CPUs, NEW p \in Slots, ForkAllocSlot(c, p)
      PROVE  ForkInv'
  BY <1>0, <1>12 DEF ForkAllocSlot, AllocPid, Executing, Unused, HandOver, PcInv,
     ParentAlive
<1>13. ASSUME NEW c \in CPUs, NEW p \in Slots, ForkAllocStack(c, p)
      PROVE  ForkInv'
  BY <1>0, <1>13 DEF ForkAllocStack, Executing, ForkFail, HandOver, PcInv,
     ParentAlive
<1>14. ASSUME NEW c \in CPUs, NEW p \in Slots, ForkCopy(c, p)
      PROVE  ForkInv'
  BY <1>0, <1>14 DEF ForkCopy, Executing, ForkFail, HandOver, PcInv,
     ParentAlive
<1>15. ASSUME NEW c \in CPUs, NEW p \in Slots, ForkRunnable(c, p)
      PROVE  ForkInv'
  BY <1>0, <1>15 DEF ForkRunnable, Executing, Goto, HandOver, PcInv,
     ParentAlive
<1>16. ASSUME NEW c \in CPUs, NEW p \in Slots, WaitReap(c, p)
      PROVE  ForkInv'
  BY <1>0, <1>16 DEF WaitReap, InWait, Zombies, Children, HandOver, PcInv,
     ParentAlive
<1>17. ASSUME NEW c \in CPUs, NEW p \in Slots, WaitFail(c, p)
      PROVE  ForkInv'
  BY <1>0, <1>17 DEF WaitFail, InWait, Zombies, Children, HandOver, PcInv,
     ParentAlive
<1>18. ASSUME NEW c \in CPUs, NEW p \in Slots, WaitSleep(c, p)
      PROVE  ForkInv'
  BY <1>0, <1>18 DEF WaitSleep, InWait, Zombies, Children, HandOver, PcInv,
     ParentAlive
<1>19. ASSUME NEW c \in CPUs, NEW p \in Slots, SysExit(c, p)
      PROVE  ForkInv'
  BY <1>0, <1>19 DEF SysExit, Executing, Goto, HandOver, PcInv, ParentAlive
<1>20. ASSUME NEW c \in CPUs, NEW p \in Slots, ExitInit(c, p)
      PROVE  ForkInv'
  BY <1>0, <1>20 DEF ExitInit, Executing, HandOver, PcInv, ParentAlive
<1>21. ASSUME NEW c \in CPUs, NEW p \in Slots, Exit(c, p)
      PROVE  ForkInv'
  BY <1>0, <1>21 DEF Exit, Executing, Goto, Wakeup1, ExitWakes, Adopted,
     Zombies, Children, HandOver, PcInv, ParentAlive
<1>22. ASSUME NEW c \in CPUs, NEW p \in Slots, ExitSched(c, p)
      PROVE  ForkInv'
  BY <1>0, <1>22 DEF ExitSched, Goto, HandOver, PcInv, ParentAlive
<1>23. ASSUME NEW c \in CPUs, NEW p \in Slots, Kill(c, p)
      PROVE  ForkInv'
  BY <1>0, <1>23 DEF Kill, Executing, Goto, Named, WakeKilled, HandOver,
     PcInv, ParentAlive
<1>24. ASSUME NEW c \in CPUs, NEW p \in Slots, SysSleep(c, p)
      PROVE  ForkInv'
  BY <1>0, <1>24 DEF SysSleep, Executing, Goto, HandOver, PcInv, ParentAlive
<1>25. ASSUME NEW c \in CPUs, NEW p \in Slots, SleepOnTicks(c, p)
      PROVE  ForkInv'
  BY <1>0, <1>25 DEF SleepOnTicks, Executing, Goto, HandOver, PcInv,
     ParentAlive
<1>26. ASSUME NEW c \in CPUs, NEW p \in Slots, SysSleepAgain(c, p)
      PROVE  ForkInv'
  BY <1>0, <1>26 DEF SysSleepAgain, Executing, Goto, HandOver, PcInv,
     ParentAlive
<1>27. CASE UNCHANGED vars
  BY <1>0, <1>27 DEF vars, HandOver, PcInv, ParentAlive
<1>. QED
  BY <1>1, <1>2, <1>3, <1>4, <1>5, <1>6, <1>7, <1>8, <1>9, <1>10, <1>11,
     <1>12, <1>13, <1>14, <1>15, <1>16, <1>17, <1>18, <1>19, <1>20, <1>21,
     <1>22, <1>23, <1>24, <1>25, <1>26, <1>27
     DEF Next, SchedStep, TimerStep, KernelStep, UserStep


(* A live process has a parent that can wait for it.                       *)
LEMMA ParentAliveStep ==
  ASSUME IInv, [Next]_vars
  PROVE  ParentAlive'
<1>. USE DEF Null, idVars, cpuVars, lockVars, ParentAlive, Live
<1>0. /\ state \in [Slots -> ProcStates]
      /\ proc \in [CPUs -> Slots \cup {Null}]
      /\ pc \in [Slots -> PCs]
      /\ np \in [Slots -> Slots \cup {Null}]
      /\ parent \in [Slots -> Slots \cup {Null}]
      /\ NoCpu \notin CPUs
      /\ Null \notin Slots
      /\ InitProc \in Slots
      /\ HandOver
      /\ PcInv
      /\ ForkInv
      /\ InitAlive
      /\ ParentAlive
  BY ProcAssumption, InitSlot, NullNotSlot DEF IInv, TypeOK, SwitchSafe, ProcAssumption
<1>1. ASSUME NEW c \in CPUs, SchedStart(c)
      PROVE  ParentAlive'
  BY <1>0, <1>1 DEF SchedStart, Idle, Runnable, Dispatch, HandOver, PcInv,
     ForkInv, ForkPCs, InitAlive
<1>2. ASSUME NEW c \in CPUs, SchedNext(c)
      PROVE  ParentAlive'
  BY <1>0, <1>2 DEF SchedNext, RunnableAfter, Runnable, Dispatch, HandOver,
     PcInv, ForkInv, ForkPCs, InitAlive
<1>3. ASSUME NEW c \in CPUs, Timer(c)
      PROVE  ParentAlive'
  BY <1>0, <1>3 DEF Timer, InterruptsOn, AfterTimer, HandOver, PcInv,
     ForkInv, ForkPCs, InitAlive
<1>4. ASSUME NEW c \in CPUs, Tick(c)
      PROVE  ParentAlive'
  BY <1>0, <1>4 DEF Tick, InterruptsOn, TickDown, HandOver, PcInv, ForkInv,
     ForkPCs, InitAlive
<1>5. ASSUME NEW c \in CPUs, TickWakeup(c)
      PROVE  ParentAlive'
  BY <1>0, <1>5 DEF TickWakeup, AfterTimer, Wakeup1, HandOver, PcInv,
     ForkInv, ForkPCs, InitAlive
<1>6. ASSUME NEW c \in CPUs, NEW p \in Slots, Resume(c, p)
      PROVE  ParentAlive'
  BY <1>0, <1>6 DEF Resume, HandOver, PcInv, ForkInv, ForkPCs, InitAlive
<1>7. ASSUME NEW c \in CPUs, NEW p \in Slots, Yield(c, p)
      PROVE  ParentAlive'
  BY <1>0, <1>7 DEF Yield, HandOver, PcInv, ForkInv, ForkPCs, InitAlive
<1>8. ASSUME NEW c \in CPUs, NEW p \in Slots, SyscallEnter(c, p)
      PROVE  ParentAlive'
  BY <1>0, <1>8 DEF SyscallEnter, Executing, Goto, HandOver, PcInv, ForkInv,
     ForkPCs, InitAlive
<1>9. ASSUME NEW c \in CPUs, NEW p \in Slots, TrapExit(c, p)
      PROVE  ParentAlive'
  BY <1>0, <1>9 DEF TrapExit, Executing, Goto, HandOver, PcInv, ForkInv,
     ForkPCs, InitAlive
<1>10. ASSUME NEW c \in CPUs, NEW p \in Slots, TrapReturn(c, p)
      PROVE  ParentAlive'
  BY <1>0, <1>10 DEF TrapReturn, Executing, Goto, HandOver, PcInv, ForkInv,
     ForkPCs, InitAlive
<1>11. ASSUME NEW c \in CPUs, NEW p \in Slots, Fault(c, p)
      PROVE  ParentAlive'
  BY <1>0, <1>11 DEF Fault, Executing, Goto, HandOver, PcInv, ForkInv,
     ForkPCs, InitAlive
<1>12. ASSUME NEW c \in CPUs, NEW p \in Slots, ForkAllocSlot(c, p)
      PROVE  ParentAlive'
  BY <1>0, <1>12 DEF ForkAllocSlot, AllocPid, Executing, Unused, HandOver, PcInv,
     ForkInv, ForkPCs, InitAlive
<1>13. ASSUME NEW c \in CPUs, NEW p \in Slots, ForkAllocStack(c, p)
      PROVE  ParentAlive'
  BY <1>0, <1>13 DEF ForkAllocStack, Executing, ForkFail, HandOver, PcInv,
     ForkInv, ForkPCs, InitAlive
<1>14. ASSUME NEW c \in CPUs, NEW p \in Slots, ForkCopy(c, p)
      PROVE  ParentAlive'
  BY <1>0, <1>14 DEF ForkCopy, Executing, ForkFail, HandOver, PcInv,
     ForkInv, ForkPCs, InitAlive
<1>15. ASSUME NEW c \in CPUs, NEW p \in Slots, ForkRunnable(c, p)
      PROVE  ParentAlive'
  BY <1>0, <1>15 DEF ForkRunnable, Executing, Goto, HandOver, PcInv,
     ForkInv, ForkPCs, InitAlive
<1>16. ASSUME NEW c \in CPUs, NEW p \in Slots, WaitReap(c, p)
      PROVE  ParentAlive'
  BY <1>0, <1>16 DEF WaitReap, InWait, Zombies, Children, HandOver, PcInv,
     ForkInv, ForkPCs, InitAlive
<1>17. ASSUME NEW c \in CPUs, NEW p \in Slots, WaitFail(c, p)
      PROVE  ParentAlive'
  BY <1>0, <1>17 DEF WaitFail, InWait, Zombies, Children, HandOver, PcInv,
     ForkInv, ForkPCs, InitAlive
<1>18. ASSUME NEW c \in CPUs, NEW p \in Slots, WaitSleep(c, p)
      PROVE  ParentAlive'
  BY <1>0, <1>18 DEF WaitSleep, InWait, Zombies, Children, HandOver, PcInv,
     ForkInv, ForkPCs, InitAlive
<1>19. ASSUME NEW c \in CPUs, NEW p \in Slots, SysExit(c, p)
      PROVE  ParentAlive'
  BY <1>0, <1>19 DEF SysExit, Executing, Goto, HandOver, PcInv, ForkInv,
     ForkPCs, InitAlive
<1>20. ASSUME NEW c \in CPUs, NEW p \in Slots, ExitInit(c, p)
      PROVE  ParentAlive'
  BY <1>0, <1>20 DEF ExitInit, Executing, HandOver, PcInv, ForkInv, ForkPCs,
     InitAlive
<1>21. ASSUME NEW c \in CPUs, NEW p \in Slots, Exit(c, p)
      PROVE  ParentAlive'
  BY <1>0, <1>21 DEF Exit, Executing, Goto, Wakeup1, ExitWakes, Adopted,
     Zombies, Children, HandOver, PcInv, ForkInv, ForkPCs, InitAlive
<1>22. ASSUME NEW c \in CPUs, NEW p \in Slots, ExitSched(c, p)
      PROVE  ParentAlive'
  BY <1>0, <1>22 DEF ExitSched, Goto, HandOver, PcInv, ForkInv, ForkPCs,
     InitAlive
<1>23. ASSUME NEW c \in CPUs, NEW p \in Slots, Kill(c, p)
      PROVE  ParentAlive'
  BY <1>0, <1>23 DEF Kill, Executing, Goto, Named, WakeKilled, HandOver,
     PcInv, ForkInv, ForkPCs, InitAlive
<1>24. ASSUME NEW c \in CPUs, NEW p \in Slots, SysSleep(c, p)
      PROVE  ParentAlive'
  BY <1>0, <1>24 DEF SysSleep, Executing, Goto, HandOver, PcInv, ForkInv,
     ForkPCs, InitAlive
<1>25. ASSUME NEW c \in CPUs, NEW p \in Slots, SleepOnTicks(c, p)
      PROVE  ParentAlive'
  BY <1>0, <1>25 DEF SleepOnTicks, Executing, Goto, HandOver, PcInv,
     ForkInv, ForkPCs, InitAlive
<1>26. ASSUME NEW c \in CPUs, NEW p \in Slots, SysSleepAgain(c, p)
      PROVE  ParentAlive'
  BY <1>0, <1>26 DEF SysSleepAgain, Executing, Goto, HandOver, PcInv,
     ForkInv, ForkPCs, InitAlive
<1>27. CASE UNCHANGED vars
  BY <1>0, <1>27 DEF vars, HandOver, PcInv, ForkInv, ForkPCs, InitAlive
<1>. QED
  BY <1>1, <1>2, <1>3, <1>4, <1>5, <1>6, <1>7, <1>8, <1>9, <1>10, <1>11,
     <1>12, <1>13, <1>14, <1>15, <1>16, <1>17, <1>18, <1>19, <1>20, <1>21,
     <1>22, <1>23, <1>24, <1>25, <1>26, <1>27
     DEF Next, SchedStep, TimerStep, KernelStep, UserStep

(* The parent of a child is the caller of its fork(), or init.             *)
LEMMA ParentInvStep ==
  ASSUME IInv, [Next]_vars
  PROVE  ParentInv'
<1>. USE DEF Null, idVars, cpuVars, lockVars, ParentInv
<1>0. /\ state \in [Slots -> ProcStates]
      /\ proc \in [CPUs -> Slots \cup {Null}]
      /\ np \in [Slots -> Slots \cup {Null}]
      /\ parent \in [Slots -> Slots \cup {Null}]
      /\ NoCpu \notin CPUs
      /\ Null \notin Slots
      /\ InitProc \in Slots
      /\ HandOver
      /\ ForkInv
      /\ InitAlive
      /\ ParentInv
  BY ProcAssumption, InitSlot, NullNotSlot DEF IInv, TypeOK, SwitchSafe, ProcAssumption
<1>1. ASSUME NEW c \in CPUs, SchedStart(c)
      PROVE  ParentInv'
  BY <1>0, <1>1 DEF SchedStart, Idle, Runnable, Dispatch, HandOver, ForkInv,
     ForkPCs, InitAlive
<1>2. ASSUME NEW c \in CPUs, SchedNext(c)
      PROVE  ParentInv'
  BY <1>0, <1>2 DEF SchedNext, RunnableAfter, Runnable, Dispatch, HandOver,
     ForkInv, ForkPCs, InitAlive
<1>3. ASSUME NEW c \in CPUs, Timer(c)
      PROVE  ParentInv'
  BY <1>0, <1>3 DEF Timer, InterruptsOn, AfterTimer, HandOver, ForkInv,
     ForkPCs, InitAlive
<1>4. ASSUME NEW c \in CPUs, Tick(c)
      PROVE  ParentInv'
  BY <1>0, <1>4 DEF Tick, InterruptsOn, TickDown, HandOver, ForkInv,
     ForkPCs, InitAlive
<1>5. ASSUME NEW c \in CPUs, TickWakeup(c)
      PROVE  ParentInv'
  BY <1>0, <1>5 DEF TickWakeup, AfterTimer, Wakeup1, HandOver, ForkInv,
     ForkPCs, InitAlive
<1>6. ASSUME NEW c \in CPUs, NEW p \in Slots, Resume(c, p)
      PROVE  ParentInv'
  BY <1>0, <1>6 DEF Resume, HandOver, ForkInv, ForkPCs, InitAlive
<1>7. ASSUME NEW c \in CPUs, NEW p \in Slots, Yield(c, p)
      PROVE  ParentInv'
  BY <1>0, <1>7 DEF Yield, HandOver, ForkInv, ForkPCs, InitAlive
<1>8. ASSUME NEW c \in CPUs, NEW p \in Slots, SyscallEnter(c, p)
      PROVE  ParentInv'
  BY <1>0, <1>8 DEF SyscallEnter, Executing, Goto, HandOver, ForkInv,
     ForkPCs, InitAlive
<1>9. ASSUME NEW c \in CPUs, NEW p \in Slots, TrapExit(c, p)
      PROVE  ParentInv'
  BY <1>0, <1>9 DEF TrapExit, Executing, Goto, HandOver, ForkInv, ForkPCs,
     InitAlive
<1>10. ASSUME NEW c \in CPUs, NEW p \in Slots, TrapReturn(c, p)
      PROVE  ParentInv'
  BY <1>0, <1>10 DEF TrapReturn, Executing, Goto, HandOver, ForkInv,
     ForkPCs, InitAlive
<1>11. ASSUME NEW c \in CPUs, NEW p \in Slots, Fault(c, p)
      PROVE  ParentInv'
  BY <1>0, <1>11 DEF Fault, Executing, Goto, HandOver, ForkInv, ForkPCs,
     InitAlive
<1>12. ASSUME NEW c \in CPUs, NEW p \in Slots, ForkAllocSlot(c, p)
      PROVE  ParentInv'
  BY <1>0, <1>12 DEF ForkAllocSlot, AllocPid, Executing, Unused, HandOver, ForkInv,
     ForkPCs, InitAlive
<1>13. ASSUME NEW c \in CPUs, NEW p \in Slots, ForkAllocStack(c, p)
      PROVE  ParentInv'
  BY <1>0, <1>13 DEF ForkAllocStack, Executing, ForkFail, HandOver, ForkInv,
     ForkPCs, InitAlive
<1>14. ASSUME NEW c \in CPUs, NEW p \in Slots, ForkCopy(c, p)
      PROVE  ParentInv'
  BY <1>0, <1>14 DEF ForkCopy, Executing, ForkFail, HandOver, ForkInv,
     ForkPCs, InitAlive
<1>15. ASSUME NEW c \in CPUs, NEW p \in Slots, ForkRunnable(c, p)
      PROVE  ParentInv'
  BY <1>0, <1>15 DEF ForkRunnable, Executing, Goto, HandOver, ForkInv,
     ForkPCs, InitAlive
<1>16. ASSUME NEW c \in CPUs, NEW p \in Slots, WaitReap(c, p)
      PROVE  ParentInv'
  BY <1>0, <1>16 DEF WaitReap, InWait, Zombies, Children, HandOver, ForkInv,
     ForkPCs, InitAlive
<1>17. ASSUME NEW c \in CPUs, NEW p \in Slots, WaitFail(c, p)
      PROVE  ParentInv'
  BY <1>0, <1>17 DEF WaitFail, InWait, Zombies, Children, HandOver, ForkInv,
     ForkPCs, InitAlive
<1>18. ASSUME NEW c \in CPUs, NEW p \in Slots, WaitSleep(c, p)
      PROVE  ParentInv'
  BY <1>0, <1>18 DEF WaitSleep, InWait, Zombies, Children, HandOver,
     ForkInv, ForkPCs, InitAlive
<1>19. ASSUME NEW c \in CPUs, NEW p \in Slots, SysExit(c, p)
      PROVE  ParentInv'
  BY <1>0, <1>19 DEF SysExit, Executing, Goto, HandOver, ForkInv, ForkPCs,
     InitAlive
<1>20. ASSUME NEW c \in CPUs, NEW p \in Slots, ExitInit(c, p)
      PROVE  ParentInv'
  BY <1>0, <1>20 DEF ExitInit, Executing, HandOver, ForkInv, ForkPCs,
     InitAlive
<1>21. ASSUME NEW c \in CPUs, NEW p \in Slots, Exit(c, p)
      PROVE  ParentInv'
  BY <1>0, <1>21 DEF Exit, Executing, Goto, Wakeup1, ExitWakes, Adopted,
     Zombies, Children, HandOver, ForkInv, ForkPCs, InitAlive
<1>22. ASSUME NEW c \in CPUs, NEW p \in Slots, ExitSched(c, p)
      PROVE  ParentInv'
  BY <1>0, <1>22 DEF ExitSched, Goto, HandOver, ForkInv, ForkPCs, InitAlive
<1>23. ASSUME NEW c \in CPUs, NEW p \in Slots, Kill(c, p)
      PROVE  ParentInv'
  BY <1>0, <1>23 DEF Kill, Executing, Goto, Named, WakeKilled, HandOver,
     ForkInv, ForkPCs, InitAlive
<1>24. ASSUME NEW c \in CPUs, NEW p \in Slots, SysSleep(c, p)
      PROVE  ParentInv'
  BY <1>0, <1>24 DEF SysSleep, Executing, Goto, HandOver, ForkInv, ForkPCs,
     InitAlive
<1>25. ASSUME NEW c \in CPUs, NEW p \in Slots, SleepOnTicks(c, p)
      PROVE  ParentInv'
  BY <1>0, <1>25 DEF SleepOnTicks, Executing, Goto, HandOver, ForkInv,
     ForkPCs, InitAlive
<1>26. ASSUME NEW c \in CPUs, NEW p \in Slots, SysSleepAgain(c, p)
      PROVE  ParentInv'
  BY <1>0, <1>26 DEF SysSleepAgain, Executing, Goto, HandOver, ForkInv,
     ForkPCs, InitAlive
<1>27. CASE UNCHANGED vars
  BY <1>0, <1>27 DEF vars, HandOver, ForkInv, ForkPCs, InitAlive
<1>. QED
  BY <1>1, <1>2, <1>3, <1>4, <1>5, <1>6, <1>7, <1>8, <1>9, <1>10, <1>11,
     <1>12, <1>13, <1>14, <1>15, <1>16, <1>17, <1>18, <1>19, <1>20, <1>21,
     <1>22, <1>23, <1>24, <1>25, <1>26, <1>27
     DEF Next, SchedStep, TimerStep, KernelStep, UserStep

(* No wakeup of a process in wait() is lost.                               *)
LEMMA WaitJustifiedStep ==
  ASSUME IInv, [Next]_vars
  PROVE  WaitJustified'
<1>. USE DEF Null, idVars, cpuVars, lockVars, WaitJustified, Children,
         Zombies
<1>0. /\ state \in [Slots -> ProcStates]
      /\ proc \in [CPUs -> Slots \cup {Null}]
      /\ pc \in [Slots -> PCs]
      /\ chan \in [Slots -> Slots \cup {Null, TicksChan}]
      /\ np \in [Slots -> Slots \cup {Null}]
      /\ parent \in [Slots -> Slots \cup {Null}]
      /\ killed \in [Slots -> BOOLEAN]
      /\ NoCpu \notin CPUs
      /\ Null \notin Slots
      /\ InitProc \in Slots
      /\ HandOver
      /\ PcInv
      /\ ForkInv
      /\ ParentInv
      /\ ParentAlive
      /\ WaitJustified
  BY ProcAssumption, InitSlot, NullNotSlot DEF IInv, TypeOK, SwitchSafe, ProcAssumption
<1>1. ASSUME NEW c \in CPUs, SchedStart(c)
      PROVE  WaitJustified'
  BY <1>0, <1>1 DEF SchedStart, Idle, Runnable, Dispatch, HandOver, PcInv,
     ForkInv, ForkPCs, ParentAlive
<1>2. ASSUME NEW c \in CPUs, SchedNext(c)
      PROVE  WaitJustified'
  BY <1>0, <1>2 DEF SchedNext, RunnableAfter, Runnable, Dispatch, HandOver,
     PcInv, ForkInv, ForkPCs, ParentAlive
<1>3. ASSUME NEW c \in CPUs, Timer(c)
      PROVE  WaitJustified'
  BY <1>0, <1>3 DEF Timer, InterruptsOn, AfterTimer, HandOver, PcInv,
     ForkInv, ForkPCs, ParentAlive
<1>4. ASSUME NEW c \in CPUs, Tick(c)
      PROVE  WaitJustified'
  BY <1>0, <1>4 DEF Tick, InterruptsOn, TickDown, HandOver, PcInv, ForkInv,
     ForkPCs, ParentAlive
<1>5. ASSUME NEW c \in CPUs, TickWakeup(c)
      PROVE  WaitJustified'
  BY <1>0, <1>5 DEF TickWakeup, AfterTimer, Wakeup1, HandOver, PcInv,
     ForkInv, ForkPCs, ParentAlive
<1>6. ASSUME NEW c \in CPUs, NEW p \in Slots, Resume(c, p)
      PROVE  WaitJustified'
  BY <1>0, <1>6 DEF Resume, HandOver, PcInv, ForkInv, ForkPCs, ParentAlive
<1>7. ASSUME NEW c \in CPUs, NEW p \in Slots, Yield(c, p)
      PROVE  WaitJustified'
  BY <1>0, <1>7 DEF Yield, HandOver, PcInv, ForkInv, ForkPCs, ParentAlive
<1>8. ASSUME NEW c \in CPUs, NEW p \in Slots, SyscallEnter(c, p)
      PROVE  WaitJustified'
  BY <1>0, <1>8 DEF SyscallEnter, Executing, Goto, HandOver, PcInv, ForkInv,
     ForkPCs, ParentAlive
<1>9. ASSUME NEW c \in CPUs, NEW p \in Slots, TrapExit(c, p)
      PROVE  WaitJustified'
  BY <1>0, <1>9 DEF TrapExit, Executing, Goto, HandOver, PcInv, ForkInv,
     ForkPCs, ParentAlive
<1>10. ASSUME NEW c \in CPUs, NEW p \in Slots, TrapReturn(c, p)
      PROVE  WaitJustified'
  BY <1>0, <1>10 DEF TrapReturn, Executing, Goto, HandOver, PcInv, ForkInv,
     ForkPCs, ParentAlive
<1>11. ASSUME NEW c \in CPUs, NEW p \in Slots, Fault(c, p)
      PROVE  WaitJustified'
  BY <1>0, <1>11 DEF Fault, Executing, Goto, HandOver, PcInv, ForkInv,
     ForkPCs, ParentAlive
<1>12. ASSUME NEW c \in CPUs, NEW p \in Slots, ForkAllocSlot(c, p)
      PROVE  WaitJustified'
  BY <1>0, <1>12 DEF ForkAllocSlot, AllocPid, Executing, Unused, HandOver, PcInv,
     ForkInv, ForkPCs, ParentAlive
<1>13. ASSUME NEW c \in CPUs, NEW p \in Slots, ForkAllocStack(c, p)
      PROVE  WaitJustified'
  BY <1>0, <1>13 DEF ForkAllocStack, Executing, ForkFail, HandOver, PcInv,
     ForkInv, ForkPCs, ParentAlive
<1>14. ASSUME NEW c \in CPUs, NEW p \in Slots, ForkCopy(c, p)
      PROVE  WaitJustified'
  BY <1>0, <1>14 DEF ForkCopy, Executing, ForkFail, HandOver, PcInv,
     ForkInv, ForkPCs, ParentAlive
<1>15. ASSUME NEW c \in CPUs, NEW p \in Slots, ForkRunnable(c, p)
      PROVE  WaitJustified'
  BY <1>0, <1>15 DEF ForkRunnable, Executing, Goto, HandOver, PcInv,
     ForkInv, ForkPCs, ParentAlive
<1>16. ASSUME NEW c \in CPUs, NEW p \in Slots, WaitReap(c, p)
      PROVE  WaitJustified'
  BY <1>0, <1>16 DEF WaitReap, InWait, Zombies, Children, HandOver, PcInv,
     ForkInv, ForkPCs, ParentAlive
<1>17. ASSUME NEW c \in CPUs, NEW p \in Slots, WaitFail(c, p)
      PROVE  WaitJustified'
  BY <1>0, <1>17 DEF WaitFail, InWait, Zombies, Children, HandOver, PcInv,
     ForkInv, ForkPCs, ParentAlive
<1>18. ASSUME NEW c \in CPUs, NEW p \in Slots, WaitSleep(c, p)
      PROVE  WaitJustified'
  BY <1>0, <1>18 DEF WaitSleep, InWait, Zombies, Children, HandOver, PcInv,
     ForkInv, ForkPCs, ParentAlive
<1>19. ASSUME NEW c \in CPUs, NEW p \in Slots, SysExit(c, p)
      PROVE  WaitJustified'
  BY <1>0, <1>19 DEF SysExit, Executing, Goto, HandOver, PcInv, ForkInv,
     ForkPCs, ParentAlive
<1>20. ASSUME NEW c \in CPUs, NEW p \in Slots, ExitInit(c, p)
      PROVE  WaitJustified'
  BY <1>0, <1>20 DEF ExitInit, Executing, HandOver, PcInv, ForkInv, ForkPCs,
     ParentAlive
<1>21. ASSUME NEW c \in CPUs, NEW p \in Slots, Exit(c, p)
      PROVE  WaitJustified'
  <2>1. /\ state[p] = "RUNNING" /\ p # InitProc
        /\ state' = [Wakeup1(ExitWakes(p)) EXCEPT ![p] = "ZOMBIE"]
        /\ parent' = Adopted(p) /\ killed' = killed /\ chan' = chan
        /\ pc' = [pc EXCEPT ![p] = "exit2"]
    BY <1>0, <1>21 DEF Exit, Executing, Goto, HandOver
  <2>2. SUFFICES ASSUME NEW s \in Slots, state'[s] = "SLEEPING", pc'[s] = "wait"
                 PROVE  /\ \E q \in Slots : parent'[q] = s
                        /\ \A q \in Slots : parent'[q] = s => state'[q] # "ZOMBIE"
                        /\ ~ killed'[s]
    BY Zenon DEF WaitJustified, Children, Zombies
  <2>3. /\ s # p /\ state[s] = "SLEEPING" /\ pc[s] = "wait"
        /\ s \notin ExitWakes(p)
    BY <1>0, <2>1, <2>2 DEF Wakeup1, PcInv
  <2>4. /\ \E q \in Slots : parent[q] = s
        /\ \A q \in Slots : parent[q] = s => state[q] # "ZOMBIE"
        /\ ~ killed[s]
    BY <1>0, <2>3
  <2>5. s # parent[p] /\ (s = InitProc => Zombies(p) = {})
    BY <2>3 DEF ExitWakes
  <2>6. \A q \in Slots : parent'[q] = s =>
          q # p /\ (parent[q] = s \/ (s = InitProc /\ parent[q] = p))
    BY <1>0, <2>1, <2>3, <2>5 DEF Adopted, ParentInv
  <2>7. \A q \in Slots : q # p /\ state'[q] = "ZOMBIE" => state[q] = "ZOMBIE"
    BY <1>0, <2>1 DEF Wakeup1
  <2>8. \A q \in Slots : parent'[q] = s => state'[q] # "ZOMBIE"
    BY <2>4, <2>5, <2>6, <2>7
  <2>9. \E q \in Slots : parent'[q] = s
    BY <1>0, <2>1, <2>3, <2>4 DEF Adopted
  <2>. QED
    BY <2>1, <2>4, <2>8, <2>9
<1>22. ASSUME NEW c \in CPUs, NEW p \in Slots, ExitSched(c, p)
      PROVE  WaitJustified'
  BY <1>0, <1>22 DEF ExitSched, Goto, HandOver, PcInv, ForkInv, ForkPCs,
     ParentAlive
<1>23. ASSUME NEW c \in CPUs, NEW p \in Slots, Kill(c, p)
      PROVE  WaitJustified'
  BY <1>0, <1>23 DEF Kill, Executing, Goto, Named, WakeKilled, HandOver,
     PcInv, ForkInv, ForkPCs, ParentAlive
<1>24. ASSUME NEW c \in CPUs, NEW p \in Slots, SysSleep(c, p)
      PROVE  WaitJustified'
  BY <1>0, <1>24 DEF SysSleep, Executing, Goto, HandOver, PcInv, ForkInv,
     ForkPCs, ParentAlive
<1>25. ASSUME NEW c \in CPUs, NEW p \in Slots, SleepOnTicks(c, p)
      PROVE  WaitJustified'
  BY <1>0, <1>25 DEF SleepOnTicks, Executing, Goto, HandOver, PcInv,
     ForkInv, ForkPCs, ParentAlive
<1>26. ASSUME NEW c \in CPUs, NEW p \in Slots, SysSleepAgain(c, p)
      PROVE  WaitJustified'
  BY <1>0, <1>26 DEF SysSleepAgain, Executing, Goto, HandOver, PcInv,
     ForkInv, ForkPCs, ParentAlive
<1>27. CASE UNCHANGED vars
  BY <1>0, <1>27 DEF vars, HandOver, PcInv, ForkInv, ForkPCs, ParentAlive
<1>. QED
  BY <1>1, <1>2, <1>3, <1>4, <1>5, <1>6, <1>7, <1>8, <1>9, <1>10, <1>11,
     <1>12, <1>13, <1>14, <1>15, <1>16, <1>17, <1>18, <1>19, <1>20, <1>21,
     <1>22, <1>23, <1>24, <1>25, <1>26, <1>27
     DEF Next, SchedStep, TimerStep, KernelStep, UserStep

(* Who holds tickslock.                                                    *)
LEMMA TickInvStep ==
  ASSUME IInv, [Next]_vars
  PROVE  TickInv'
<1>. USE DEF Null, idVars, cpuVars, lockVars, TickInv
<1>0. /\ state \in [Slots -> ProcStates]
      /\ proc \in [CPUs -> Slots \cup {Null}]
      /\ mode \in [CPUs -> Modes]
      /\ pc \in [Slots -> PCs]
      /\ np \in [Slots -> Slots \cup {Null}]
      /\ left \in [Slots -> 0 .. MaxSleep]
      /\ ptlock \in CPUs \cup {NoCpu}
      /\ NoCpu \notin CPUs
      /\ Null \notin Slots
      /\ InitProc \in Slots
      /\ OneCpu
      /\ HandOver
      /\ ForkInv
      /\ PcInv
      /\ TickInv
  BY ProcAssumption, InitSlot, NullNotSlot DEF IInv, TypeOK, SwitchSafe, ProcAssumption
<1>1. ASSUME NEW c \in CPUs, SchedStart(c)
      PROVE  TickInv'
  BY <1>0, <1>1 DEF SchedStart, Idle, Runnable, Dispatch, OneCpu, HandOver,
     ForkInv, ForkPCs, PcInv
<1>2. ASSUME NEW c \in CPUs, SchedNext(c)
      PROVE  TickInv'
  BY <1>0, <1>2 DEF SchedNext, RunnableAfter, Runnable, Dispatch, OneCpu,
     HandOver, ForkInv, ForkPCs, PcInv
<1>3. ASSUME NEW c \in CPUs, Timer(c)
      PROVE  TickInv'
  BY <1>0, <1>3 DEF Timer, InterruptsOn, AfterTimer, OneCpu, HandOver,
     ForkInv, ForkPCs, PcInv
<1>4. ASSUME NEW c \in CPUs, Tick(c)
      PROVE  TickInv'
  BY <1>0, <1>4 DEF Tick, InterruptsOn, TickDown, OneCpu, HandOver, ForkInv,
     ForkPCs, PcInv
<1>5. ASSUME NEW c \in CPUs, TickWakeup(c)
      PROVE  TickInv'
  BY <1>0, <1>5 DEF TickWakeup, AfterTimer, Wakeup1, OneCpu, HandOver,
     ForkInv, ForkPCs, PcInv
<1>6. ASSUME NEW c \in CPUs, NEW p \in Slots, Resume(c, p)
      PROVE  TickInv'
  BY <1>0, <1>6 DEF Resume, OneCpu, HandOver, ForkInv, ForkPCs, PcInv
<1>7. ASSUME NEW c \in CPUs, NEW p \in Slots, Yield(c, p)
      PROVE  TickInv'
  BY <1>0, <1>7 DEF Yield, OneCpu, HandOver, ForkInv, ForkPCs, PcInv
<1>8. ASSUME NEW c \in CPUs, NEW p \in Slots, SyscallEnter(c, p)
      PROVE  TickInv'
  BY <1>0, <1>8 DEF SyscallEnter, Executing, Goto, OneCpu, HandOver,
     ForkInv, ForkPCs, PcInv
<1>9. ASSUME NEW c \in CPUs, NEW p \in Slots, TrapExit(c, p)
      PROVE  TickInv'
  BY <1>0, <1>9 DEF TrapExit, Executing, Goto, OneCpu, HandOver, ForkInv,
     ForkPCs, PcInv
<1>10. ASSUME NEW c \in CPUs, NEW p \in Slots, TrapReturn(c, p)
      PROVE  TickInv'
  BY <1>0, <1>10 DEF TrapReturn, Executing, Goto, OneCpu, HandOver, ForkInv,
     ForkPCs, PcInv
<1>11. ASSUME NEW c \in CPUs, NEW p \in Slots, Fault(c, p)
      PROVE  TickInv'
  BY <1>0, <1>11 DEF Fault, Executing, Goto, OneCpu, HandOver, ForkInv,
     ForkPCs, PcInv
<1>12. ASSUME NEW c \in CPUs, NEW p \in Slots, ForkAllocSlot(c, p)
      PROVE  TickInv'
  BY <1>0, <1>12 DEF ForkAllocSlot, AllocPid, Executing, Unused, OneCpu, HandOver,
     ForkInv, ForkPCs, PcInv
<1>13. ASSUME NEW c \in CPUs, NEW p \in Slots, ForkAllocStack(c, p)
      PROVE  TickInv'
  BY <1>0, <1>13 DEF ForkAllocStack, Executing, ForkFail, OneCpu, HandOver,
     ForkInv, ForkPCs, PcInv
<1>14. ASSUME NEW c \in CPUs, NEW p \in Slots, ForkCopy(c, p)
      PROVE  TickInv'
  BY <1>0, <1>14 DEF ForkCopy, Executing, ForkFail, OneCpu, HandOver,
     ForkInv, ForkPCs, PcInv
<1>15. ASSUME NEW c \in CPUs, NEW p \in Slots, ForkRunnable(c, p)
      PROVE  TickInv'
  BY <1>0, <1>15 DEF ForkRunnable, Executing, Goto, OneCpu, HandOver,
     ForkInv, ForkPCs, PcInv
<1>16. ASSUME NEW c \in CPUs, NEW p \in Slots, WaitReap(c, p)
      PROVE  TickInv'
  BY <1>0, <1>16 DEF WaitReap, InWait, Zombies, Children, OneCpu, HandOver,
     ForkInv, ForkPCs, PcInv
<1>17. ASSUME NEW c \in CPUs, NEW p \in Slots, WaitFail(c, p)
      PROVE  TickInv'
  BY <1>0, <1>17 DEF WaitFail, InWait, Zombies, Children, OneCpu, HandOver,
     ForkInv, ForkPCs, PcInv
<1>18. ASSUME NEW c \in CPUs, NEW p \in Slots, WaitSleep(c, p)
      PROVE  TickInv'
  BY <1>0, <1>18 DEF WaitSleep, InWait, Zombies, Children, OneCpu, HandOver,
     ForkInv, ForkPCs, PcInv
<1>19. ASSUME NEW c \in CPUs, NEW p \in Slots, SysExit(c, p)
      PROVE  TickInv'
  BY <1>0, <1>19 DEF SysExit, Executing, Goto, OneCpu, HandOver, ForkInv,
     ForkPCs, PcInv
<1>20. ASSUME NEW c \in CPUs, NEW p \in Slots, ExitInit(c, p)
      PROVE  TickInv'
  BY <1>0, <1>20 DEF ExitInit, Executing, OneCpu, HandOver, ForkInv,
     ForkPCs, PcInv
<1>21. ASSUME NEW c \in CPUs, NEW p \in Slots, Exit(c, p)
      PROVE  TickInv'
  BY <1>0, <1>21 DEF Exit, Executing, Goto, Wakeup1, ExitWakes, Adopted,
     Zombies, Children, OneCpu, HandOver, ForkInv, ForkPCs, PcInv
<1>22. ASSUME NEW c \in CPUs, NEW p \in Slots, ExitSched(c, p)
      PROVE  TickInv'
  BY <1>0, <1>22 DEF ExitSched, Goto, OneCpu, HandOver, ForkInv, ForkPCs,
     PcInv
<1>23. ASSUME NEW c \in CPUs, NEW p \in Slots, Kill(c, p)
      PROVE  TickInv'
  BY <1>0, <1>23 DEF Kill, Executing, Goto, Named, WakeKilled, OneCpu,
     HandOver, ForkInv, ForkPCs, PcInv
<1>24. ASSUME NEW c \in CPUs, NEW p \in Slots, SysSleep(c, p)
      PROVE  TickInv'
  BY <1>0, <1>24 DEF SysSleep, Executing, Goto, OneCpu, HandOver, ForkInv,
     ForkPCs, PcInv
<1>25. ASSUME NEW c \in CPUs, NEW p \in Slots, SleepOnTicks(c, p)
      PROVE  TickInv'
  BY <1>0, <1>25 DEF SleepOnTicks, Executing, Goto, OneCpu, HandOver,
     ForkInv, ForkPCs, PcInv
<1>26. ASSUME NEW c \in CPUs, NEW p \in Slots, SysSleepAgain(c, p)
      PROVE  TickInv'
  BY <1>0, <1>26 DEF SysSleepAgain, Executing, Goto, OneCpu, HandOver,
     ForkInv, ForkPCs, PcInv
<1>27. CASE UNCHANGED vars
  BY <1>0, <1>27 DEF vars, OneCpu, HandOver, ForkInv, ForkPCs, PcInv
<1>. QED
  BY <1>1, <1>2, <1>3, <1>4, <1>5, <1>6, <1>7, <1>8, <1>9, <1>10, <1>11,
     <1>12, <1>13, <1>14, <1>15, <1>16, <1>17, <1>18, <1>19, <1>20, <1>21,
     <1>22, <1>23, <1>24, <1>25, <1>26, <1>27
     DEF Next, SchedStep, TimerStep, KernelStep, UserStep

(* No wakeup of a process in sys_sleep() is lost.                          *)
LEMMA SleepJustifiedStep ==
  ASSUME IInv, [Next]_vars
  PROVE  SleepJustified'
<1>. USE DEF Null, idVars, cpuVars, lockVars, SleepJustified
<1>0. /\ state \in [Slots -> ProcStates]
      /\ proc \in [CPUs -> Slots \cup {Null}]
      /\ mode \in [CPUs -> Modes]
      /\ pc \in [Slots -> PCs]
      /\ chan \in [Slots -> Slots \cup {Null, TicksChan}]
      /\ np \in [Slots -> Slots \cup {Null}]
      /\ left \in [Slots -> 0 .. MaxSleep]
      /\ NoCpu \notin CPUs
      /\ Null \notin Slots
      /\ InitProc \in Slots
      /\ HandOver
      /\ ForkInv
      /\ PcInv
      /\ TickInv
      /\ SleepJustified
  BY ProcAssumption, InitSlot, NullNotSlot DEF IInv, TypeOK, SwitchSafe, ProcAssumption
<1>1. ASSUME NEW c \in CPUs, SchedStart(c)
      PROVE  SleepJustified'
  BY <1>0, <1>1 DEF SchedStart, Idle, Runnable, Dispatch, HandOver, ForkInv,
     ForkPCs, PcInv, TickInv
<1>2. ASSUME NEW c \in CPUs, SchedNext(c)
      PROVE  SleepJustified'
  BY <1>0, <1>2 DEF SchedNext, RunnableAfter, Runnable, Dispatch, HandOver,
     ForkInv, ForkPCs, PcInv, TickInv
<1>3. ASSUME NEW c \in CPUs, Timer(c)
      PROVE  SleepJustified'
  BY <1>0, <1>3 DEF Timer, InterruptsOn, AfterTimer, HandOver, ForkInv,
     ForkPCs, PcInv, TickInv
<1>4. ASSUME NEW c \in CPUs, Tick(c)
      PROVE  SleepJustified'
  BY <1>0, <1>4 DEF Tick, InterruptsOn, TickDown, HandOver, ForkInv,
     ForkPCs, PcInv, TickInv
<1>5. ASSUME NEW c \in CPUs, TickWakeup(c)
      PROVE  SleepJustified'
  BY <1>0, <1>5 DEF TickWakeup, AfterTimer, Wakeup1, HandOver, ForkInv,
     ForkPCs, PcInv, TickInv
<1>6. ASSUME NEW c \in CPUs, NEW p \in Slots, Resume(c, p)
      PROVE  SleepJustified'
  BY <1>0, <1>6 DEF Resume, HandOver, ForkInv, ForkPCs, PcInv, TickInv
<1>7. ASSUME NEW c \in CPUs, NEW p \in Slots, Yield(c, p)
      PROVE  SleepJustified'
  BY <1>0, <1>7 DEF Yield, HandOver, ForkInv, ForkPCs, PcInv, TickInv
<1>8. ASSUME NEW c \in CPUs, NEW p \in Slots, SyscallEnter(c, p)
      PROVE  SleepJustified'
  BY <1>0, <1>8 DEF SyscallEnter, Executing, Goto, HandOver, ForkInv,
     ForkPCs, PcInv, TickInv
<1>9. ASSUME NEW c \in CPUs, NEW p \in Slots, TrapExit(c, p)
      PROVE  SleepJustified'
  BY <1>0, <1>9 DEF TrapExit, Executing, Goto, HandOver, ForkInv, ForkPCs,
     PcInv, TickInv
<1>10. ASSUME NEW c \in CPUs, NEW p \in Slots, TrapReturn(c, p)
      PROVE  SleepJustified'
  BY <1>0, <1>10 DEF TrapReturn, Executing, Goto, HandOver, ForkInv,
     ForkPCs, PcInv, TickInv
<1>11. ASSUME NEW c \in CPUs, NEW p \in Slots, Fault(c, p)
      PROVE  SleepJustified'
  BY <1>0, <1>11 DEF Fault, Executing, Goto, HandOver, ForkInv, ForkPCs,
     PcInv, TickInv
<1>12. ASSUME NEW c \in CPUs, NEW p \in Slots, ForkAllocSlot(c, p)
      PROVE  SleepJustified'
  BY <1>0, <1>12 DEF ForkAllocSlot, AllocPid, Executing, Unused, HandOver, ForkInv,
     ForkPCs, PcInv, TickInv
<1>13. ASSUME NEW c \in CPUs, NEW p \in Slots, ForkAllocStack(c, p)
      PROVE  SleepJustified'
  BY <1>0, <1>13 DEF ForkAllocStack, Executing, ForkFail, HandOver, ForkInv,
     ForkPCs, PcInv, TickInv
<1>14. ASSUME NEW c \in CPUs, NEW p \in Slots, ForkCopy(c, p)
      PROVE  SleepJustified'
  BY <1>0, <1>14 DEF ForkCopy, Executing, ForkFail, HandOver, ForkInv,
     ForkPCs, PcInv, TickInv
<1>15. ASSUME NEW c \in CPUs, NEW p \in Slots, ForkRunnable(c, p)
      PROVE  SleepJustified'
  BY <1>0, <1>15 DEF ForkRunnable, Executing, Goto, HandOver, ForkInv,
     ForkPCs, PcInv, TickInv
<1>16. ASSUME NEW c \in CPUs, NEW p \in Slots, WaitReap(c, p)
      PROVE  SleepJustified'
  BY <1>0, <1>16 DEF WaitReap, InWait, Zombies, Children, HandOver, ForkInv,
     ForkPCs, PcInv, TickInv
<1>17. ASSUME NEW c \in CPUs, NEW p \in Slots, WaitFail(c, p)
      PROVE  SleepJustified'
  BY <1>0, <1>17 DEF WaitFail, InWait, Zombies, Children, HandOver, ForkInv,
     ForkPCs, PcInv, TickInv
<1>18. ASSUME NEW c \in CPUs, NEW p \in Slots, WaitSleep(c, p)
      PROVE  SleepJustified'
  BY <1>0, <1>18 DEF WaitSleep, InWait, Zombies, Children, HandOver,
     ForkInv, ForkPCs, PcInv, TickInv
<1>19. ASSUME NEW c \in CPUs, NEW p \in Slots, SysExit(c, p)
      PROVE  SleepJustified'
  BY <1>0, <1>19 DEF SysExit, Executing, Goto, HandOver, ForkInv, ForkPCs,
     PcInv, TickInv
<1>20. ASSUME NEW c \in CPUs, NEW p \in Slots, ExitInit(c, p)
      PROVE  SleepJustified'
  BY <1>0, <1>20 DEF ExitInit, Executing, HandOver, ForkInv, ForkPCs, PcInv,
     TickInv
<1>21. ASSUME NEW c \in CPUs, NEW p \in Slots, Exit(c, p)
      PROVE  SleepJustified'
  BY <1>0, <1>21 DEF Exit, Executing, Goto, Wakeup1, ExitWakes, Adopted,
     Zombies, Children, HandOver, ForkInv, ForkPCs, PcInv, TickInv
<1>22. ASSUME NEW c \in CPUs, NEW p \in Slots, ExitSched(c, p)
      PROVE  SleepJustified'
  BY <1>0, <1>22 DEF ExitSched, Goto, HandOver, ForkInv, ForkPCs, PcInv,
     TickInv
<1>23. ASSUME NEW c \in CPUs, NEW p \in Slots, Kill(c, p)
      PROVE  SleepJustified'
  BY <1>0, <1>23 DEF Kill, Executing, Goto, Named, WakeKilled, HandOver,
     ForkInv, ForkPCs, PcInv, TickInv
<1>24. ASSUME NEW c \in CPUs, NEW p \in Slots, SysSleep(c, p)
      PROVE  SleepJustified'
  BY <1>0, <1>24 DEF SysSleep, Executing, Goto, HandOver, ForkInv, ForkPCs,
     PcInv, TickInv
<1>25. ASSUME NEW c \in CPUs, NEW p \in Slots, SleepOnTicks(c, p)
      PROVE  SleepJustified'
  BY <1>0, <1>25 DEF SleepOnTicks, Executing, Goto, HandOver, ForkInv,
     ForkPCs, PcInv, TickInv
<1>26. ASSUME NEW c \in CPUs, NEW p \in Slots, SysSleepAgain(c, p)
      PROVE  SleepJustified'
  BY <1>0, <1>26 DEF SysSleepAgain, Executing, Goto, HandOver, ForkInv,
     ForkPCs, PcInv, TickInv
<1>27. CASE UNCHANGED vars
  BY <1>0, <1>27 DEF vars, HandOver, ForkInv, ForkPCs, PcInv, TickInv
<1>. QED
  BY <1>1, <1>2, <1>3, <1>4, <1>5, <1>6, <1>7, <1>8, <1>9, <1>10, <1>11,
     <1>12, <1>13, <1>14, <1>15, <1>16, <1>17, <1>18, <1>19, <1>20, <1>21,
     <1>22, <1>23, <1>24, <1>25, <1>26, <1>27
     DEF Next, SchedStep, TimerStep, KernelStep, UserStep

(* A zombie is freed by the wait() of its parent only.                     *)
LEMMA ReapStep ==
  ASSUME IInv, [Next]_vars
  PROVE  ReapAction
<1>. USE DEF Null, idVars, cpuVars, lockVars, ReapAction
<1>0. /\ state \in [Slots -> ProcStates]
      /\ proc \in [CPUs -> Slots \cup {Null}]
      /\ ptlock \in CPUs \cup {NoCpu}
      /\ np \in [Slots -> Slots \cup {Null}]
      /\ parent \in [Slots -> Slots \cup {Null}]
      /\ NoCpu \notin CPUs
      /\ Null \notin Slots
      /\ InitProc \in Slots
      /\ OneCpu
      /\ HandOver
      /\ ForkInv
  BY ProcAssumption, InitSlot, NullNotSlot DEF IInv, TypeOK, SwitchSafe, ProcAssumption
<1>1. ASSUME NEW c \in CPUs, SchedStart(c)
      PROVE  ReapAction
  BY <1>0, <1>1 DEF SchedStart, Idle, Runnable, Dispatch, HandOver, ForkInv,
     ForkPCs
<1>2. ASSUME NEW c \in CPUs, SchedNext(c)
      PROVE  ReapAction
  BY <1>0, <1>2 DEF SchedNext, RunnableAfter, Runnable, Dispatch, HandOver,
     ForkInv, ForkPCs
<1>3. ASSUME NEW c \in CPUs, Timer(c)
      PROVE  ReapAction
  BY <1>0, <1>3 DEF Timer, InterruptsOn, AfterTimer, HandOver, ForkInv,
     ForkPCs
<1>4. ASSUME NEW c \in CPUs, Tick(c)
      PROVE  ReapAction
  BY <1>0, <1>4 DEF Tick, InterruptsOn, TickDown, HandOver, ForkInv, ForkPCs
<1>5. ASSUME NEW c \in CPUs, TickWakeup(c)
      PROVE  ReapAction
  BY <1>0, <1>5 DEF TickWakeup, AfterTimer, Wakeup1, HandOver, ForkInv,
     ForkPCs
<1>6. ASSUME NEW c \in CPUs, NEW p \in Slots, Resume(c, p)
      PROVE  ReapAction
  BY <1>0, <1>6 DEF Resume, HandOver, ForkInv, ForkPCs
<1>7. ASSUME NEW c \in CPUs, NEW p \in Slots, Yield(c, p)
      PROVE  ReapAction
  BY <1>0, <1>7 DEF Yield, HandOver, ForkInv, ForkPCs
<1>8. ASSUME NEW c \in CPUs, NEW p \in Slots, SyscallEnter(c, p)
      PROVE  ReapAction
  BY <1>0, <1>8 DEF SyscallEnter, Executing, Goto, HandOver, ForkInv, ForkPCs
<1>9. ASSUME NEW c \in CPUs, NEW p \in Slots, TrapExit(c, p)
      PROVE  ReapAction
  BY <1>0, <1>9 DEF TrapExit, Executing, Goto, HandOver, ForkInv, ForkPCs
<1>10. ASSUME NEW c \in CPUs, NEW p \in Slots, TrapReturn(c, p)
      PROVE  ReapAction
  BY <1>0, <1>10 DEF TrapReturn, Executing, Goto, HandOver, ForkInv, ForkPCs
<1>11. ASSUME NEW c \in CPUs, NEW p \in Slots, Fault(c, p)
      PROVE  ReapAction
  BY <1>0, <1>11 DEF Fault, Executing, Goto, HandOver, ForkInv, ForkPCs
<1>12. ASSUME NEW c \in CPUs, NEW p \in Slots, ForkAllocSlot(c, p)
      PROVE  ReapAction
  BY <1>0, <1>12 DEF ForkAllocSlot, AllocPid, Executing, Unused, HandOver, ForkInv,
     ForkPCs
<1>13. ASSUME NEW c \in CPUs, NEW p \in Slots, ForkAllocStack(c, p)
      PROVE  ReapAction
  BY <1>0, <1>13 DEF ForkAllocStack, Executing, ForkFail, HandOver, ForkInv,
     ForkPCs
<1>14. ASSUME NEW c \in CPUs, NEW p \in Slots, ForkCopy(c, p)
      PROVE  ReapAction
  BY <1>0, <1>14 DEF ForkCopy, Executing, ForkFail, HandOver, ForkInv,
     ForkPCs
<1>15. ASSUME NEW c \in CPUs, NEW p \in Slots, ForkRunnable(c, p)
      PROVE  ReapAction
  BY <1>0, <1>15 DEF ForkRunnable, Executing, Goto, HandOver, ForkInv,
     ForkPCs
<1>16. ASSUME NEW c \in CPUs, NEW p \in Slots, WaitReap(c, p)
      PROVE  ReapAction
  BY <1>0, <1>16 DEF WaitReap, InWait, Zombies, Children, HandOver, ForkInv, ForkPCs
<1>17. ASSUME NEW c \in CPUs, NEW p \in Slots, WaitFail(c, p)
      PROVE  ReapAction
  BY <1>0, <1>17 DEF WaitFail, InWait, Zombies, Children, HandOver, ForkInv,
     ForkPCs
<1>18. ASSUME NEW c \in CPUs, NEW p \in Slots, WaitSleep(c, p)
      PROVE  ReapAction
  BY <1>0, <1>18 DEF WaitSleep, InWait, Zombies, Children, HandOver,
     ForkInv, ForkPCs
<1>19. ASSUME NEW c \in CPUs, NEW p \in Slots, SysExit(c, p)
      PROVE  ReapAction
  BY <1>0, <1>19 DEF SysExit, Executing, Goto, HandOver, ForkInv, ForkPCs
<1>20. ASSUME NEW c \in CPUs, NEW p \in Slots, ExitInit(c, p)
      PROVE  ReapAction
  BY <1>0, <1>20 DEF ExitInit, Executing, HandOver, ForkInv, ForkPCs
<1>21. ASSUME NEW c \in CPUs, NEW p \in Slots, Exit(c, p)
      PROVE  ReapAction
  BY <1>0, <1>21 DEF Exit, Executing, Goto, Wakeup1, ExitWakes, Adopted,
     Zombies, Children, HandOver, ForkInv, ForkPCs
<1>22. ASSUME NEW c \in CPUs, NEW p \in Slots, ExitSched(c, p)
      PROVE  ReapAction
  BY <1>0, <1>22 DEF ExitSched, Goto, HandOver, ForkInv, ForkPCs
<1>23. ASSUME NEW c \in CPUs, NEW p \in Slots, Kill(c, p)
      PROVE  ReapAction
  BY <1>0, <1>23 DEF Kill, Executing, Goto, Named, WakeKilled, HandOver,
     ForkInv, ForkPCs
<1>24. ASSUME NEW c \in CPUs, NEW p \in Slots, SysSleep(c, p)
      PROVE  ReapAction
  BY <1>0, <1>24 DEF SysSleep, Executing, Goto, HandOver, ForkInv, ForkPCs
<1>25. ASSUME NEW c \in CPUs, NEW p \in Slots, SleepOnTicks(c, p)
      PROVE  ReapAction
  BY <1>0, <1>25 DEF SleepOnTicks, Executing, Goto, HandOver, ForkInv,
     ForkPCs
<1>26. ASSUME NEW c \in CPUs, NEW p \in Slots, SysSleepAgain(c, p)
      PROVE  ReapAction
  BY <1>0, <1>26 DEF SysSleepAgain, Executing, Goto, HandOver, ForkInv,
     ForkPCs
<1>27. CASE UNCHANGED vars
  BY <1>0, <1>27 DEF vars, HandOver, ForkInv, ForkPCs
<1>. QED
  BY <1>1, <1>2, <1>3, <1>4, <1>5, <1>6, <1>7, <1>8, <1>9, <1>10, <1>11,
     <1>12, <1>13, <1>14, <1>15, <1>16, <1>17, <1>18, <1>19, <1>20, <1>21,
     <1>22, <1>23, <1>24, <1>25, <1>26, <1>27
     DEF Next, SchedStep, TimerStep, KernelStep, UserStep

-----------------------------------------------------------------------------
(* The theorems                                                            *)

(* userinit() leaves the table in a state that satisfies IInv.             *)
LEMMA InitIInv == Init => IInv
<1>. SUFFICES ASSUME Init PROVE IInv
  OBVIOUS
<1>. USE DEF Null
<1>1. TypeOK
  BY InitTypeOK
<1>2. /\ \A p \in Slots : state[p] = IF p = InitProc THEN "RUNNABLE" ELSE "UNUSED"
      /\ \A p \in Slots : pc[p] = IF p = InitProc THEN "forkret" ELSE "none"
      /\ \A p \in Slots : pid[p] = IF p = InitProc THEN 1 ELSE 0
      /\ \A p \in Slots : kstack[p] = (p = InitProc)
      /\ \A p \in Slots : parent[p] = 0 /\ np[p] = 0
      /\ \A c \in CPUs : proc[c] = 0 /\ mode[c] = "run"
      /\ ptlock = NoCpu /\ NoCpu \notin CPUs /\ nextpid = 2
      /\ InitProc \in Slots /\ 0 \notin Slots
  BY ProcAssumption, InitSlot, NullNotSlot DEF Init, ProcAssumption
<1>3. SwitchSafe
  BY <1>2 DEF SwitchSafe, OneCpu, RunningOnCpu, HandOver
<1>4. ForkInv /\ PcInv /\ CpuLive /\ InitAlive
  BY <1>2 DEF ForkInv, ForkPCs, PcInv, CpuLive, InitAlive
<1>5. StackLive /\ ParentInv /\ ParentAlive
  BY <1>2 DEF StackLive, ParentInv, ParentAlive, Live
<1>6. PidsUnique
  BY <1>2 DEF PidsUnique
<1>7. WaitJustified /\ TickInv /\ SleepJustified
  BY <1>2 DEF WaitJustified, TickInv, SleepJustified
<1>. QED
  BY <1>1, <1>3, <1>4, <1>5, <1>6, <1>7 DEF IInv

(* Every action of the kernel preserves IInv.                              *)
LEMMA StepIInv == IInv /\ [Next]_vars => IInv'
<1>. SUFFICES ASSUME IInv, [Next]_vars PROVE IInv'
  OBVIOUS
<1>1. TypeOK'
  BY StepTypeOK DEF IInv
<1>. QED
  BY <1>1, SwitchSafeStep, PcInvStep, InitAliveStep, CpuLiveStep, StackLiveStep,
     PidsUniqueStep, ForkInvStep, ParentInvStep, ParentAliveStep,
     WaitJustifiedStep, TickInvStep, SleepJustifiedStep DEF IInv

(* IInv holds in every reachable state of the process table.               *)
THEOREM Invariant == Spec => []IInv
<1>. QED
  BY InitIInv, StepIInv, PTL DEF Spec

(* scheduler(), sched() and swtch() never put two CPUs in one process, and *)
(* ptable.lock is held whenever a CPU is between a process and its         *)
(* scheduler (proc.c:440-459, :474-491).                                   *)
THEOREM SwitchSafety == Spec => []SwitchSafe
<1>1. IInv => SwitchSafe
  BY DEF IInv
<1>. QED
  BY <1>1, Invariant, PTL

(* wait() frees no stack under a CPU (proc.c:391), and the failure paths   *)
(* of fork() leave none in a free slot (proc.c:186, :288-292).             *)
THEOREM StackSafety == Spec => []StackLive
<1>1. IInv => StackLive
  BY DEF IInv
<1>. QED
  BY <1>1, Invariant, PTL

(* exit() leaves no child without a live parent (proc.c:350-357).          *)
THEOREM Parenthood == Spec => []ParentAlive
<1>1. IInv => ParentAlive
  BY DEF IInv
<1>. QED
  BY <1>1, Invariant, PTL

(* allocproc() gives no pid twice and wait() frees none in use             *)
(* (proc.c:177, :393).                                                     *)
THEOREM PidUniqueness == Spec => []PidsUnique
<1>1. IInv => PidsUnique
  BY DEF IInv
<1>. QED
  BY <1>1, Invariant, PTL

(* Neither exit() (proc.c:348-357) nor kill() (:597) leaves a process      *)
(* asleep in wait() that it should have woken.                             *)
THEOREM NoLostWakeup == Spec => []WaitJustified
<1>1. IInv => WaitJustified
  BY DEF IInv
<1>. QED
  BY <1>1, Invariant, PTL

(* The timer interrupt (trap.c:52-55) leaves no process asleep in          *)
(* sys_sleep() past its time, but the one it is about to wake.             *)
THEOREM NoLostTick == Spec => []SleepJustified
<1>1. IInv => SleepJustified
  BY DEF IInv
<1>. QED
  BY <1>1, Invariant, PTL

(* Only the wait() of its parent takes a zombie out of the table, and only *)
(* when no CPU is on its stack any more (proc.c:387-400).                  *)
THEOREM ReapSafety == Spec => ReapedByParent
<1>1. IInv /\ [Next]_vars => ReapAction
  BY ReapStep
<1>2. IInv /\ [Next]_vars => [ReapAction]_vars
  BY <1>1
<1>. QED
  BY <1>2, Invariant, PTL DEF Spec, ReapedByParent
=============================================================================
