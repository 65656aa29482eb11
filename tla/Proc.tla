-------------------------------- MODULE Proc --------------------------------
(***************************************************************************)
(* Processes of the xv6 kernel: proc.c (allocproc, fork, exit, wait, kill, *)
(* sleep, wakeup, yield, sched, scheduler), the trap and system-call paths *)
(* that call it (trap.c, syscall.c) and sys_sleep (sysproc.c).             *)
(*                                                                         *)
(* Every CPU runs either its scheduler (proc[c] = Null) or the process     *)
(* proc[c].  ptable.lock and tickslock are spinlocks whose holder is a CPU *)
(* and ptable.lock is handed across swtch(): the scheduler takes it and    *)
(* the process it switches to releases it, and the other way round.  A     *)
(* CPU that holds a spinlock takes no interrupt (pushcli).                 *)
(*                                                                         *)
(* Abstractions:                                                           *)
(*   - a critical section that needs one lock is one step; a lock that is  *)
(*     held while another one is acquired stays held over a step boundary; *)
(*   - user programs are arbitrary: in user mode a process may make any of *)
(*     the modelled system calls, fault, or loop;                          *)
(*   - memory is abstract: kalloc() and copyuvm() succeed or fail;         *)
(*   - ticks is kept as the ticks each sleeper still has to wait for;      *)
(*   - the console lock, files and the file system are not in this module. *)
(***************************************************************************)
EXTENDS Naturals

CONSTANTS
  NPROC,       \* size of the process table
  CPUs,        \* the processors
  BootCpu,     \* the one with cpuid() = 0: it alone advances ticks
  NoCpu,       \* "not held by any CPU"
  MaxPid,      \* bound: no process beyond this pid is created
  KillPids,    \* the arguments kill() is called with
  MaxSleep,    \* bound: the longest sleep() asked for, in ticks
  Lottery      \* TRUE: scheduler of Lottery/proc.c, FALSE: of RR/proc.c

ASSUME ProcAssumption ==
  /\ NPROC \in Nat \ {0}
  /\ BootCpu \in CPUs
  /\ NoCpu \notin CPUs
  /\ MaxPid \in Nat \ {0}
  /\ KillPids \subseteq Nat
  /\ MaxSleep \in Nat
  /\ Lottery \in BOOLEAN

Slots     == 1 .. NPROC        \* &ptable.proc[0] .. &ptable.proc[NPROC-1]
Null      == 0                 \* a null pointer (and a pid or chan of 0)
InitProc  == 1                 \* initproc: the first slot
TicksChan == NPROC + 1         \* &ticks, as a sleep channel

ProcStates == {"UNUSED", "EMBRYO", "SLEEPING", "RUNNABLE", "RUNNING", "ZOMBIE"}

(* Where a process is: in user code, at a point of a system call, or on    *)
(* its way into or out of the kernel.                                      *)
PCs == { "none",      \* the slot is free
         "user",      \* executing its program
         "syscall",   \* in syscall(), about to run the handler
         "fork2",     \* in allocproc(), slot taken, no stack yet
         "fork3",     \* in fork(), allocproc() done
         "fork4",     \* in fork(), about to make the child RUNNABLE
         "wait",      \* in the sleep() of wait()
         "sleep1",    \* in sys_sleep(), holding tickslock, calls sleep()
         "sleep2",    \* in the sleep() of sys_sleep()
         "sleep3",    \* about to reacquire tickslock
         "ret",       \* on the way back to user mode (trap.c:44, :109)
         "forkret",   \* a new process that has not run yet
         "exit",      \* in exit(), before acquire(&ptable.lock)
         "exit2",     \* in exit(), ZOMBIE, holding ptable.lock
         "dead" }     \* switched away from for the last time

VARIABLES
  state, pid, parent, chan, killed,   \* the fields of struct proc
  kstack,      \* has the slot a kernel stack
  pc,          \* where the process is
  np,          \* fork()'s local np: the child being made
  left,        \* ticks a sys_sleep() still has to wait for
  proc,        \* c->proc
  mode,        \* what the CPU does about interrupts
  ptlock,      \* CPU that holds ptable.lock
  tickslock,   \* CPU that holds tickslock
  nextpid,
  panicked     \* console.c: panicked

idVars   == <<pid, parent, kstack, nextpid>>
cpuVars  == <<proc, mode, panicked>>
lockVars == <<ptlock, tickslock>>

vars == <<state, chan, killed, pc, np, left, idVars, cpuVars, lockVars>>

Modes == { "run",     \* the code of proc[c], or of the scheduler
           "tick",    \* trap.c:53-54: tickslock held, wakeup pending
           "yield",   \* trap.c:106: about to yield
           "halt" }   \* in panic()

TypeOK ==
  /\ state \in [Slots -> ProcStates]
  /\ pid \in [Slots -> Nat]
  /\ parent \in [Slots -> Slots \cup {Null}]
  /\ chan \in [Slots -> Slots \cup {Null, TicksChan}]
  /\ killed \in [Slots -> BOOLEAN]
  /\ kstack \in [Slots -> BOOLEAN]
  /\ pc \in [Slots -> PCs]
  /\ np \in [Slots -> Slots \cup {Null}]
  /\ left \in [Slots -> 0 .. MaxSleep]
  /\ proc \in [CPUs -> Slots \cup {Null}]
  /\ mode \in [CPUs -> Modes]
  /\ ptlock \in CPUs \cup {NoCpu}
  /\ tickslock \in CPUs \cup {NoCpu}
  /\ nextpid \in Nat
  /\ panicked \in BOOLEAN

(* After userinit(): initproc is RUNNABLE and no CPU has picked it yet.    *)
Init ==
  /\ state = [p \in Slots |-> IF p = InitProc THEN "RUNNABLE" ELSE "UNUSED"]
  /\ pid = [p \in Slots |-> IF p = InitProc THEN 1 ELSE 0]
  /\ parent = [p \in Slots |-> Null]
  /\ chan = [p \in Slots |-> Null]
  /\ killed = [p \in Slots |-> FALSE]
  /\ kstack = [p \in Slots |-> p = InitProc]
  /\ pc = [p \in Slots |-> IF p = InitProc THEN "forkret" ELSE "none"]
  /\ np = [p \in Slots |-> Null]
  /\ left = [p \in Slots |-> 0]
  /\ proc = [c \in CPUs |-> Null]
  /\ mode = [c \in CPUs |-> "run"]
  /\ ptlock = NoCpu
  /\ tickslock = NoCpu
  /\ nextpid = 2
  /\ panicked = FALSE

-----------------------------------------------------------------------------
(* Control: which CPU runs which code.                                     *)

(* Process p executes on CPU c: c has switched to it and p has taken or    *)
(* given back the ptable.lock that came with the switch.                   *)
Executing(c, p) ==
  /\ mode[c] = "run"
  /\ proc[c] = p
  /\ ptlock # c

(* CPU c runs the scheduler's loop and holds no lock.                      *)
Idle(c) ==
  /\ mode[c] = "run"
  /\ proc[c] = Null
  /\ ptlock # c

(* p goes from one point of its code to another; nothing else moves.       *)
Goto(p, from, to) ==
  /\ pc[p] \in from
  /\ pc' = [pc EXCEPT ![p] = to]

(* Mutant of Wakeup1: only the first sleeper is woken.                     *)
M_Wakeup1(chans) ==
  [q \in Slots |->
     IF /\ state[q] = "SLEEPING" /\ chan[q] \in chans
        /\ \A r \in 1 .. q - 1 : ~ (state[r] = "SLEEPING" /\ chan[r] \in chans)
       THEN "RUNNABLE" ELSE state[q]]

(* wakeup1() on every channel of chans.                                    *)
Wakeup1(chans) ==
  [q \in Slots |-> IF state[q] = "SLEEPING" /\ chan[q] \in chans
                     THEN "RUNNABLE" ELSE state[q]]

-----------------------------------------------------------------------------
(* scheduler()                                                             *)

Runnable == {q \in Slots : state[q] = "RUNNABLE"}

(* c->proc = p; switchuvm(p); p->state = RUNNING; swtch().                 *)
Dispatch(c, p) ==
  /\ proc' = [proc EXCEPT ![c] = p]
  /\ state' = [state EXCEPT ![p] = "RUNNING"]

(* A new pass over the table.  RR starts with the first RUNNABLE process;  *)
(* the first one of a lottery pass is the winner of the draw, any of them. *)
SchedStart(c) ==
  /\ Idle(c)
  /\ ptlock = NoCpu
  /\ \E p \in Runnable :
       /\ Lottery \/ \A q \in Runnable : p <= q
       /\ Dispatch(c, p)
  /\ ptlock' = c
  /\ UNCHANGED <<chan, killed, pc, np, left,
                 mode, tickslock, panicked, idVars>>

(* Mutant of RunnableAfter: the pass starts over at every switch.          *)
M_RunnableAfter(p) == Runnable

(* Where the pass goes on: p++ after the switch to p.                      *)
RunnableAfter(p) == {q \in Runnable : q > p}

(* A process has called sched(): the pass goes on after its slot (chance   *)
(* is 0 from here on, so both schedulers take the next RUNNABLE process)   *)
(* or ends and the lock is released.                                       *)
SchedNext(c) ==
  /\ mode[c] = "run"
  /\ ptlock = c
  /\ proc[c] # Null
  /\ state[proc[c]] # "RUNNING"
  /\ pc[proc[c]] # "exit2"
  /\ LET rest == RunnableAfter(proc[c])
     IN \/ \E p \in rest :
             /\ \A q \in rest : p <= q
             /\ Dispatch(c, p)
             /\ UNCHANGED ptlock
        \/ /\ rest = {}
           /\ proc' = [proc EXCEPT ![c] = Null]
           /\ ptlock' = NoCpu
           /\ UNCHANGED state
  /\ UNCHANGED <<chan, killed, pc, np, left,
                 mode, tickslock, panicked, idVars>>

(* swtch() returned in p, in sched() called by yield() or by the sleep()   *)
(* of sys_sleep(), or p starts in forkret(): it releases ptable.lock.      *)
Resume(c, p) ==
  /\ mode[c] = "run"
  /\ proc[c] = p
  /\ ptlock = c
  /\ state[p] = "RUNNING"
  /\ pc[p] # "wait"
  /\ chan' = [chan EXCEPT ![p] = Null]
  /\ pc' = [pc EXCEPT ![p] = CASE @ = "sleep2"  -> "sleep3"
                               [] @ = "forkret" -> "user"
                               [] OTHER         -> @]
  /\ ptlock' = NoCpu
  /\ UNCHANGED <<state, killed, np, left, tickslock, idVars, cpuVars>>

-----------------------------------------------------------------------------
(* trap()                                                                  *)

(* A CPU takes interrupts when it holds no spinlock.                       *)
InterruptsOn(c) ==
  /\ mode[c] = "run"
  /\ ptlock # c
  /\ tickslock # c

(* The end of the timer interrupt, trap.c:97-106: a killed process that    *)
(* was in user mode exits, any other process yields.                       *)
AfterTimer(c) ==
  LET p == proc[c]
  IN \/ /\ p = Null
        /\ mode' = [mode EXCEPT ![c] = "run"]
        /\ UNCHANGED pc
     \/ /\ p # Null
        /\ pc[p] = "user" /\ killed[p]
        /\ mode' = [mode EXCEPT ![c] = "run"]
        /\ pc' = [pc EXCEPT ![p] = "exit"]
     \/ /\ p # Null
        /\ ~ (pc[p] = "user" /\ killed[p])
        /\ mode' = [mode EXCEPT ![c] = "yield"]
        /\ UNCHANGED pc

(* A timer interrupt on a CPU other than the boot CPU.                     *)
Timer(c) ==
  /\ InterruptsOn(c)
  /\ c # BootCpu
  /\ proc[c] # Null
  /\ AfterTimer(c)
  /\ UNCHANGED <<state, chan, killed, np, left,
                 proc, panicked, idVars, lockVars>>

(* ticks++, for the processes in sys_sleep().                              *)
TickDown == [p \in Slots |-> IF left[p] > 0 THEN left[p] - 1 ELSE 0]

(* A timer interrupt on the boot CPU: acquire(&tickslock); ticks++.        *)
Tick(c) ==
  /\ InterruptsOn(c)
  /\ c = BootCpu
  /\ tickslock = NoCpu
  /\ tickslock' = c
  /\ left' = TickDown
  /\ mode' = [mode EXCEPT ![c] = "tick"]
  /\ UNCHANGED <<state, chan, killed, pc, np, proc, ptlock, panicked, idVars>>

(* wakeup(&ticks); release(&tickslock).                                    *)
TickWakeup(c) ==
  /\ mode[c] = "tick"
  /\ ptlock = NoCpu
  /\ state' = Wakeup1({TicksChan})
  /\ tickslock' = NoCpu
  /\ AfterTimer(c)
  /\ UNCHANGED <<chan, killed, np, left, proc, ptlock, panicked, idVars>>

(* Mutant of Yield: ptable.lock is released before the switch.             *)
M_Yield(c, p) ==
  /\ mode[c] = "yield"
  /\ proc[c] = p
  /\ ptlock = NoCpu
  /\ mode' = [mode EXCEPT ![c] = "run"]
  /\ state' = [state EXCEPT ![p] = "RUNNABLE"]
  /\ pc' = [pc EXCEPT ![p] = IF @ = "user" THEN "ret" ELSE @]
  /\ UNCHANGED <<chan, killed, np, left, proc, ptlock, tickslock, panicked,
                 idVars>>

(* yield(), up to the swtch() of sched().                                  *)
Yield(c, p) ==
  /\ mode[c] = "yield"
  /\ proc[c] = p
  /\ ptlock = NoCpu
  /\ ptlock' = c
  /\ mode' = [mode EXCEPT ![c] = "run"]
  /\ state' = [state EXCEPT ![p] = "RUNNABLE"]
  /\ pc' = [pc EXCEPT ![p] = IF @ = "user" THEN "ret" ELSE @]
  /\ UNCHANGED <<chan, killed, np, left, proc, tickslock, panicked, idVars>>

(* A system call trap (trap.c:39-42), not yet in the handler.              *)
SyscallEnter(c, p) ==
  /\ Executing(c, p)
  /\ ~ killed[p]
  /\ Goto(p, {"user"}, "syscall")
  /\ UNCHANGED <<state, chan, killed, np, left, idVars, cpuVars, lockVars>>

(* if(myproc()->killed) exit(): at the entry of a system call (trap.c:40)  *)
(* and on the way back to user mode (:44, :97, :110).                      *)
TrapExit(c, p) ==
  /\ Executing(c, p)
  /\ killed[p]
  /\ Goto(p, {"user", "ret"}, "exit")
  /\ UNCHANGED <<state, chan, killed, np, left, idVars, cpuVars, lockVars>>

TrapReturn(c, p) ==
  /\ Executing(c, p)
  /\ ~ killed[p]
  /\ Goto(p, {"ret"}, "user")
  /\ UNCHANGED <<state, chan, killed, np, left, idVars, cpuVars, lockVars>>

(* The default case of trap(): a fault in user mode.  The message goes to  *)
(* the console, where a CPU stops for good after a panic.                  *)
Fault(c, p) ==
  /\ Executing(c, p)
  /\ ~ panicked
  /\ killed' = [killed EXCEPT ![p] = TRUE]
  /\ Goto(p, {"user"}, "exit")
  /\ UNCHANGED <<state, chan, np, left, idVars, cpuVars, lockVars>>

-----------------------------------------------------------------------------
(* fork()                                                                  *)

Unused == {q \in Slots : state[q] = "UNUSED"}

AllocPid(q) ==
  /\ pid' = [pid EXCEPT ![q] = nextpid]
  /\ nextpid' = nextpid + 1

(* allocproc(), under ptable.lock: take the first UNUSED slot; fork()      *)
(* returns -1 when there is none.                                          *)
ForkAllocSlot(c, p) ==
  /\ Executing(c, p)
  /\ ptlock = NoCpu
  /\ pc[p] = "syscall"
  /\ \/ \E q \in Unused :
          /\ \A r \in Unused : q <= r
          /\ nextpid <= MaxPid
          /\ state' = [state EXCEPT ![q] = "EMBRYO"]
          /\ AllocPid(q)
          /\ np' = [np EXCEPT ![p] = q]
          /\ pc' = [pc EXCEPT ![p] = "fork2"]
     \/ /\ Unused = {}
        /\ pc' = [pc EXCEPT ![p] = "ret"]
        /\ UNCHANGED <<state, pid, nextpid, np>>
  /\ UNCHANGED <<parent, chan, killed, kstack, left, cpuVars, lockVars>>

(* Mutant of ForkFail: np->kstack is not cleared.                          *)
M_ForkFailStack(p) ==
  /\ state' = [state EXCEPT ![np[p]] = "UNUSED"]
  /\ pc' = [pc EXCEPT ![p] = "ret", ![np[p]] = "none"]
  /\ np' = [np EXCEPT ![p] = Null]
  /\ UNCHANGED <<kstack, parent, nextpid>>

(* The failure paths of allocproc() and fork() give the slot back without  *)
(* ptable.lock, and leave pid and killed as they are.                      *)
ForkFail(p) ==
  /\ state' = [state EXCEPT ![np[p]] = "UNUSED"]
  /\ kstack' = [kstack EXCEPT ![np[p]] = FALSE]
  /\ pc' = [pc EXCEPT ![p] = "ret", ![np[p]] = "none"]
  /\ np' = [np EXCEPT ![p] = Null]
  /\ UNCHANGED <<parent, nextpid>>

(* allocproc(), after release(&ptable.lock): kalloc() fails, or the new    *)
(* stack is set up and tickslock is taken to read ticks.                   *)
ForkAllocStack(c, p) ==
  /\ Executing(c, p)
  /\ pc[p] = "fork2"
  /\ \/ ForkFail(p)
     \/ /\ tickslock = NoCpu
        /\ kstack' = [kstack EXCEPT ![np[p]] = TRUE]
        /\ pc' = [pc EXCEPT ![p] = "fork3", ![np[p]] = "forkret"]
        /\ UNCHANGED <<state, np, parent, nextpid>>
  /\ UNCHANGED <<pid, chan, killed, left, cpuVars, lockVars>>

(* fork(): copyuvm() fails, or np->parent is set and the child filled in.  *)
ForkCopy(c, p) ==
  /\ Executing(c, p)
  /\ pc[p] = "fork3"
  /\ \/ ForkFail(p)
     \/ /\ parent' = [parent EXCEPT ![np[p]] = p]
        /\ pc' = [pc EXCEPT ![p] = "fork4"]
        /\ UNCHANGED <<state, kstack, np, nextpid>>
  /\ UNCHANGED <<pid, chan, killed, left, cpuVars, lockVars>>

(* fork(): acquire, np->state = RUNNABLE, release.                         *)
ForkRunnable(c, p) ==
  /\ Executing(c, p)
  /\ ptlock = NoCpu
  /\ Goto(p, {"fork4"}, "ret")
  /\ state' = [state EXCEPT ![np[p]] = "RUNNABLE"]
  /\ np' = [np EXCEPT ![p] = Null]
  /\ UNCHANGED <<chan, killed, left, idVars, cpuVars, lockVars>>

-----------------------------------------------------------------------------
(* wait() and exit()                                                       *)

Children(p) == {q \in Slots : parent[q] = p}

(* Mutant of Zombies: wait() takes any process's child.                    *)
M_Zombies(p) == {q \in Slots : state[q] = "ZOMBIE"}

Zombies(p)  == {q \in Children(p) : state[q] = "ZOMBIE"}

(* p is in the loop of wait() with ptable.lock: it enters the call, or its *)
(* sleep() has returned (the scheduler passed the lock on).                *)
InWait(c, p) ==
  /\ mode[c] = "run"
  /\ proc[c] = p
  /\ state[p] = "RUNNING"
  /\ \/ pc[p] = "syscall" /\ ptlock = NoCpu
     \/ pc[p] = "wait" /\ ptlock = c

(* wait() finds a zombie child, the first in the table, and frees its slot.*)
WaitReap(c, p) ==
  /\ InWait(c, p)
  /\ \E q \in Zombies(p) :
       /\ \A r \in Zombies(p) : q <= r
       /\ kstack' = [kstack EXCEPT ![q] = FALSE]
       /\ pid' = [pid EXCEPT ![q] = 0]
       /\ parent' = [parent EXCEPT ![q] = Null]
       /\ killed' = [killed EXCEPT ![q] = FALSE]
       /\ state' = [state EXCEPT ![q] = "UNUSED"]
       /\ pc' = [pc EXCEPT ![p] = "ret", ![q] = "none"]
  /\ chan' = [chan EXCEPT ![p] = Null]
  /\ ptlock' = NoCpu
  /\ UNCHANGED <<np, left, tickslock, nextpid, cpuVars>>

(* wait() returns -1: no children, or the caller has been killed.          *)
WaitFail(c, p) ==
  /\ InWait(c, p)
  /\ Zombies(p) = {}
  /\ Children(p) = {} \/ killed[p]
  /\ pc' = [pc EXCEPT ![p] = "ret"]
  /\ chan' = [chan EXCEPT ![p] = Null]
  /\ ptlock' = NoCpu
  /\ UNCHANGED <<state, killed, np, left, tickslock, idVars, cpuVars>>

(* wait() sleeps on the caller's own struct proc: sleep() keeps ptable.lock*)
(* and the scheduler receives it.                                          *)
WaitSleep(c, p) ==
  /\ InWait(c, p)
  /\ Zombies(p) = {}
  /\ Children(p) # {}
  /\ ~ killed[p]
  /\ state' = [state EXCEPT ![p] = "SLEEPING"]
  /\ chan' = [chan EXCEPT ![p] = p]
  /\ pc' = [pc EXCEPT ![p] = "wait"]
  /\ ptlock' = c
  /\ UNCHANGED <<killed, np, left, tickslock, idVars, cpuVars>>

(* sys_exit()                                                              *)
SysExit(c, p) ==
  /\ Executing(c, p)
  /\ Goto(p, {"syscall"}, "exit")
  /\ UNCHANGED <<state, chan, killed, np, left, idVars, cpuVars, lockVars>>

(* exit() of initproc: panic("init exiting"), this CPU loops for ever.     *)
ExitInit(c, p) ==
  /\ Executing(c, p)
  /\ pc[p] = "exit"
  /\ p = InitProc
  /\ mode' = [mode EXCEPT ![c] = "halt"]
  /\ panicked' = TRUE
  /\ UNCHANGED <<state, chan, killed, pc, np, left, proc, idVars, lockVars>>

(* Mutant of ExitWakes: the parent of the zombie is not woken.             *)
M_ExitWakesParent(p) == IF Zombies(p) # {} THEN {InitProc} ELSE {}

(* The channels exit() wakes: the parent's, and init's if it inherits a    *)
(* zombie.                                                                 *)
ExitWakes(p) == {parent[p]} \cup (IF Zombies(p) # {} THEN {InitProc} ELSE {})

(* Mutant of Adopted: only the zombie children are passed on.              *)
M_Adopted(p) ==
  [q \in Slots |-> IF q \in Zombies(p) THEN InitProc ELSE parent[q]]

(* Pass abandoned children to init.                                        *)
Adopted(p) ==
  [q \in Slots |-> IF q \in Children(p) THEN InitProc ELSE parent[q]]

(* exit() of any other process, from acquire(&ptable.lock) to ZOMBIE: wake *)
(* the parent, pass the children to init and wake it if one is a zombie.   *)
Exit(c, p) ==
  /\ Executing(c, p)
  /\ ptlock = NoCpu
  /\ p # InitProc
  /\ Goto(p, {"exit"}, "exit2")
  /\ state' = [Wakeup1(ExitWakes(p)) EXCEPT ![p] = "ZOMBIE"]
  /\ parent' = Adopted(p)
  /\ ptlock' = c
  /\ UNCHANGED <<pid, chan, killed, kstack, np,
                 left, tickslock, nextpid, cpuVars>>

(* exit(), holding ptable.lock: tickslock for the turn-around time, a line *)
(* on the console (where a CPU stops after a panic), sched().              *)
ExitSched(c, p) ==
  /\ mode[c] = "run"
  /\ proc[c] = p
  /\ ptlock = c
  /\ tickslock = NoCpu
  /\ ~ panicked
  /\ Goto(p, {"exit2"}, "dead")
  /\ UNCHANGED <<state, chan, killed, np, left, idVars, cpuVars, lockVars>>

-----------------------------------------------------------------------------
(* kill() and sys_sleep()                                                  *)

Named(k) == {q \in Slots : pid[q] = k}

(* Mutant of WakeKilled: kill() does not wake a sleeping process.          *)
M_WakeKilled(q) == state

(* Wake process from sleep if necessary.                                   *)
WakeKilled(q) ==
  [state EXCEPT ![q] = IF @ = "SLEEPING" THEN "RUNNABLE" ELSE @]

(* kill(k): the first slot whose pid is k, whatever its state.             *)
Kill(c, p) ==
  /\ Executing(c, p)
  /\ ptlock = NoCpu
  /\ Goto(p, {"syscall"}, "ret")
  /\ \E k \in KillPids :
       \/ \E q \in Named(k) :
            /\ \A r \in Named(k) : q <= r
            /\ killed' = [killed EXCEPT ![q] = TRUE]
            /\ state' = WakeKilled(q)
       \/ Named(k) = {} /\ UNCHANGED <<killed, state>>
  /\ UNCHANGED <<chan, np, left, idVars, cpuVars, lockVars>>

(* sys_sleep(n), first iteration: acquire(&tickslock), then return at once *)
(* or go on to sleep() with the lock.                                      *)
SysSleep(c, p) ==
  /\ Executing(c, p)
  /\ tickslock = NoCpu
  /\ \E n \in 0 .. MaxSleep :
       \/ /\ n = 0 \/ killed[p]
          /\ Goto(p, {"syscall"}, "ret")
          /\ UNCHANGED <<left, tickslock>>
       \/ /\ n > 0 /\ ~ killed[p]
          /\ Goto(p, {"syscall"}, "sleep1")
          /\ left' = [left EXCEPT ![p] = n]
          /\ tickslock' = c
  /\ UNCHANGED <<state, chan, killed, np, ptlock, idVars, cpuVars>>

(* sleep(&ticks, &tickslock), up to the swtch() of sched().                *)
SleepOnTicks(c, p) ==
  /\ Executing(c, p)
  /\ ptlock = NoCpu
  /\ Goto(p, {"sleep1"}, "sleep2")
  /\ tickslock' = NoCpu
  /\ chan' = [chan EXCEPT ![p] = TicksChan]
  /\ state' = [state EXCEPT ![p] = "SLEEPING"]
  /\ ptlock' = c
  /\ UNCHANGED <<killed, np, left, idVars, cpuVars>>

(* sleep() reacquires tickslock and the loop of sys_sleep() tests again.   *)
SysSleepAgain(c, p) ==
  /\ Executing(c, p)
  /\ tickslock = NoCpu
  /\ \/ /\ left[p] = 0 \/ killed[p]
        /\ Goto(p, {"sleep3"}, "ret")
        /\ left' = [left EXCEPT ![p] = 0]
        /\ UNCHANGED tickslock
     \/ /\ left[p] > 0 /\ ~ killed[p]
        /\ Goto(p, {"sleep3"}, "sleep1")
        /\ tickslock' = c
        /\ UNCHANGED left
  /\ UNCHANGED <<state, chan, killed, np, ptlock, idVars, cpuVars>>

-----------------------------------------------------------------------------
(* The steps of the scheduler of CPU c and of what it runs for a process   *)
(* that yields, or goes on after the switch ...                            *)
SchedStep(c) ==
  \/ SchedStart(c) \/ SchedNext(c)
  \/ \E p \in Slots : Resume(c, p) \/ Yield(c, p)

(* ... those of a process inside the kernel ...                            *)
KernelStep(c, p) ==
  \/ TrapExit(c, p)       \/ TrapReturn(c, p)
  \/ ForkAllocSlot(c, p)  \/ ForkAllocStack(c, p)
  \/ ForkCopy(c, p)       \/ ForkRunnable(c, p)
  \/ WaitReap(c, p)       \/ WaitFail(c, p)   \/ WaitSleep(c, p)
  \/ SysExit(c, p)        \/ ExitInit(c, p)
  \/ Exit(c, p)           \/ ExitSched(c, p)
  \/ Kill(c, p)
  \/ SysSleep(c, p)       \/ SleepOnTicks(c, p)   \/ SysSleepAgain(c, p)

(* ... what its program chooses to do in user mode ...                     *)
UserStep(c, p) == SyscallEnter(c, p) \/ Fault(c, p)

(* ... and the timer.                                                      *)
TimerStep(c) == Timer(c) \/ Tick(c)

Next ==
  \E c \in CPUs :
    \/ SchedStep(c)
    \/ TimerStep(c)
    \/ TickWakeup(c)
    \/ \E p \in Slots : KernelStep(c, p) \/ UserStep(c, p)

Spec == Init /\ [][Next]_vars

-----------------------------------------------------------------------------
(* Safety                                                                  *)

Live(p) == state[p] \notin {"UNUSED", "EMBRYO"}

(* What sched(), swtch() and the ptable.lock hand-over are for: no two     *)
(* CPUs are ever in the same process (on one kernel stack, proc.c:485      *)
(* swtch), a RUNNING process is on a CPU, and a CPU whose process is in    *)
(* any other state is between that process and its scheduler, with         *)
(* ptable.lock.                                                            *)
OneCpu      == \A c, d \in CPUs : proc[c] = proc[d] => c = d \/ proc[c] = Null
RunningOnCpu == \A p \in Slots : state[p] = "RUNNING" => \E c \in CPUs : proc[c] = p
HandOver    == \A c \in CPUs :
                 /\ proc[c] # Null /\ state[proc[c]] # "RUNNING" => ptlock = c
                 /\ ptlock = c => proc[c] # Null

SwitchSafe == OneCpu /\ RunningOnCpu /\ HandOver

(* The kernel stack a CPU is on is never freed under it (wait() frees a    *)
(* zombie's stack, proc.c:391, while the zombie may still be on its way to *)
(* swtch()), switchuvm() never meets a process without one, and a free     *)
(* slot keeps none (the failure paths of fork() leak no page).             *)
StackLive ==
  /\ \A c \in CPUs : proc[c] # Null => kstack[proc[c]]
  /\ \A p \in Slots : Live(p) => kstack[p]
  /\ \A p \in Slots : state[p] = "UNUSED" => ~ kstack[p]

(* No lost wakeup between wait() and exit() or kill(): a process asleep in *)
(* wait() (proc.c:411) has a child, no zombie child, and is not killed.    *)
WaitJustified ==
  \A p \in Slots :
    state[p] = "SLEEPING" /\ pc[p] = "wait" =>
      Children(p) # {} /\ Zombies(p) = {} /\ ~ killed[p]

(* No lost wakeup between sys_sleep() and the timer interrupt: a process   *)
(* asleep on &ticks whose time is over is about to be woken, by the CPU    *)
(* that has counted the tick and still holds tickslock (trap.c:52-55).     *)
SleepJustified ==
  \A p \in Slots :
    state[p] = "SLEEPING" /\ pc[p] = "sleep2" /\ left[p] = 0 =>
      \E c \in CPUs : mode[c] = "tick" /\ tickslock = c

(* Every live process but init has a parent that can still wait() for it:  *)
(* exit() leaves no child behind (proc.c:350-357), and fork() and wait()   *)
(* leave no parent in a slot that holds no live process.                   *)
ParentAlive ==
  \A p \in Slots :
    /\ Live(p) /\ p # InitProc =>
         /\ parent[p] # Null
         /\ Live(parent[p])
         /\ state[parent[p]] # "ZOMBIE"
    /\ state[p] = "UNUSED" => parent[p] = Null

(* nextpid is protected by ptable.lock: no two processes share a pid, and  *)
(* none has the pid 0 of a reaped slot.                                    *)
PidsUnique ==
  \A p, q \in Slots :
    state[p] # "UNUSED" =>
      /\ pid[p] \in 1 .. nextpid - 1
      /\ p # q /\ state[q] # "UNUSED" => pid[p] # pid[q]

(* A zombie leaves the table only into UNUSED, when no CPU is on its stack *)
(* any more, and by the wait() of its parent.                              *)
ReapAction ==
  \A q \in Slots :
    state[q] = "ZOMBIE" /\ state'[q] # "ZOMBIE" =>
      /\ state'[q] = "UNUSED"
      /\ \A c \in CPUs : proc[c] # q
      /\ \E c \in CPUs : InWait(c, parent[q])

ReapedByParent == [][ReapAction]_vars

-----------------------------------------------------------------------------
(* What the comments of the source say and the code does not do            *)

(* "Kill the process with the given pid" (proc.c:610): a process that has  *)
(* just been allocated has not been killed, nobody could name it yet.      *)
NewProcNotKilled ==
  [][\A q \in Slots :
       state[q] = "UNUSED" /\ state'[q] = "EMBRYO" => ~ killed'[q]]_vars

(* CPU c holds ptable.lock in exit() and waits for tickslock, whose holder *)
(* d waits for ptable.lock in wakeup() or in sleep().                      *)
LockCycle(c, d) ==
  /\ ptlock = c /\ pc[proc[c]] = "exit2"
  /\ tickslock = d
  /\ mode[d] = "tick" \/ (proc[d] # Null /\ pc[proc[d]] = "sleep1")

(* acquire() "Loops (spins) until the lock is acquired" (spinlock.c:21)    *)
(* with interrupts off "to avoid deadlock" (spinlock.c:27).                *)
NoLockCycle == \A c, d \in CPUs : ~ LockCycle(c, d)

-----------------------------------------------------------------------------
(* Liveness                                                                *)

(* CPUs run, the timer interrupts each of them for ever, a spinlock that   *)
(* becomes free again and again is acquired, and a process that is in the  *)
(* kernel and gets the CPU again and again gets a step done between two    *)
(* timer interrupts.                                                       *)
Fairness ==
  /\ \A c \in CPUs :
       SF_vars(SchedStep(c)) /\ SF_vars(TimerStep(c)) /\ SF_vars(TickWakeup(c))
  /\ \A p \in Slots : SF_vars(\E c \in CPUs : KernelStep(c, p))

LiveSpec == Spec /\ Fairness

(* init.c:34: initproc runs its loop of wait().                            *)
InitWaits ==
  /\ SF_vars(\E c \in CPUs : SyscallEnter(c, InitProc))
  /\ SF_vars(\E c \in CPUs : WaitReap(c, InitProc))

Stuck == panicked \/ \E c, d \in CPUs : LockCycle(c, d)

(* The round-robin scheduler starves no RUNNABLE process (scheduler() of   *)
(* RR/proc.c goes on from the slot it stopped at).                         *)
RunnableRuns ==
  \A p \in Slots : state[p] = "RUNNABLE" ~> (state[p] # "RUNNABLE" \/ Stuck)

(* A killed process exits, wherever it was: asleep, in a system call, in   *)
(* user mode or not yet started (kill(), trap.c:40-111).                   *)
KilledExits ==
  \A p \in Slots :
    (killed[p] /\ state[p] # "UNUSED")
      ~> (state[p] \in {"UNUSED", "ZOMBIE"} \/ Stuck)

(* sys_sleep() returns.                                                    *)
SleepEnds ==
  \A p \in Slots :
    pc[p] \in {"sleep1", "sleep2", "sleep3"}
      ~> (pc[p] \notin {"sleep1", "sleep2", "sleep3"} \/ Stuck)

(* An orphan that init inherited as a zombie is reaped, if init keeps      *)
(* waiting.                                                                *)
OrphansReaped ==
  InitWaits =>
    \A p \in Slots :
      (state[p] = "ZOMBIE" /\ parent[p] = InitProc)
        ~> (state[p] = "UNUSED" \/ Stuck)
=============================================================================
