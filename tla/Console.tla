-------------------------------- MODULE Console --------------------------------
(***************************************************************************)
(* Console input (console.c) with the spinlocks, the scheduler and the     *)
(* interrupts it runs among (spinlock.c, proc.c, trap.c): processes read,  *)
(* write, are preempted and exit on any CPU; the interrupts of keyboard    *)
(* and serial port come to IntrCpu, on top of whatever runs there.         *)
(*                                                                         *)
(* Abstractions: the only locks are cons.lock and ptable.lock; user code   *)
(* and what other system calls do is "user"; kill() comes from a process   *)
(* not modelled, between two holders of ptable.lock; what is printed is    *)
(* left out, the cons.lock it takes is not.                                *)
(***************************************************************************)
EXTENDS Spinlock, Sequences

CONSTANTS Procs, NoProc, Nothing,
          IntrCpu,     \* ioapicenable(IRQ_KBD, 0)
          Keys,
          INPUT_BUF,
          W,           \* r, w and e are unsigned integers modulo W
          Sizes,       \* bound: the n of a read
          MaxKeys,     \* bound: keys pressed
          MaxKilled    \* bound: processes killed

Enter == "\n"
ctl(k) == "^" \o k     \* C('x')
Edits == {ctl("U"), ctl("H"), ctl("P")}

ASSUME ConsoleAssumption ==
    /\ Locks = {"cons", "ptable"}
    /\ IntrCpu \in Cpus /\ NoProc \notin Procs
    /\ INPUT_BUF \in Nat \ {0} /\ W \in Nat /\ W > INPUT_BUF /\ W % INPUT_BUF = 0
    /\ Enter \notin Edits
    /\ Sizes \subseteq Nat \ {0} /\ MaxKeys \in Nat /\ MaxKilled \in Nat

Chars == ((Keys \cup {Enter}) \ Edits) \ {"\r"}

VARIABLES buf, r, w, e,        \* input
          running,             \* mycpu()->proc
          spc,                 \* the scheduler of the CPU
          state, killed, pc,
          kept,                \* intena in sched()
          n, short,            \* of consoleread(): bytes to read, n < target
          last,                \* the character stored last, or Nothing
          kpc, keys, dump      \* consoleintr(): dump is doprocdump

inputVars == <<buf, r, w, e>>
procVars  == <<running, spc, state, pc, kept>>
readVars  == <<n, short, last>>
intrVars  == <<kpc, keys, dump>>
vars == <<spinVars, inputVars, procVars, readVars, intrVars, killed>>

PCs == {"forkret", "trapret", "user", "yield", "yielding", "yielded", "exit", "print", "printed",
        "zombie", "write", "put", "read", "loop", "sleep", "unlock", "sleeping", "awake", "readdone"}
TypeOK ==
    /\ SpinType
    /\ buf \in [0 .. INPUT_BUF - 1 -> Chars] /\ {r, w, e} \subseteq 0 .. W - 1
    /\ running \in [Cpus -> Procs \cup {NoProc}] /\ spc \in [Cpus -> {"sti", "acquire", "loop"}]
    /\ state \in [Procs -> {"RUNNABLE", "RUNNING", "SLEEPING", "ZOMBIE"}]
    /\ pc \in [Procs -> PCs] /\ {kept, killed, short} \subseteq [Procs -> BOOLEAN]
    /\ n \in [Procs -> Nat] /\ last \in Chars \cup {Nothing}
    /\ kpc \in {"none", "acquire", "getc", "wakeup", "woken", "procdump", "dumped", "iret"}
    /\ keys \in 0 .. MaxKeys /\ dump \in BOOLEAN

\* Every process is about to be run for the first time; of the lines typed up
\* to now the end of the last one is unread, and the indices are about to wrap.
Init ==
    /\ SpinInit
    /\ buf = [i \in 0 .. INPUT_BUF - 1 |-> Enter] /\ r = W - 1 /\ w = 0 /\ e = 0
    /\ running = [c \in Cpus |-> NoProc]
    /\ spc = [c \in Cpus |-> "sti"]
    /\ state = [p \in Procs |-> "RUNNABLE"]
    /\ killed = [p \in Procs |-> FALSE]
    /\ pc = [p \in Procs |-> "forkret"]
    /\ kept = [p \in Procs |-> FALSE]
    /\ n = [p \in Procs |-> 0] /\ short = [p \in Procs |-> FALSE]
    /\ last = Nothing
    /\ kpc = "none" /\ keys = 0 /\ dump = FALSE
-----------------------------------------------------------------------------
(* The scheduler, and the calls that leave and enter it.                   *)

\* No interrupt handler is on top of what the CPU runs.
Bare(c) == ~panicked /\ (c = IntrCpu => kpc = "none")

Goto(p, to) == pc' = [pc EXCEPT ![p] = to] /\ UNCHANGED <<running, spc, state, kept>>
SpcGoto(c, to) == spc' = [spc EXCEPT ![c] = to] /\ UNCHANGED <<running, state, pc, kept>>

At(c, p, at) == running[c] = p /\ Bare(c) /\ pc[p] = at

\* The process p, at a call of acquire(l); it goes on at to.
AcquireAt(c, p, at, l, to) ==
    /\ At(c, p, at)
    /\ acquire(c, l) \/ Acquired(c, l)
    /\ IF lock[l] = NoCpu THEN Goto(p, to) ELSE UNCHANGED procVars

ReleaseAt(c, p, at, l, to) == At(c, p, at) /\ release(c, l) /\ Goto(p, to)

Sti(c) ==
    /\ running[c] = NoProc /\ Bare(c) /\ spc[c] = "sti"
    /\ SetFlag(c, TRUE)
    /\ SpcGoto(c, "acquire")
    /\ UNCHANGED <<inputVars, readVars, intrVars, killed>>

SchedAcquire(c) ==
    /\ running[c] = NoProc /\ Bare(c) /\ spc[c] = "acquire"
    /\ acquire(c, "ptable") \/ Acquired(c, "ptable")
    /\ IF lock["ptable"] = NoCpu THEN SpcGoto(c, "loop") ELSE UNCHANGED procVars
    /\ UNCHANGED <<inputVars, readVars, intrVars, killed>>

\* The loop may be past a process that is RUNNABLE now.  The next sti() has an
\* effect if the last process to run came here from an interrupt.
SchedRelease(c) ==
    /\ running[c] = NoProc /\ Bare(c) /\ spc[c] = "loop"
    /\ release(c, "ptable")
    /\ SpcGoto(c, IF intena[c] THEN "acquire" ELSE "sti")
    /\ UNCHANGED <<inputVars, readVars, intrVars, killed>>

\* swtch() to p, and for one that has run before the end of its sched().
Dispatch(c, p) ==
    /\ running[c] = NoProc /\ Bare(c) /\ spc[c] = "loop"
    /\ state[p] = "RUNNABLE"
    /\ running' = [running EXCEPT ![c] = p]
    /\ state' = [state EXCEPT ![p] = "RUNNING"]
    /\ Switch(c, IF pc[p] = "forkret" THEN intena[c] ELSE kept[p])
    /\ kept' = [kept EXCEPT ![p] = FALSE]
    /\ UNCHANGED <<spc, pc>>
    /\ UNCHANGED <<inputVars, readVars, intrVars, killed>>

\* sched() by p, whose state becomes st and which is at to when it runs again.
sched(c, p, at, st, to) ==
    /\ At(c, p, at)
    /\ IF ~holding(c, "ptable") \/ ncli[c] # 1 \/ on[c] THEN panic ELSE UNCHANGED spinVars
    /\ state' = [state EXCEPT ![p] = st]
    /\ kept' = [kept EXCEPT ![p] = intena[c]]
    /\ running' = [running EXCEPT ![c] = NoProc]
    /\ pc' = [pc EXCEPT ![p] = to]
    /\ UNCHANGED spc

\* wakeup1(&input.r): nothing else is slept on.
Woken == [p \in Procs |-> IF state[p] = "SLEEPING" THEN "RUNNABLE" ELSE state[p]]

Forkret(c, p) ==
    /\ ReleaseAt(c, p, "forkret", "ptable", IF intena[c] THEN "user" ELSE "trapret")
    /\ UNCHANGED <<inputVars, readVars, intrVars, killed>>

\* iret to user space.
Trapret(c, p) ==
    /\ At(c, p, "trapret")
    /\ SetFlag(c, TRUE)
    /\ Goto(p, "user")
    /\ UNCHANGED <<inputVars, readVars, intrVars, killed>>

\* The timer interrupt ends in yield(); in the kernel it comes before or after
\* a system call where interrupts are on, and that is as in "user".
Timer(c, p) ==
    /\ At(c, p, "user") /\ on[c]
    /\ SetFlag(c, FALSE)
    /\ Goto(p, "yield")
    /\ UNCHANGED <<inputVars, readVars, intrVars, killed>>

Yield(c, p) ==
    /\ \/ AcquireAt(c, p, "yield", "ptable", "yielding")
       \/ sched(c, p, "yielding", "RUNNABLE", "yielded")
       \/ ReleaseAt(c, p, "yielded", "ptable", "trapret")
    /\ UNCHANGED <<inputVars, readVars, intrVars, killed>>

\* exit() from the last acquire(&ptable.lock) on; cprintf() takes cons.lock.  A
\* process that exits by itself does what one killed there does.
Exit(c, p) ==
    /\ \/ At(c, p, "user") /\ killed[p] /\ Goto(p, "exit") /\ UNCHANGED spinVars
       \/ AcquireAt(c, p, "exit", "ptable", "print")
       \/ AcquireAt(c, p, "print", "cons", "printed")
       \/ ReleaseAt(c, p, "printed", "cons", "zombie")
       \/ sched(c, p, "zombie", "ZOMBIE", "zombie")
    /\ UNCHANGED <<inputVars, readVars, intrVars, killed>>

kill(p) ==
    /\ lock["ptable"] = NoCpu /\ state[p] # "ZOMBIE" /\ ~killed[p]
    /\ Cardinality({q \in Procs : killed[q]}) < MaxKilled
    /\ killed' = [killed EXCEPT ![p] = TRUE]
    /\ state' = [state EXCEPT ![p] = IF @ = "SLEEPING" THEN "RUNNABLE" ELSE @]
    /\ UNCHANGED <<running, spc, pc, kept>>
    /\ UNCHANGED <<spinVars, inputVars, readVars, intrVars>>
-----------------------------------------------------------------------------
(* consoleread() and consolewrite().                                       *)

\* A killed process exits before it returns to user space.
Call(c, p) ==
    /\ At(c, p, "user") /\ ~killed[p]
    /\ \/ /\ Goto(p, "read")
          /\ \E k \in Sizes : n' = [n EXCEPT ![p] = k]
          /\ short' = [short EXCEPT ![p] = FALSE]
       \/ Goto(p, "write") /\ UNCHANGED <<n, short>>
    /\ UNCHANGED <<spinVars, inputVars, intrVars, killed, last>>

ReadEnter(c, p) ==
    /\ AcquireAt(c, p, "read", "cons", "loop")
    /\ UNCHANGED <<inputVars, readVars, intrVars, killed>>

ReadEmpty(c, p) ==
    /\ At(c, p, "loop") /\ r = w
    /\ Goto(p, IF killed[p] THEN "readdone" ELSE "sleep")
    /\ UNCHANGED <<spinVars, inputVars, readVars, intrVars, killed>>

\* Mutant of ReadByte: a saved ^D, but n does not say whether it is the first.
M_ReadByte(c, p) ==
    /\ At(c, p, "loop") /\ r # w
    /\ LET ch == buf[r % INPUT_BUF] IN
       /\ r' = (r + 1) % W
       /\ last' = ch
       /\ n' = [n EXCEPT ![p] = @ - 1] /\ short' = [short EXCEPT ![p] = TRUE]
       /\ Goto(p, IF ch \in {Enter, ctl("D")} \/ n[p] = 1 THEN "readdone" ELSE "loop")
    /\ UNCHANGED <<spinVars, buf, w, e, intrVars, killed>>

ReadByte(c, p) ==
    /\ At(c, p, "loop") /\ r # w
    /\ LET ch == buf[r % INPUT_BUF] IN
       IF ch = ctl("D")
       THEN /\ r' = IF short[p] THEN r ELSE (r + 1) % W
            /\ Goto(p, "readdone")
            /\ UNCHANGED <<n, short, last>>
       ELSE /\ r' = (r + 1) % W
            /\ last' = ch
            /\ n' = [n EXCEPT ![p] = @ - 1] /\ short' = [short EXCEPT ![p] = TRUE]
            /\ Goto(p, IF ch = Enter \/ n[p] = 1 THEN "readdone" ELSE "loop")
    /\ UNCHANGED <<spinVars, buf, w, e, intrVars, killed>>

\* sleep(&input.r, &cons.lock).
ReadSleep(c, p) ==
    /\ \/ AcquireAt(c, p, "sleep", "ptable", "unlock")
       \/ ReleaseAt(c, p, "unlock", "cons", "sleeping")
       \/ sched(c, p, "sleeping", "SLEEPING", "awake")
    /\ last' = Nothing
    /\ UNCHANGED <<inputVars, n, short, intrVars, killed>>

\* Mutant of ReadAwake: sleep() takes its lock before it gives ptable.lock.
M_ReadAwake(c, p) ==
    /\ \/ AcquireAt(c, p, "awake", "cons", "tidy")
       \/ ReleaseAt(c, p, "tidy", "ptable", "loop")
    /\ UNCHANGED <<inputVars, readVars, intrVars, killed>>

ReadAwake(c, p) ==
    /\ ReleaseAt(c, p, "awake", "ptable", "read")
    /\ UNCHANGED <<inputVars, readVars, intrVars, killed>>

ReadDone(c, p) ==
    /\ ReleaseAt(c, p, "readdone", "cons", "user")
    /\ n' = [n EXCEPT ![p] = 0] /\ short' = [short EXCEPT ![p] = FALSE]
    /\ last' = Nothing
    /\ UNCHANGED <<inputVars, intrVars, killed>>

Write(c, p) ==
    /\ AcquireAt(c, p, "write", "cons", "put") \/ ReleaseAt(c, p, "put", "cons", "user")
    /\ UNCHANGED <<inputVars, readVars, intrVars, killed>>
-----------------------------------------------------------------------------
(* consoleintr().                                                          *)

Intr(at, to) == ~panicked /\ kpc = at /\ kpc' = to

\* The interrupt, which stays on its CPU until it returns.
Interrupt ==
    /\ Intr("none", "acquire") /\ on[IntrCpu] /\ keys < MaxKeys
    /\ SetFlag(IntrCpu, FALSE)
    /\ UNCHANGED <<inputVars, procVars, readVars, keys, dump, killed>>

IntrAcquire(at, l, to) ==
    /\ Intr(at, IF lock[l] = NoCpu THEN to ELSE at)
    /\ acquire(IntrCpu, l) \/ Acquired(IntrCpu, l)
    /\ UNCHANGED <<inputVars, procVars, readVars, keys, dump, killed>>

Edited == IF e = w THEN e ELSE (e + W - 1) % W

\* Where C('U') leaves e.
LineStart ==
    CHOOSE x \in 0 .. W - 1 :
        LET back_(y) == (e + W - y) % W    \* characters erased
            Stops(y) == y = w \/ buf[(y + W - 1) % INPUT_BUF] = Enter
        IN  /\ back_(x) <= back_(w) /\ Stops(x)
            /\ \A y \in 0 .. W - 1 : back_(y) < back_(x) => ~Stops(y)

Full == (e + W - r) % W >= INPUT_BUF

Key(k) ==
    /\ Intr("getc", "getc") /\ keys < MaxKeys
    /\ k \in Edits \/ Full
    /\ e' = CASE k = ctl("U") -> LineStart [] k = ctl("H") -> Edited [] OTHER -> e
    /\ dump' = (dump \/ k = ctl("P"))
    /\ keys' = keys + 1
    /\ UNCHANGED <<spinVars, buf, r, w, procVars, readVars, killed>>

\* Mutant of Typed: a line is also finished when the buffer is full, but then
\* nobody is woken.
M_Typed(k) ==
    /\ ~panicked /\ kpc = "getc" /\ keys < MaxKeys /\ k \notin Edits /\ ~Full
    /\ LET ch == IF k = "\r" THEN Enter ELSE k
           to == (e + 1) % W
           done == ch \in {Enter, ctl("D")}
       IN  /\ buf' = [buf EXCEPT ![e % INPUT_BUF] = ch]
           /\ e' = to
           /\ w' = IF done \/ to = (r + INPUT_BUF) % W THEN to ELSE w
           /\ kpc' = IF done THEN "wakeup" ELSE "getc"
    /\ keys' = keys + 1
    /\ UNCHANGED <<spinVars, r, procVars, readVars, dump, killed>>

Typed(k) ==
    /\ ~panicked /\ kpc = "getc" /\ keys < MaxKeys /\ k \notin Edits /\ ~Full
    /\ LET ch == IF k = "\r" THEN Enter ELSE k
           to == (e + 1) % W
           done == ch \in {Enter, ctl("D")} \/ to = (r + INPUT_BUF) % W
       IN  /\ buf' = [buf EXCEPT ![e % INPUT_BUF] = ch]
           /\ e' = to
           /\ w' = IF done THEN to ELSE w
           /\ kpc' = IF done THEN "wakeup" ELSE "getc"
    /\ keys' = keys + 1
    /\ UNCHANGED <<spinVars, r, procVars, readVars, dump, killed>>

\* wakeup(&input.r).
Wakeup ==
    \/ IntrAcquire("wakeup", "ptable", "woken")
    \/ /\ Intr("woken", "getc")
       /\ release(IntrCpu, "ptable")
       /\ state' = Woken
       /\ UNCHANGED <<running, spc, pc, kept>>
       /\ UNCHANGED <<inputVars, readVars, keys, dump, killed>>

\* The end of consoleintr(); procdump() prints without any other lock.
IntrEnd ==
    /\ \/ Intr("getc", IF dump THEN "procdump" ELSE "iret") /\ release(IntrCpu, "cons")
       \/ Intr("iret", "none") /\ SetFlag(IntrCpu, TRUE)
    /\ UNCHANGED <<inputVars, procVars, readVars, keys, dump, killed>>

procdump ==
    \/ IntrAcquire("procdump", "cons", "dumped")
    \/ /\ Intr("dumped", "iret") /\ release(IntrCpu, "cons")
       /\ dump' = FALSE
       /\ UNCHANGED <<inputVars, procVars, readVars, keys, killed>>

consoleintr == IntrAcquire("acquire", "cons", "getc") \/ (\E k \in Keys : Key(k) \/ Typed(k))
               \/ Wakeup \/ IntrEnd \/ procdump
-----------------------------------------------------------------------------
Process(c, p) ==
    \/ Forkret(c, p) \/ Trapret(c, p) \/ Timer(c, p) \/ Yield(c, p) \/ Exit(c, p)
    \/ Call(c, p) \/ Write(c, p) \/ ReadEnter(c, p) \/ ReadEmpty(c, p) \/ ReadByte(c, p)
    \/ ReadSleep(c, p) \/ ReadAwake(c, p) \/ ReadDone(c, p)

Next ==
    \/ \E c \in Cpus : \/ Sti(c) \/ SchedAcquire(c) \/ SchedRelease(c)
                       \/ \E p \in Procs : Dispatch(c, p) \/ Process(c, p)
    \/ Interrupt \/ consoleintr
    \/ \E p \in Procs : kill(p)

Spec == Init /\ [][Next]_vars
-----------------------------------------------------------------------------
Unread(i, j) == [k \in 1 .. (j + W - i) % W |-> buf[(i + k - 1) % INPUT_BUF]]
Input == INSTANCE LineStream WITH queue <- Unread(r, w), line <- Unread(w, e),
                                  EOL <- Enter, EOF <- ctl("D"), Capacity <- INPUT_BUF
\* Readers get, between them, what was typed and not erased: in order, once,
\* with the index of the circular buffer wherever it is and a ^D kept for the
\* next read (input in console.c).
ImplementsLineStream == Input!Spec

\* Nobody sleeps in consoleread() while there is input, but for the wakeup()
\* that consoleintr() is about to make.
SleepersJustified ==
    /\ TypeOK
    /\ \A p \in Procs : state[p] = "SLEEPING" => r = w \/ kpc \in {"wakeup", "woken"}

SpinCycle(S) == \A c \in S : spin[c] # NoLock /\ lock[spin[c]] \in S

\* CPUs wait for the spinlocks of each other only if one of them prints at the
\* end of exit(), ptable.lock held (proc.c:366), which consoleintr() and
\* sleep() take under cons.lock.
SpinCyclesNeedExit ==
    \A S \in (SUBSET Cpus) \ {{}} :
        SpinCycle(S) => \E c \in S, p \in Procs : At(c, p, "print")
=============================================================================
