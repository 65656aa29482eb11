------------------------------- MODULE Spinlock -------------------------------
(***************************************************************************)
(* The spinlocks of xv6 (spinlock.c) and the interrupt flag of each CPU.   *)
(* A CPU that finds a lock taken spins; up to then acquire() is one step,  *)
(* as what it does before the xchg concerns its own CPU only.              *)
(*                                                                         *)
(* Spinlocks is how a kernel may use them: it acquires no lock that the    *)
(* CPU has, releases only those, switches threads with exactly one lock    *)
(* held, and returns from an interrupt or enables interrupts with none.    *)
(***************************************************************************)
EXTENDS Integers, FiniteSets

CONSTANTS Cpus, Locks,
          NoCpu,    \* lk->locked is 0
          NoLock    \* the CPU does not spin

ASSUME SpinlockAssumption ==
    /\ IsFiniteSet(Locks)
    /\ NoCpu \notin Cpus /\ NoLock \notin Locks

VARIABLES lock,     \* the CPU that has the lock
          spin,     \* the lock in whose acquire() the CPU loops
          on,       \* FL_IF
          ncli, intena,
          panicked

spinVars == <<lock, spin, on, ncli, intena, panicked>>

SpinType ==
    /\ lock \in [Locks -> Cpus \cup {NoCpu}]
    /\ spin \in [Cpus -> Locks \cup {NoLock}]
    /\ on \in [Cpus -> BOOLEAN]
    /\ ncli \in [Cpus -> Int]
    /\ intena \in [Cpus -> BOOLEAN]
    /\ panicked \in BOOLEAN

\* initlock(); main() runs with interrupts off up to scheduler().
SpinInit ==
    /\ lock = [l \in Locks |-> NoCpu]
    /\ spin = [c \in Cpus |-> NoLock]
    /\ on = [c \in Cpus |-> FALSE]
    /\ ncli = [c \in Cpus |-> 0]
    /\ intena = [c \in Cpus |-> FALSE]
    /\ panicked = FALSE

holding(c, l) == lock[l] = c

panic == panicked' = TRUE /\ UNCHANGED <<lock, spin, on, ncli, intena>>

\* Mutant of pushcli: interrupts stay on.
M_pushcli(c) ==
    /\ on' = on
    /\ intena' = IF ncli[c] = 0 THEN [intena EXCEPT ![c] = on[c]] ELSE intena
    /\ ncli' = [ncli EXCEPT ![c] = @ + 1]

pushcli(c) ==
    /\ on' = [on EXCEPT ![c] = FALSE]
    /\ intena' = IF ncli[c] = 0 THEN [intena EXCEPT ![c] = on[c]] ELSE intena
    /\ ncli' = [ncli EXCEPT ![c] = @ + 1]

\* Nothing reads intena while ncli is 0: there it counts as FALSE.
popcli(c) ==
    /\ ncli' = [ncli EXCEPT ![c] = @ - 1]
    /\ on' = [on EXCEPT ![c] = ncli[c] = 1 /\ intena[c]]
    /\ intena' = [intena EXCEPT ![c] = @ /\ ncli[c] # 1]

\* acquire() up to its loop, which it leaves at once if the lock is free.
acquire(c, l) ==
    /\ spin[c] = NoLock
    /\ IF holding(c, l) THEN panic
       ELSE /\ pushcli(c)
            /\ IF lock[l] = NoCpu
               THEN lock' = [lock EXCEPT ![l] = c] /\ UNCHANGED spin
               ELSE spin' = [spin EXCEPT ![c] = l] /\ UNCHANGED lock
            /\ UNCHANGED panicked

\* The xchg that returns 0, of a CPU that loops.
Acquired(c, l) ==
    /\ spin[c] = l /\ lock[l] = NoCpu
    /\ lock' = [lock EXCEPT ![l] = c]
    /\ spin' = [spin EXCEPT ![c] = NoLock]
    /\ UNCHANGED <<on, ncli, intena, panicked>>

release(c, l) ==
    /\ spin[c] = NoLock
    /\ IF ~holding(c, l) \/ on[c] \/ ncli[c] < 1 THEN panic
       ELSE /\ lock' = [lock EXCEPT ![l] = NoCpu]
            /\ popcli(c)
            /\ UNCHANGED <<spin, panicked>>

\* swtch() to a thread whose sched() has kept its intena.
Switch(c, kept) ==
    /\ intena' = [intena EXCEPT ![c] = kept]
    /\ UNCHANGED <<lock, spin, on, ncli, panicked>>

\* An interrupt gate clears FL_IF; iret of such a trap, and sti, set it.
SetFlag(c, b) == on' = [on EXCEPT ![c] = b] /\ UNCHANGED <<lock, spin, ncli, intena, panicked>>
-----------------------------------------------------------------------------
SpinNext ==
    \E c \in Cpus :
        \/ \E l \in Locks : \/ ~holding(c, l) /\ acquire(c, l)
                            \/ Acquired(c, l)
                            \/ holding(c, l) /\ release(c, l)
        \/ \E b \in BOOLEAN : ncli[c] = 1 /\ spin[c] = NoLock /\ Switch(c, b)
        \/ on[c] /\ SetFlag(c, FALSE)
        \/ ncli[c] = 0 /\ SetFlag(c, TRUE)

\* The kernel uses its spinlocks as they are meant to be used (the panics of
\* acquire(), release(), popcli() and sched(), and trap() of an interrupt).
Spinlocks == SpinInit /\ [][SpinNext]_spinVars

Held(c) == {l \in Locks : lock[l] = c}

\* A CPU that has or waits for a lock takes no interrupt, and the depth of its
\* pushcli()s is the number of those locks: the last release(), and no other,
\* lets interrupts in again.
HeldOff ==
    \A c \in Cpus :
        /\ ncli[c] = Cardinality(Held(c)) + (IF spin[c] = NoLock THEN 0 ELSE 1)
        /\ ncli[c] > 0 => ~on[c]
=============================================================================
