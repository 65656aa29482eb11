---------------------------- MODULE ConsoleProofs ----------------------------
(***************************************************************************)
(* For any CPUs and locks: a kernel that uses its spinlocks as Spinlocks   *)
(* says has interrupts off where it has or waits for a lock, and reaches   *)
(* none of the panics of spinlock.c.                                       *)
(*                                                                         *)
(* For any CPUs and processes, any keys and any size of the buffer:        *)
(* console input and the threads around it keep to the rules of Spinlock,  *)
(* CPUs wait for each other in exit() only, no reader sleeps while there   *)
(* is input, and the readers get the lines that were typed.                *)
(*                                                                         *)
(* IInv says why.  What a CPU has locked and what it waits for follows     *)
(* from where its thread is, or the interrupt on top of it (LockInv,       *)
(* SpinInv); a process is run by one CPU, and one that is not run is in    *)
(* sched() (ThreadInv); a reader on its way to sleep still has a lock      *)
(* without which no line can be finished, or its wakeup is on the way      *)
(* (WaitInv); the three indices are in order around the ring (RingInv);    *)
(* and the line being edited has no end of line in it (LineInv).           *)
(***************************************************************************)
EXTENDS Console, FiniteSetTheorems, SequenceTheorems, TLAPS
-----------------------------------------------------------------------------
(* Spinlocks.                                                              *)

Inv == SpinType /\ HeldOff

\* Held() of the CPU that takes a free lock or gives one back (acquire() and
\* release()), and of the other CPUs.
LEMMA HeldCount ==
    ASSUME SpinType, NEW c \in Cpus
    PROVE  IsFiniteSet(Held(c)) /\ Cardinality(Held(c)) \in Nat
<1>1. IsFiniteSet(Held(c))
  BY SpinlockAssumption, FS_Subset DEF Held
<1> QED
  BY <1>1, FS_CardinalityType

LEMMA HeldMore ==
    ASSUME SpinType, NEW c \in Cpus, NEW l \in Locks, lock[l] = NoCpu,
           lock' = [lock EXCEPT ![l] = c]
    PROVE  /\ Cardinality(Held(c)') = Cardinality(Held(c)) + 1
           /\ \A d \in Cpus \ {c} : Held(d)' = Held(d)
<1>1. Held(c)' = Held(c) \cup {l}
  BY DEF Held, SpinType
<1>2. l \notin Held(c)
  BY SpinlockAssumption DEF Held
<1>3. \A d \in Cpus \ {c} : Held(d)' = Held(d)
  BY SpinlockAssumption DEF Held, SpinType
<1> QED
  BY <1>1, <1>2, <1>3, HeldCount, FS_AddElement

LEMMA HeldFewer ==
    ASSUME SpinType, NEW c \in Cpus, NEW l \in Locks, holding(c, l),
           lock' = [lock EXCEPT ![l] = NoCpu]
    PROVE  /\ Cardinality(Held(c)') = Cardinality(Held(c)) - 1
           /\ \A d \in Cpus \ {c} : Held(d)' = Held(d)
<1>1. Held(c)' = Held(c) \ {l}
  BY SpinlockAssumption DEF Held, SpinType, holding
<1>2. l \in Held(c)
  BY DEF Held, holding
<1>3. \A d \in Cpus \ {c} : Held(d)' = Held(d)
  BY SpinlockAssumption DEF Held, SpinType, holding
<1> QED
  BY <1>1, <1>2, <1>3, HeldCount, FS_RemoveElement

LEMMA HeldSame ==
    ASSUME UNCHANGED lock
    PROVE  \A d \in Cpus : Held(d)' = Held(d)
BY DEF Held

\* A CPU that has a lock has interrupts off.
LEMMA HolderOff ==
    ASSUME Inv, NEW c \in Cpus, NEW l \in Locks, holding(c, l)
    PROVE  ncli[c] >= 1 /\ ~on[c]
<1>1. Held(c) # {}
  BY DEF Held, holding
<1>2. Cardinality(Held(c)) # 0
  BY <1>1, HeldCount, FS_EmptySet DEF Inv
<1>3. ncli[c] >= Cardinality(Held(c))
  BY HeldCount DEF Inv, HeldOff, SpinType
<1> QED
  BY <1>2, <1>3, HeldCount DEF Inv, HeldOff, SpinType

LEMMA InitInv == SpinInit => Inv
<1> SUFFICES ASSUME SpinInit PROVE Inv
  OBVIOUS
<1>1. SpinType
  <2>1. on \in [Cpus -> BOOLEAN] /\ intena \in [Cpus -> BOOLEAN] /\ panicked \in BOOLEAN
    BY Zenon DEF SpinInit
  <2>2. lock \in [Locks -> Cpus \cup {NoCpu}] /\ spin \in [Cpus -> Locks \cup {NoLock}]
    BY Zenon DEF SpinInit
  <2>3. ncli \in [Cpus -> Int]
    BY SMT DEF SpinInit
  <2> QED
    BY <2>1, <2>2, <2>3 DEF SpinType
<1>2. \A c \in Cpus : Held(c) = {}
  BY SpinlockAssumption DEF SpinInit, Held
<1>3. HeldOff
  BY <1>2, FS_EmptySet DEF HeldOff, SpinInit
<1> QED
  BY <1>1, <1>3 DEF Inv

LEMMA NextInv == Inv /\ [SpinNext]_spinVars => Inv'
<1> SUFFICES ASSUME Inv, [SpinNext]_spinVars PROVE Inv'
  OBVIOUS
<1> USE DEF Inv
<1>u. CASE UNCHANGED spinVars
  BY <1>u, HeldSame DEF spinVars, SpinType, HeldOff
<1>1. ASSUME NEW c \in Cpus, NEW l \in Locks, ~holding(c, l), acquire(c, l) PROVE Inv'
  <2>1. SpinType'
    <3>1. pushcli(c) /\ panicked' = panicked
      BY <1>1 DEF acquire
    <3>2. on' \in [Cpus -> BOOLEAN]
      BY <3>1, Zenon DEF pushcli, SpinType
    <3>3. intena' \in [Cpus -> BOOLEAN]
      <4>1. on[c] \in BOOLEAN
        BY Zenon DEF SpinType
      <4>2. [intena EXCEPT ![c] = on[c]] \in [Cpus -> BOOLEAN]
        BY <4>1, Zenon DEF SpinType
      <4> QED
        BY <3>1, <4>2, Zenon DEF pushcli, SpinType
    <3>4. ncli' \in [Cpus -> Int]
      BY <3>1, SMT DEF pushcli, SpinType
    <3>5. lock' \in [Locks -> Cpus \cup {NoCpu}] /\ spin' \in [Cpus -> Locks \cup {NoLock}]
      BY <1>1, SMT DEF acquire, SpinType
    <3> QED
      BY <3>1, <3>2, <3>3, <3>4, <3>5 DEF SpinType
  <2>2. CASE lock[l] = NoCpu
    <3>1. Cardinality(Held(c)') = Cardinality(Held(c)) + 1 /\ \A d \in Cpus \ {c} : Held(d)' = Held(d)
      BY <1>1, <2>2, HeldMore DEF acquire
    <3> QED
      BY <1>1, <2>1, <2>2, <3>1, HeldCount DEF acquire, pushcli, SpinType, HeldOff
  <2>3. CASE lock[l] # NoCpu
    <3>1. \A d \in Cpus : Held(d)' = Held(d)
      BY <1>1, <2>3, HeldSame DEF acquire
    <3> QED
      BY <1>1, <2>1, <2>3, <3>1, HeldCount, SpinlockAssumption DEF acquire, pushcli, SpinType, HeldOff
  <2> QED
    BY <2>2, <2>3
<1>2. ASSUME NEW c \in Cpus, NEW l \in Locks, Acquired(c, l) PROVE Inv'
  <2>1. SpinType'
    BY <1>2 DEF Acquired, SpinType
  <2>2. Cardinality(Held(c)') = Cardinality(Held(c)) + 1 /\ \A d \in Cpus \ {c} : Held(d)' = Held(d)
    BY <1>2, HeldMore DEF Acquired
  <2> QED
    BY <1>2, <2>1, <2>2, HeldCount, SpinlockAssumption DEF Acquired, SpinType, HeldOff
<1>3. ASSUME NEW c \in Cpus, NEW l \in Locks, holding(c, l), release(c, l) PROVE Inv'
  <2>1. lock' = [lock EXCEPT ![l] = NoCpu] /\ popcli(c) /\ UNCHANGED <<spin, panicked>>
    BY <1>3, HolderOff DEF release, SpinType
  <2>2. SpinType'
    <3>1. on' \in [Cpus -> BOOLEAN]
      BY <2>1, Zenon DEF popcli, SpinType
    <3>2. intena' \in [Cpus -> BOOLEAN]
      BY <2>1, Zenon DEF popcli, SpinType
    <3>3. ncli' \in [Cpus -> Int]
      BY <2>1, SMT DEF popcli, SpinType
    <3>4. lock' \in [Locks -> Cpus \cup {NoCpu}] /\ spin' \in [Cpus -> Locks \cup {NoLock}]
      BY <2>1, SMT DEF SpinType
    <3> QED
      BY <2>1, <3>1, <3>2, <3>3, <3>4 DEF SpinType
  <2>3. Cardinality(Held(c)') = Cardinality(Held(c)) - 1 /\ \A d \in Cpus \ {c} : Held(d)' = Held(d)
    BY <1>3, <2>1, HeldFewer
  <2> QED
    BY <1>3, <2>2, <2>1, <2>3, HeldCount DEF release, popcli, SpinType, HeldOff
<1>4. ASSUME NEW c \in Cpus, NEW b \in BOOLEAN, Switch(c, b) PROVE Inv'
  BY <1>4, HeldSame DEF Switch, SpinType, HeldOff
<1>5. ASSUME NEW c \in Cpus, SetFlag(c, FALSE) PROVE Inv'
  BY <1>5, HeldSame DEF SetFlag, SpinType, HeldOff
<1>6. ASSUME NEW c \in Cpus, ncli[c] = 0, SetFlag(c, TRUE) PROVE Inv'
  BY <1>6, HeldSame DEF SetFlag, SpinType, HeldOff
<1> QED
  BY <1>u, <1>1, <1>2, <1>3, <1>4, <1>5, <1>6 DEF SpinNext

\* Interrupts are off wherever a CPU has or waits for a spinlock, and ncli is
\* the number of those locks (pushcli() and popcli() of spinlock.c).
THEOREM InterruptsOff == Spinlocks => []HeldOff
<1>1. Inv => HeldOff
  BY DEF Inv
<1> QED
  BY <1>1, InitInv, NextInv, PTL DEF Spinlocks

\* The panics of acquire(), release() and popcli() are not reached.
THEOREM NoSpinPanic == Spinlocks => []~panicked
<1>1. SpinInit => ~panicked
  BY DEF SpinInit
<1>2. Inv /\ ~panicked /\ [SpinNext]_spinVars => ~panicked'
  <2> SUFFICES ASSUME Inv, ~panicked, SpinNext PROVE ~panicked'
    BY DEF spinVars
  <2>1. ASSUME NEW c \in Cpus, NEW l \in Locks, ~holding(c, l), acquire(c, l) PROVE ~panicked'
    BY <2>1 DEF acquire
  <2>2. ASSUME NEW c \in Cpus, NEW l \in Locks, holding(c, l), release(c, l) PROVE ~panicked'
    BY <2>2, HolderOff DEF release, Inv, SpinType
  <2> QED
    BY <2>1, <2>2 DEF SpinNext, Acquired, Switch, SetFlag
<1> QED
  BY <1>1, <1>2, InitInv, NextInv, PTL DEF Spinlocks
-----------------------------------------------------------------------------
(* Console input: what a CPU has locked.                                   *)

PtablePCs == {"forkret", "yielding", "yielded", "print", "printed", "zombie",
              "unlock", "sleeping", "awake"}
ConsPCs == {"printed", "put", "loop", "sleep", "unlock", "readdone"}
ReadPCs == {"read", "loop", "sleep", "unlock", "sleeping", "awake"}

\* The interrupt handler is on top of what the CPU runs.
Handling(c) == c = IntrCpu /\ kpc # "none"

\* What the thread of a CPU has locked, and what the CPU has.
ThreadPtable(c) == IF running[c] = NoProc THEN spc[c] = "loop" ELSE pc[running[c]] \in PtablePCs
ThreadCons(c) == running[c] # NoProc /\ pc[running[c]] \in ConsPCs

HasPtable(c) == IF Handling(c) THEN kpc = "woken" ELSE ThreadPtable(c)
HasCons(c) == IF Handling(c) THEN kpc \in {"getc", "wakeup", "woken", "dumped"} ELSE ThreadCons(c)

LockInv ==
    \A c \in Cpus :
        /\ lock["ptable"] = c <=> HasPtable(c)
        /\ lock["cons"] = c <=> HasCons(c)
        /\ Handling(c) => ~ThreadPtable(c) /\ ~ThreadCons(c)

\* Where a CPU acquires a lock.
WantsPtable(c) ==
    IF Handling(c) THEN kpc = "wakeup"
    ELSE IF running[c] = NoProc THEN spc[c] = "acquire" ELSE pc[running[c]] \in {"yield", "exit", "sleep"}
WantsCons(c) ==
    IF Handling(c) THEN kpc \in {"acquire", "procdump"}
    ELSE running[c] # NoProc /\ pc[running[c]] \in {"print", "read", "write"}

SpinInv ==
    \A c \in Cpus :
        /\ spin[c] = "ptable" => WantsPtable(c)
        /\ spin[c] = "cons" => WantsCons(c)

ThreadInv ==
    /\ \A c \in Cpus : running[c] # NoProc => state[running[c]] = "RUNNING" /\ spc[c] = "loop"
    /\ \A c, d \in Cpus : running[c] = running[d] => c = d \/ running[c] = NoProc
    /\ \A p \in Procs : state[p] = "RUNNING" => \E c \in Cpus : running[c] = p
    /\ \A p \in Procs : state[p] = "RUNNABLE" => pc[p] \in {"forkret", "yielded", "awake"}
    /\ \A p \in Procs : state[p] = "SLEEPING" => pc[p] = "awake"
    /\ \A p \in Procs : state[p] = "ZOMBIE" => pc[p] = "zombie"

\* What is left to read for a process in consoleread().
LeftInv == \A p \in Procs : pc[p] \in ReadPCs => n[p] >= 1

Waking == kpc \in {"wakeup", "woken"}

WaitInv ==
    /\ \A p \in Procs : pc[p] \in {"sleep", "unlock"} => r = w
    /\ \A p \in Procs : pc[p] = "sleeping" => r = w \/ Waking
    /\ \A p \in Procs : state[p] = "SLEEPING" => r = w \/ Waking

\* The way from index i to index j.
Way(i, j) == (j + W - i) % W

RingInv == Way(r, w) + Way(w, e) <= INPUT_BUF

LineInv == \A k \in 1 .. Way(w, e) : buf[(w + k - 1) % INPUT_BUF] # Enter

IInv ==
    /\ TypeOK
    /\ HeldOff
    /\ ~panicked
    /\ LockInv
    /\ SpinInv
    /\ ThreadInv
    /\ LeftInv
    /\ WaitInv
    /\ RingInv
    /\ LineInv
-----------------------------------------------------------------------------
(* The locks of a CPU, counted.                                            *)

LEMMA Names == Locks = {"cons", "ptable"} /\ NoLock \notin Locks /\ NoCpu \notin Cpus
               /\ NoProc \notin Procs /\ IntrCpu \in Cpus
BY ConsoleAssumption, SpinlockAssumption

\* A CPU that takes interrupts has and wants nothing, and the other way round
\* the depth of its pushcli()s is 0.
LEMMA NoLocks ==
    ASSUME SpinType, HeldOff, NEW c \in Cpus
    PROVE  /\ on[c] => spin[c] = NoLock /\ \A l \in Locks : lock[l] # c
           /\ spin[c] = NoLock /\ (\A l \in Locks : lock[l] # c) => ncli[c] = 0
<1>1. IsFiniteSet(Held(c)) /\ Cardinality(Held(c)) \in Nat
  BY HeldCount
<1>2. Cardinality(Held(c)) = 0 <=> Held(c) = {}
  BY <1>1, FS_EmptySet
<1>3. Held(c) = {} <=> \A l \in Locks : lock[l] # c
  BY DEF Held
<1>4. ncli[c] = Cardinality(Held(c)) + (IF spin[c] = NoLock THEN 0 ELSE 1) /\ (ncli[c] > 0 => ~on[c])
  BY DEF HeldOff
<1> QED
  BY <1>1, <1>2, <1>3, <1>4

\* sched() is called with ptable.lock and no other.
LEMMA OneLock ==
    ASSUME SpinType, HeldOff, NEW c \in Cpus,
           spin[c] = NoLock, lock["ptable"] = c, lock["cons"] # c
    PROVE  ncli[c] = 1 /\ ~on[c]
<1>1. Held(c) = {"ptable"}
  BY Names DEF Held
<1>2. Cardinality(Held(c)) = 1
  BY <1>1, FS_Singleton
<1>3. ncli[c] = Cardinality(Held(c)) + (IF spin[c] = NoLock THEN 0 ELSE 1) /\ (ncli[c] > 0 => ~on[c])
  BY DEF HeldOff
<1> QED
  BY <1>2, <1>3
-----------------------------------------------------------------------------
(* What acquire() and release() do.                                        *)

SpinOK == [SpinNext]_spinVars /\ panicked' = panicked

Takes(c, l) == lock' = [lock EXCEPT ![l] = c] /\ spin' = [spin EXCEPT ![c] = NoLock]
Waits(c, l) == lock' = lock /\ spin' = [spin EXCEPT ![c] = l]
Gives(l) == lock' = [lock EXCEPT ![l] = NoCpu] /\ spin' = spin

LEMMA Acquires ==
    ASSUME SpinType, NEW c \in Cpus, NEW l \in Locks, ~holding(c, l),
           acquire(c, l) \/ Acquired(c, l)
    PROVE  SpinOK /\ (spin[c] = NoLock \/ spin[c] = l)
           /\ IF lock[l] = NoCpu THEN Takes(c, l) ELSE Waits(c, l)
<1>1. CASE acquire(c, l)
  <2>1. SpinOK
    BY <1>1 DEF SpinOK, SpinNext, acquire
  <2>2. lock[l] = NoCpu => spin' = spin /\ [spin EXCEPT ![c] = NoLock] = spin
    BY <1>1 DEF acquire, SpinType
  <2> QED
    BY <1>1, <2>1, <2>2 DEF acquire, Takes, Waits
<1>2. CASE Acquired(c, l)
  BY <1>2, Names DEF Acquired, Takes, SpinOK, SpinNext
<1> QED
  BY <1>1, <1>2

LEMMA Releases ==
    ASSUME SpinType, HeldOff, NEW c \in Cpus, NEW l \in Locks, holding(c, l), release(c, l)
    PROVE  SpinOK /\ spin[c] = NoLock /\ Gives(l)
<1>1. ncli[c] >= 1 /\ ~on[c] /\ ncli[c] \in Int
  BY HolderOff DEF Inv, SpinType
<1>2. ~(ncli[c] < 1)
  BY <1>1
<1>3. SpinNext
  BY DEF SpinNext
<1> QED
  BY <1>1, <1>2, <1>3 DEF release, SpinOK, Gives
-----------------------------------------------------------------------------
(* Who has what, who waits for what, and who runs where: Control.          *)

Control == TypeOK /\ HeldOff /\ LockInv /\ SpinInv /\ ThreadInv
ControlNext == LockInv' /\ SpinInv' /\ ThreadInv' /\ SpinOK

\* A process that acquires a lock.
LEMMA AcquireKeeps ==
    ASSUME Control, NEW c \in Cpus, NEW p \in Procs, NEW at, NEW l, NEW to,
           \/ at = "yield" /\ l = "ptable" /\ to = "yielding"
           \/ at = "exit"  /\ l = "ptable" /\ to = "print"
           \/ at = "print" /\ l = "cons"   /\ to = "printed"
           \/ at = "read"  /\ l = "cons"   /\ to = "loop"
           \/ at = "write" /\ l = "cons"   /\ to = "put"
           \/ at = "sleep" /\ l = "ptable" /\ to = "unlock",
           AcquireAt(c, p, at, l, to), kpc' = kpc
    PROVE  ControlNext
<1>t. l \in Locks /\ p # NoProc /\ c # NoCpu /\ TypeOK /\ SpinType
  BY Names DEF Control, TypeOK
<1>1. running[c] = p /\ Bare(c) /\ pc[p] = at /\ ~Handling(c)
  BY DEF AcquireAt, At, Bare, Handling
<1>2. ~holding(c, l)
  BY <1>t, <1>1 DEF Control, LockInv, holding, HasPtable, HasCons, ThreadPtable, ThreadCons, PtablePCs, ConsPCs
<1>3. SpinOK /\ (spin[c] = NoLock \/ spin[c] = l) /\ IF lock[l] = NoCpu THEN Takes(c, l) ELSE Waits(c, l)
  BY <1>t, <1>2, Acquires DEF AcquireAt
<1>4. CASE lock[l] = NoCpu
  <2>1. lock' = [lock EXCEPT ![l] = c] /\ spin' = [spin EXCEPT ![c] = NoLock]
    BY <1>3, <1>4 DEF Takes
  <2>2. pc' = [pc EXCEPT ![p] = to] /\ running' = running /\ spc' = spc /\ state' = state
    BY <1>4 DEF AcquireAt, Goto
  <2>3. ThreadInv'
    BY <1>t, <1>1, <2>2 DEF Control, ThreadInv, TypeOK
  <2>4. LockInv'
    <3>1. ASSUME NEW d \in Cpus, d # c
          PROVE  /\ lock'["ptable"] = d <=> HasPtable(d)'
                 /\ lock'["cons"] = d <=> HasCons(d)'
                 /\ Handling(d)' => ~ThreadPtable(d)' /\ ~ThreadCons(d)'
      <4>1. running[d] # p
        BY <1>t, <1>1, <3>1 DEF Control, ThreadInv
      <4> QED
        BY <1>t, <1>4, <2>1, <2>2, <3>1, <4>1, Names DEF Control, TypeOK, SpinType, LockInv, HasPtable, HasCons,
           ThreadPtable, ThreadCons, Handling
    <3>2. /\ lock'["ptable"] = c <=> HasPtable(c)'
          /\ lock'["cons"] = c <=> HasCons(c)'
          /\ ~Handling(c)'
      BY <1>t, <1>1, <2>1, <2>2, Names DEF Control, TypeOK, SpinType, LockInv, HasPtable, HasCons,
         ThreadPtable, ThreadCons, PtablePCs, ConsPCs, Handling
    <3> QED
      BY <3>1, <3>2 DEF LockInv
  <2>5. SpinInv'
    BY <1>t, <1>1, <2>1, <2>2, Names DEF Control, TypeOK, SpinType, ThreadInv, SpinInv, WantsPtable, WantsCons, Handling
  <2> QED
    BY <1>3, <2>3, <2>4, <2>5 DEF ControlNext
<1>5. CASE lock[l] # NoCpu
  <2>1. lock' = lock /\ spin' = [spin EXCEPT ![c] = l]
    BY <1>3, <1>5 DEF Waits
  <2>2. UNCHANGED <<running, spc, state, pc>>
    BY <1>5 DEF AcquireAt, procVars
  <2>3. ThreadInv' /\ LockInv'
    BY <2>1, <2>2 DEF Control, ThreadInv, LockInv, HasPtable, HasCons, ThreadPtable, ThreadCons, Handling
  <2>5. SpinInv'
    BY <1>t, <1>1, <2>1, <2>2, Names DEF Control, TypeOK, SpinType, SpinInv, WantsPtable, WantsCons, Handling
  <2> QED
    BY <1>3, <2>3, <2>5 DEF ControlNext
<1> QED
  BY <1>4, <1>5

\* A process that releases one.
LEMMA ReleaseKeeps ==
    ASSUME Control, NEW c \in Cpus, NEW p \in Procs, NEW at, NEW l, NEW to,
           \/ at = "forkret"  /\ l = "ptable" /\ to \in {"user", "trapret"}
           \/ at = "yielded"  /\ l = "ptable" /\ to = "trapret"
           \/ at = "printed"  /\ l = "cons"   /\ to = "zombie"
           \/ at = "unlock"   /\ l = "cons"   /\ to = "sleeping"
           \/ at = "awake"    /\ l = "ptable" /\ to = "read"
           \/ at = "readdone" /\ l = "cons"   /\ to = "user"
           \/ at = "put"      /\ l = "cons"   /\ to = "user",
           ReleaseAt(c, p, at, l, to), kpc' = kpc
    PROVE  ControlNext
<1>t. l \in Locks /\ p # NoProc /\ c # NoCpu /\ TypeOK /\ SpinType
  BY Names DEF Control, TypeOK
<1>1. running[c] = p /\ Bare(c) /\ pc[p] = at /\ ~Handling(c)
  BY DEF ReleaseAt, At, Bare, Handling
<1>2. holding(c, l)
  BY <1>t, <1>1 DEF Control, LockInv, holding, HasPtable, HasCons, ThreadPtable, ThreadCons, PtablePCs, ConsPCs
<1>3. SpinOK /\ spin[c] = NoLock /\ Gives(l)
  BY <1>t, <1>2, Releases DEF ReleaseAt, Control
<1>4. lock' = [lock EXCEPT ![l] = NoCpu] /\ spin' = spin /\ lock[l] = c
  BY <1>2, <1>3 DEF Gives, holding
<1>5. pc' = [pc EXCEPT ![p] = to] /\ running' = running /\ spc' = spc /\ state' = state
  BY DEF ReleaseAt, Goto
<1>6. ThreadInv'
  BY <1>t, <1>1, <1>5 DEF Control, ThreadInv, TypeOK
<1>7. LockInv'
  BY <1>t, <1>1, <1>4, <1>5, Names DEF Control, TypeOK, SpinType, ThreadInv, LockInv, HasPtable, HasCons,
     ThreadPtable, ThreadCons, PtablePCs, ConsPCs, Handling
<1>8. SpinInv'
  BY <1>t, <1>1, <1>3, <1>4, <1>5, Names DEF Control, TypeOK, SpinType, ThreadInv, SpinInv, WantsPtable, WantsCons, Handling
<1> QED
  BY <1>3, <1>6, <1>7, <1>8 DEF ControlNext

\* sched(): the panics are not reached.
LEMMA SchedKeeps ==
    ASSUME Control, NEW c \in Cpus, NEW p \in Procs, NEW at, NEW st, NEW to,
           \/ at = "yielding" /\ st = "RUNNABLE" /\ to = "yielded"
           \/ at = "zombie"   /\ st = "ZOMBIE"   /\ to = "zombie"
           \/ at = "sleeping" /\ st = "SLEEPING" /\ to = "awake",
           sched(c, p, at, st, to), kpc' = kpc
    PROVE  ControlNext
<1>t. p # NoProc /\ c # NoCpu /\ TypeOK /\ SpinType
  BY Names DEF Control, TypeOK
<1>1. running[c] = p /\ Bare(c) /\ pc[p] = at /\ ~Handling(c)
  BY DEF sched, At, Bare, Handling
<1>2. lock["ptable"] = c /\ lock["cons"] # c
  BY <1>t, <1>1 DEF Control, LockInv, HasPtable, HasCons, ThreadPtable, ThreadCons, PtablePCs, ConsPCs
<1>3. spin[c] = NoLock
  BY <1>t, <1>1, Names DEF Control, SpinInv, WantsPtable, WantsCons, SpinType
<1>4. ncli[c] = 1 /\ ~on[c]
  BY <1>t, <1>2, <1>3, OneLock DEF Control
<1>5. UNCHANGED spinVars
  BY <1>2, <1>4 DEF sched, holding
<1>6. /\ lock' = lock /\ spin' = spin /\ spc' = spc /\ pc' = [pc EXCEPT ![p] = to]
      /\ running' = [running EXCEPT ![c] = NoProc] /\ state' = [state EXCEPT ![p] = st]
  BY <1>5 DEF sched, spinVars
<1>7. ThreadInv'
  BY <1>t, <1>1, <1>6, Names DEF Control, ThreadInv, TypeOK
<1>8. LockInv'
  BY <1>t, <1>1, <1>2, <1>6, Names DEF Control, TypeOK, SpinType, ThreadInv, LockInv, HasPtable, HasCons,
     ThreadPtable, ThreadCons, PtablePCs, ConsPCs, Handling
<1>9. SpinInv'
  BY <1>t, <1>1, <1>3, <1>6, Names DEF Control, TypeOK, SpinType, ThreadInv, SpinInv, WantsPtable, WantsCons, Handling
<1> QED
  BY <1>5, <1>7, <1>8, <1>9 DEF ControlNext, SpinOK, spinVars

\* A process that goes on with the locks that it has.
LEMMA GotoKeeps ==
    ASSUME Control, NEW c \in Cpus, NEW p \in Procs, NEW at, NEW to,
           \/ at = "trapret" /\ to = "user"
           \/ at = "user" /\ to \in {"yield", "exit", "read", "write"}
           \/ at = "loop" /\ to \in {"readdone", "sleep", "loop"},
           At(c, p, at), Goto(p, to), kpc' = kpc,
           \/ UNCHANGED spinVars
           \/ on[c] /\ SetFlag(c, FALSE)
           \/ at = "trapret" /\ SetFlag(c, TRUE)
    PROVE  ControlNext
<1>t. p # NoProc /\ c # NoCpu /\ TypeOK /\ SpinType
  BY Names DEF Control, TypeOK
<1>1. running[c] = p /\ pc[p] = at /\ ~Handling(c)
  BY DEF At, Bare, Handling
<1>2. /\ lock' = lock /\ spin' = spin /\ spc' = spc /\ pc' = [pc EXCEPT ![p] = to]
      /\ running' = running /\ state' = state
  BY DEF Goto, SetFlag, spinVars
<1>3. spin[c] = NoLock
  BY <1>t, <1>1, Names DEF Control, SpinInv, WantsPtable, WantsCons, SpinType
<1>4. at = "trapret" => ncli[c] = 0
  <2>1. at = "trapret" => lock["ptable"] # c /\ lock["cons"] # c
    BY <1>t, <1>1 DEF Control, LockInv, HasPtable, HasCons, ThreadPtable, ThreadCons, PtablePCs, ConsPCs
  <2> QED
    BY <1>t, <1>3, <2>1, Names, NoLocks DEF Control
<1>5. SpinOK
  BY <1>4 DEF SpinOK, SpinNext, SetFlag, spinVars
<1>7. ThreadInv'
  BY <1>t, <1>1, <1>2, Names DEF Control, ThreadInv, TypeOK
<1>8. LockInv'
  BY <1>t, <1>1, <1>2, Names DEF Control, TypeOK, SpinType, ThreadInv, LockInv, HasPtable, HasCons,
     ThreadPtable, ThreadCons, PtablePCs, ConsPCs, Handling
<1>9. SpinInv'
  BY <1>t, <1>1, <1>3, <1>2, Names DEF Control, TypeOK, SpinType, ThreadInv, SpinInv, WantsPtable, WantsCons, Handling
<1> QED
  BY <1>5, <1>7, <1>8, <1>9 DEF ControlNext

\* The scheduler.
LEMMA SchedulerKeeps ==
    ASSUME Control, NEW c \in Cpus,
           Sti(c) \/ SchedAcquire(c) \/ SchedRelease(c) \/ \E p \in Procs : Dispatch(c, p)
    PROVE  ControlNext
<1>t. c # NoCpu /\ TypeOK /\ SpinType /\ "ptable" \in Locks
  BY Names DEF Control, TypeOK
<1>1. running[c] = NoProc /\ ~Handling(c) /\ kpc' = kpc
  BY DEF Sti, SchedAcquire, SchedRelease, Dispatch, Bare, Handling, intrVars
<1>2. CASE Sti(c)
  <2>1. UNCHANGED <<lock, spin, running, state, pc>> /\ spc' = [spc EXCEPT ![c] = "acquire"] /\ spc[c] = "sti"
    BY <1>2 DEF Sti, SetFlag, SpcGoto
  <2>2. spin[c] = NoLock
    BY <1>t, <1>1, <2>1, Names DEF Control, SpinInv, WantsPtable, WantsCons, SpinType
  <2>3. ncli[c] = 0
    <3>1. lock["ptable"] # c /\ lock["cons"] # c
      BY <1>t, <1>1, <2>1 DEF Control, LockInv, HasPtable, HasCons, ThreadPtable, ThreadCons
    <3> QED
      BY <1>t, <2>2, <3>1, Names, NoLocks DEF Control
  <2>4. SpinOK
    BY <1>2, <2>3 DEF SpinOK, SpinNext, Sti, SetFlag
  <2>5. ThreadInv'
    BY <1>t, <1>1, <2>1, Names DEF Control, ThreadInv, TypeOK
  <2>6. LockInv'
    BY <1>t, <1>1, <2>1, Names DEF Control, TypeOK, SpinType, LockInv, HasPtable, HasCons,
       ThreadPtable, ThreadCons, Handling
  <2>7. SpinInv'
    BY <1>t, <1>1, <2>1, <2>2, Names DEF Control, TypeOK, SpinType, SpinInv, WantsPtable, WantsCons, Handling
  <2> QED
    BY <2>4, <2>5, <2>6, <2>7 DEF ControlNext
<1>3. CASE SchedAcquire(c)
  <2>0. spc[c] = "acquire"
    BY <1>3 DEF SchedAcquire
  <2>1. ~holding(c, "ptable")
    BY <1>t, <1>1, <2>0 DEF Control, LockInv, holding, HasPtable, ThreadPtable
  <2>2. SpinOK /\ IF lock["ptable"] = NoCpu THEN Takes(c, "ptable") ELSE Waits(c, "ptable")
    BY <1>t, <1>3, <2>1, Acquires DEF SchedAcquire
  <2>3. CASE lock["ptable"] = NoCpu
    <3>1. /\ lock' = [lock EXCEPT !["ptable"] = c] /\ spin' = [spin EXCEPT ![c] = NoLock]
          /\ UNCHANGED <<running, state, pc>> /\ spc' = [spc EXCEPT ![c] = "loop"]
      BY <1>3, <2>2, <2>3 DEF SchedAcquire, Takes, SpcGoto
    <3>2. ThreadInv'
      BY <1>t, <1>1, <3>1, Names DEF Control, ThreadInv, TypeOK
    <3>3. LockInv'
      BY <1>t, <1>1, <2>0, <2>3, <3>1, Names DEF Control, TypeOK, SpinType, LockInv, HasPtable, HasCons,
         ThreadPtable, ThreadCons, Handling
    <3>4. SpinInv'
      BY <1>t, <1>1, <3>1, Names DEF Control, TypeOK, SpinType, SpinInv, WantsPtable, WantsCons, Handling
    <3> QED
      BY <2>2, <3>2, <3>3, <3>4 DEF ControlNext
  <2>4. CASE lock["ptable"] # NoCpu
    <3>1. lock' = lock /\ spin' = [spin EXCEPT ![c] = "ptable"] /\ UNCHANGED <<running, state, pc, spc>>
      BY <1>3, <2>2, <2>4 DEF SchedAcquire, Waits, procVars
    <3>2. ThreadInv' /\ LockInv'
      BY <1>1, <3>1 DEF Control, ThreadInv, LockInv, HasPtable, HasCons, ThreadPtable, ThreadCons, Handling
    <3>3. SpinInv'
      BY <1>t, <1>1, <2>0, <3>1, Names DEF Control, SpinType, SpinInv, WantsPtable, WantsCons, Handling
    <3> QED
      BY <2>2, <3>2, <3>3 DEF ControlNext
  <2> QED
    BY <2>3, <2>4
<1>4. CASE SchedRelease(c)
  <2>0. spc[c] = "loop"
    BY <1>4 DEF SchedRelease
  <2>1. holding(c, "ptable")
    BY <1>t, <1>1, <2>0 DEF Control, LockInv, holding, HasPtable, ThreadPtable
  <2>2. SpinOK /\ spin[c] = NoLock /\ Gives("ptable")
    BY <1>t, <1>4, <2>1, Releases DEF SchedRelease, Control
  <2>3. /\ lock' = [lock EXCEPT !["ptable"] = NoCpu] /\ spin' = spin /\ UNCHANGED <<running, state, pc>>
        /\ lock["ptable"] = c
        /\ spc' = [spc EXCEPT ![c] = IF intena[c] THEN "acquire" ELSE "sti"]
    BY <1>4, <2>1, <2>2 DEF SchedRelease, Gives, SpcGoto, holding
  <2>4. ThreadInv'
    BY <1>t, <1>1, <2>3, Names DEF Control, ThreadInv, TypeOK
  <2>5. LockInv'
    BY <1>t, <1>1, <2>0, <2>3, Names DEF Control, TypeOK, SpinType, LockInv, HasPtable, HasCons,
       ThreadPtable, ThreadCons, Handling
  <2>6. SpinInv'
    BY <1>t, <1>1, <2>2, <2>3, Names DEF Control, TypeOK, SpinType, SpinInv, WantsPtable, WantsCons, Handling
  <2> QED
    BY <2>2, <2>4, <2>5, <2>6 DEF ControlNext
<1>5. ASSUME NEW p \in Procs, Dispatch(c, p) PROVE ControlNext
  <2>0. spc[c] = "loop" /\ state[p] = "RUNNABLE" /\ pc[p] \in {"forkret", "yielded", "awake"} /\ p # NoProc
    BY <1>5, Names DEF Dispatch, Control, ThreadInv
  <2>1. /\ UNCHANGED <<lock, spin, spc, pc>> /\ running' = [running EXCEPT ![c] = p]
        /\ state' = [state EXCEPT ![p] = "RUNNING"]
    BY <1>5 DEF Dispatch, Switch
  <2>2. lock["ptable"] = c /\ lock["cons"] # c
    BY <1>t, <1>1, <2>0 DEF Control, LockInv, HasPtable, HasCons, ThreadPtable, ThreadCons
  <2>3. spin[c] = NoLock
    BY <1>t, <1>1, <2>0, Names DEF Control, SpinInv, WantsPtable, WantsCons, SpinType
  <2>4. ncli[c] = 1
    BY <1>t, <2>2, <2>3, OneLock DEF Control
  <2>5. SpinOK
    <3>1. PICK b : Switch(c, b) /\ b \in BOOLEAN
      <4>1. kept[p] \in BOOLEAN /\ intena[c] \in BOOLEAN
        BY <1>t, Zenon DEF TypeOK, SpinType
      <4> QED
        BY <1>5, <4>1, Zenon DEF Dispatch
    <3> QED
      BY <2>3, <2>4, <3>1 DEF SpinOK, SpinNext, Switch
  <2>6. ThreadInv'
    BY <1>t, <1>1, <2>0, <2>1, Names DEF Control, ThreadInv, TypeOK
  <2>7. LockInv'
    BY <1>t, <1>1, <2>0, <2>1, <2>2, Names DEF Control, TypeOK, SpinType, LockInv, HasPtable, HasCons,
       ThreadPtable, ThreadCons, PtablePCs, ConsPCs, Handling
  <2>8. SpinInv'
    BY <1>t, <1>1, <2>1, <2>3, Names DEF Control, TypeOK, SpinType, SpinInv, WantsPtable, WantsCons, Handling
  <2> QED
    BY <2>5, <2>6, <2>7, <2>8 DEF ControlNext
<1> QED
  BY <1>2, <1>3, <1>4, <1>5

\* consoleintr() acquires a lock, ...
LEMMA IntrAcquireKeeps ==
    ASSUME Control, NEW at, NEW l, NEW to,
           \/ at = "acquire"  /\ l = "cons"   /\ to = "getc"
           \/ at = "wakeup"   /\ l = "ptable" /\ to = "woken"
           \/ at = "procdump" /\ l = "cons"   /\ to = "dumped",
           IntrAcquire(at, l, to)
    PROVE  ControlNext
<1> DEFINE c == IntrCpu
<1>t. c \in Cpus /\ c # NoCpu /\ TypeOK /\ SpinType /\ l \in Locks
  BY Names DEF Control, TypeOK
<1>1. kpc = at /\ Handling(c) /\ UNCHANGED <<running, state, pc, spc>>
  BY DEF IntrAcquire, Intr, Handling, procVars
<1>2. ~holding(c, l)
  BY <1>t, <1>1 DEF Control, LockInv, holding, HasPtable, HasCons
<1>3. SpinOK /\ IF lock[l] = NoCpu THEN Takes(c, l) ELSE Waits(c, l)
  BY <1>t, <1>2, Acquires DEF IntrAcquire
<1>4. kpc' = IF lock[l] = NoCpu THEN to ELSE at
  BY DEF IntrAcquire, Intr
<1>5. ThreadInv'
  BY <1>1 DEF Control, ThreadInv
<1>6. CASE lock[l] = NoCpu
  <2>1. lock' = [lock EXCEPT ![l] = c] /\ spin' = [spin EXCEPT ![c] = NoLock] /\ kpc' = to
    BY <1>3, <1>4, <1>6 DEF Takes
  <2>2. LockInv'
    BY <1>t, <1>1, <1>6, <2>1, Names DEF Control, SpinType, LockInv, HasPtable, HasCons,
       ThreadPtable, ThreadCons, Handling
  <2>3. SpinInv'
    BY <1>t, <1>1, <2>1, Names DEF Control, SpinType, SpinInv, WantsPtable, WantsCons, Handling
  <2> QED
    BY <1>3, <1>5, <2>2, <2>3 DEF ControlNext
<1>7. CASE lock[l] # NoCpu
  <2>1. lock' = lock /\ spin' = [spin EXCEPT ![c] = l] /\ kpc' = kpc
    BY <1>1, <1>3, <1>4, <1>7 DEF Waits
  <2>2. LockInv'
    BY <1>1, <2>1 DEF Control, LockInv, HasPtable, HasCons, ThreadPtable, ThreadCons, Handling
  <2>3. SpinInv'
    BY <1>t, <1>1, <2>1, Names DEF Control, SpinType, SpinInv, WantsPtable, WantsCons, Handling
  <2> QED
    BY <1>3, <1>5, <2>2, <2>3 DEF ControlNext
<1> QED
  BY <1>6, <1>7

\* ... releases one, and with ptable.lock has woken the readers, ...
LEMMA IntrReleaseKeeps ==
    ASSUME Control, NEW at, NEW l, NEW to,
           \/ at = "woken"  /\ l = "ptable" /\ to = "getc"
           \/ at = "getc"   /\ l = "cons"   /\ to \in {"procdump", "iret"}
           \/ at = "dumped" /\ l = "cons"   /\ to = "iret",
           Intr(at, to), release(IntrCpu, l), UNCHANGED <<running, spc, pc>>,
           state' \in {state, Woken}
    PROVE  ControlNext
<1> DEFINE c == IntrCpu
<1>t. c \in Cpus /\ c # NoCpu /\ TypeOK /\ SpinType /\ l \in Locks
  BY Names DEF Control, TypeOK
<1>1. kpc = at /\ kpc' = to /\ Handling(c)
  BY DEF Intr, Handling
<1>2. holding(c, l)
  BY <1>t, <1>1 DEF Control, LockInv, holding, HasPtable, HasCons
<1>3. SpinOK /\ spin[c] = NoLock /\ Gives(l)
  BY <1>t, <1>2, Releases DEF Control
<1>4. lock' = [lock EXCEPT ![l] = NoCpu] /\ spin' = spin /\ lock[l] = c
  BY <1>2, <1>3 DEF Gives, holding
<1>5. ThreadInv'
  BY <1>t DEF Control, ThreadInv, Woken, TypeOK
<1>6. LockInv'
  BY <1>t, <1>1, <1>4, Names DEF Control, SpinType, LockInv, HasPtable, HasCons,
     ThreadPtable, ThreadCons, Handling
<1>7. SpinInv'
  BY <1>t, <1>1, <1>3, <1>4, Names DEF Control, SpinType, SpinInv, WantsPtable, WantsCons, Handling
<1> QED
  BY <1>3, <1>5, <1>6, <1>7 DEF ControlNext

\* ... or does neither.
LEMMA IntrGotoKeeps ==
    ASSUME Control, NEW at, NEW to,
           Intr(at, to), UNCHANGED procVars,
           \/ at = "none" /\ to = "acquire" /\ on[IntrCpu] /\ SetFlag(IntrCpu, FALSE)
           \/ at = "iret" /\ to = "none" /\ SetFlag(IntrCpu, TRUE)
           \/ at = "getc" /\ to \in {"getc", "wakeup"} /\ UNCHANGED spinVars
    PROVE  ControlNext
<1> DEFINE c == IntrCpu
<1>t. c \in Cpus /\ c # NoCpu /\ TypeOK /\ SpinType /\ "cons" \in Locks /\ "ptable" \in Locks
  BY Names DEF Control, TypeOK
<1>1. /\ kpc = at /\ kpc' = to /\ UNCHANGED <<running, state, pc, spc>>
      /\ lock' = lock /\ spin' = spin /\ panicked' = panicked
  BY DEF Intr, procVars, SetFlag, spinVars
<1>2. spin[c] = NoLock
  BY <1>t, <1>1, Names, NoLocks DEF Control, SpinInv, WantsPtable, WantsCons, SpinType, Handling
<1>3. at = "none" => lock["ptable"] # c /\ lock["cons"] # c
  BY <1>t, NoLocks DEF Control
<1>4. at = "iret" => ncli[c] = 0
  <2>1. at = "iret" => lock["ptable"] # c /\ lock["cons"] # c
    BY <1>t, <1>1 DEF Control, LockInv, HasPtable, HasCons, Handling
  <2> QED
    BY <1>t, <1>2, <2>1, Names, NoLocks DEF Control
<1>5. SpinOK
  BY <1>t, <1>1, <1>4 DEF SpinOK, SpinNext
<1>6. ThreadInv'
  BY <1>1 DEF Control, ThreadInv
<1>7. LockInv'
  BY <1>t, <1>1, <1>3, Names DEF Control, SpinType, LockInv, HasPtable, HasCons,
     ThreadPtable, ThreadCons, Handling
<1>8. SpinInv'
  BY <1>t, <1>1, <1>2, Names DEF Control, SpinType, SpinInv, WantsPtable, WantsCons, Handling
<1> QED
  BY <1>5, <1>6, <1>7, <1>8 DEF ControlNext

LEMMA KillKeeps ==
    ASSUME Control, NEW p \in Procs, kill(p)
    PROVE  ControlNext
<1>1. UNCHANGED spinVars /\ UNCHANGED <<running, spc, pc, kpc, lock, spin>>
  BY DEF kill, intrVars, spinVars
<1>2. state' = [state EXCEPT ![p] = IF @ = "SLEEPING" THEN "RUNNABLE" ELSE @]
  BY DEF kill
<1>3. ThreadInv'
  BY <1>1, <1>2 DEF Control, ThreadInv, TypeOK
<1>4. LockInv' /\ SpinInv'
  BY <1>1 DEF Control, LockInv, SpinInv, HasPtable, HasCons, ThreadPtable, ThreadCons, WantsPtable, WantsCons, Handling
<1> QED
  BY <1>1, <1>3, <1>4 DEF ControlNext, SpinOK, spinVars

LEMMA ProcessKeeps ==
    ASSUME Control, NEW c \in Cpus, NEW p \in Procs, Process(c, p)
    PROVE  ControlNext
<1>k. kpc' = kpc
  BY DEF Process, Forkret, Trapret, Timer, Yield, Exit, Call, Write, ReadEnter, ReadEmpty, ReadByte,
     ReadSleep, ReadAwake, ReadDone, intrVars
<1>1. CASE Forkret(c, p)
  <2> DEFINE to == IF intena[c] THEN "user" ELSE "trapret"
  <2>1. ReleaseAt(c, p, "forkret", "ptable", to)
    BY <1>1 DEF Forkret
  <2> QED
    BY <1>k, <2>1, ReleaseKeeps
<1>2. CASE Trapret(c, p)
  BY <1>k, <1>2, GotoKeeps DEF Trapret
<1>3. CASE Timer(c, p)
  BY <1>k, <1>3, GotoKeeps DEF Timer
<1>4. CASE Yield(c, p)
  BY <1>k, <1>4, AcquireKeeps, SchedKeeps, ReleaseKeeps DEF Yield
<1>5. CASE Exit(c, p)
  BY <1>k, <1>5, AcquireKeeps, SchedKeeps, ReleaseKeeps, GotoKeeps DEF Exit
<1>6. CASE Call(c, p)
  BY <1>k, <1>6, GotoKeeps DEF Call
<1>7. CASE Write(c, p)
  BY <1>k, <1>7, AcquireKeeps, ReleaseKeeps DEF Write
<1>8. CASE ReadEnter(c, p)
  BY <1>k, <1>8, AcquireKeeps DEF ReadEnter
<1>9. CASE ReadEmpty(c, p)
  BY <1>k, <1>9, GotoKeeps DEF ReadEmpty
<1>10. CASE ReadByte(c, p)
  <2>1. At(c, p, "loop") /\ UNCHANGED spinVars /\ \E to \in {"readdone", "loop"} : Goto(p, to)
    BY <1>10, Zenon DEF ReadByte
  <2> QED
    BY <1>k, <2>1, GotoKeeps
<1>11. CASE ReadSleep(c, p)
  BY <1>k, <1>11, AcquireKeeps, SchedKeeps, ReleaseKeeps DEF ReadSleep
<1>12. CASE ReadAwake(c, p)
  BY <1>k, <1>12, ReleaseKeeps DEF ReadAwake
<1>13. CASE ReadDone(c, p)
  BY <1>k, <1>13, ReleaseKeeps DEF ReadDone
<1> QED
  BY <1>1, <1>2, <1>3, <1>4, <1>5, <1>6, <1>7, <1>8, <1>9, <1>10, <1>11, <1>12, <1>13 DEF Process

LEMMA IntrKeeps ==
    ASSUME Control, Interrupt \/ consoleintr
    PROVE  ControlNext
<1>1. CASE Interrupt
  BY <1>1, IntrGotoKeeps DEF Interrupt
<1>2. CASE IntrAcquire("acquire", "cons", "getc")
  BY <1>2, IntrAcquireKeeps
<1>3. ASSUME NEW k \in Keys, Key(k) PROVE ControlNext
  BY <1>3, IntrGotoKeeps DEF Key
<1>4. ASSUME NEW k \in Keys, Typed(k) PROVE ControlNext
  <2>1. ~panicked /\ kpc = "getc" /\ kpc' \in {"getc", "wakeup"} /\ UNCHANGED spinVars /\ UNCHANGED procVars
    BY <1>4 DEF Typed
  <2> QED
    BY <2>1, IntrGotoKeeps DEF Intr
<1>5. CASE Wakeup
  BY <1>5, IntrAcquireKeeps, IntrReleaseKeeps DEF Wakeup
<1>6. CASE IntrEnd
  <2>1. CASE Intr("iret", "none") /\ SetFlag(IntrCpu, TRUE)
    BY <1>6, <2>1, IntrGotoKeeps DEF IntrEnd
  <2>2. CASE Intr("getc", IF dump THEN "procdump" ELSE "iret") /\ release(IntrCpu, "cons")
    <3>1. PICK to \in {"procdump", "iret"} : Intr("getc", to)
      BY <2>2, Zenon
    <3> QED
      BY <1>6, <2>2, <3>1, IntrReleaseKeeps DEF IntrEnd, procVars
  <2> QED
    BY <1>6, <2>1, <2>2 DEF IntrEnd
<1>7. CASE procdump
  BY <1>7, IntrAcquireKeeps, IntrReleaseKeeps DEF procdump, procVars
<1> QED
  BY <1>1, <1>2, <1>3, <1>4, <1>5, <1>6, <1>7 DEF consoleintr

LEMMA StepControl ==
    ASSUME Control, [Next]_vars
    PROVE  ControlNext
<1>1. CASE UNCHANGED vars
  BY <1>1 DEF Control, ControlNext, SpinOK, LockInv, SpinInv, ThreadInv, HasPtable, HasCons, ThreadPtable, ThreadCons,
     WantsPtable, WantsCons, Handling, vars, spinVars, procVars, intrVars
<1> QED
  BY <1>1, SchedulerKeeps, ProcessKeeps, IntrKeeps, KillKeeps DEF Next
-----------------------------------------------------------------------------
(* The arithmetic of the indices.                                          *)

LEMMA BufSizes == INPUT_BUF \in Nat \ {0} /\ W \in Nat \ {0} /\ INPUT_BUF < W
BY ConsoleAssumption

LEMMA Wrap == \A a \in 0 .. 2 * W - 1 : a % W = IF a < W THEN a ELSE a - W
BY BufSizes

LEMMA WayIs ==
    ASSUME NEW i \in 0 .. W - 1, NEW j \in 0 .. W - 1
    PROVE  Way(i, j) = IF i <= j THEN j - i ELSE j + W - i
BY BufSizes, Wrap DEF Way

\* The next index, and the one before.
LEMMA Steps ==
    ASSUME NEW i \in 0 .. W - 1
    PROVE  /\ (i + 1) % W = IF i = W - 1 THEN 0 ELSE i + 1
           /\ (i + W - 1) % W = IF i = 0 THEN W - 1 ELSE i - 1
           /\ (i + 1) % W \in 0 .. W - 1 /\ (i + W - 1) % W \in 0 .. W - 1
BY BufSizes, Wrap

LEMMA Ways ==
    ASSUME NEW i \in 0 .. W - 1, NEW j \in 0 .. W - 1
    PROVE  /\ Way(i, j) \in 0 .. W - 1
           /\ Way(i, j) = 0 <=> i = j
           /\ i # j => Way((i + 1) % W, j) = Way(i, j) - 1
           /\ i # j => Way(i, (j + W - 1) % W) = Way(i, j) - 1
           /\ Way(i, j) < W - 1 => Way(i, (j + 1) % W) = Way(i, j) + 1
           /\ j = (i + Way(i, j)) % W
<1>1. Way(i, j) = IF i <= j THEN j - i ELSE j + W - i
  BY WayIs
<1>2. Way(i, j) \in 0 .. W - 1 /\ (Way(i, j) = 0 <=> i = j)
  BY <1>1, BufSizes
<1>3. i # j => Way((i + 1) % W, j) = Way(i, j) - 1
  <2> DEFINE x == (i + 1) % W
  <2>1. x = (IF i = W - 1 THEN 0 ELSE i + 1) /\ x \in 0 .. W - 1
    BY Steps
  <2> HIDE DEF x
  <2>2. Way(x, j) = IF x <= j THEN j - x ELSE j + W - x
    BY <2>1, WayIs
  <2> QED
    BY <1>1, <2>1, <2>2, BufSizes DEF x
<1>4. i # j => Way(i, (j + W - 1) % W) = Way(i, j) - 1
  <2> DEFINE x == (j + W - 1) % W
  <2>1. x = (IF j = 0 THEN W - 1 ELSE j - 1) /\ x \in 0 .. W - 1
    BY Steps
  <2> HIDE DEF x
  <2>2. Way(i, x) = IF i <= x THEN x - i ELSE x + W - i
    BY <2>1, WayIs
  <2> QED
    BY <1>1, <2>1, <2>2, BufSizes DEF x
<1>5. Way(i, j) < W - 1 => Way(i, (j + 1) % W) = Way(i, j) + 1
  <2> DEFINE x == (j + 1) % W
  <2>1. x = (IF j = W - 1 THEN 0 ELSE j + 1) /\ x \in 0 .. W - 1
    BY Steps
  <2> HIDE DEF x
  <2>2. Way(i, x) = IF i <= x THEN x - i ELSE x + W - i
    BY <2>1, WayIs
  <2> QED
    BY <1>1, <2>1, <2>2, BufSizes DEF x
<1>6. j = (i + Way(i, j)) % W
  <2> DEFINE a == i + Way(i, j)
  <2>1. a \in 0 .. 2 * W - 1 /\ a = IF i <= j THEN j ELSE j + W
    BY <1>1, BufSizes
  <2> HIDE DEF a
  <2>2. a % W = IF a < W THEN a ELSE a - W
    BY <2>1, Wrap
  <2> QED
    BY <2>1, <2>2, BufSizes DEF a
<1> QED
  BY <1>2, <1>3, <1>4, <1>5, <1>6

LEMMA WaysAdd ==
    ASSUME NEW i \in 0 .. W - 1, NEW j \in 0 .. W - 1, NEW k \in 0 .. W - 1,
           Way(i, j) + Way(j, k) < W
    PROVE  Way(i, k) = Way(i, j) + Way(j, k)
BY WayIs, BufSizes

LEMMA Remainder ==
    ASSUME NEW m \in Nat \ {0}, NEW q \in Nat, NEW s \in 0 .. m - 1
    PROVE  (q * m + s) % m = s
OBVIOUS

\* The place of an index in buf[] is the same a round of the counters later.
LEMMA Round ==
    ASSUME NEW a \in Nat
    PROVE  (a + W) % INPUT_BUF = a % INPUT_BUF
<1> DEFINE m == W \div INPUT_BUF
           j == a \div INPUT_BUF
           s == a % INPUT_BUF
           q == j + m
<1>1. m \in Nat /\ W = m * INPUT_BUF
  BY ConsoleAssumption, BufSizes
<1>2. j \in Nat /\ s \in 0 .. INPUT_BUF - 1 /\ a = j * INPUT_BUF + s
  BY BufSizes
<1> HIDE DEF m, j, s
<1>3. a + W = q * INPUT_BUF + s /\ q \in Nat
  BY <1>1, <1>2, BufSizes
<1> HIDE DEF q
<1>4. (a + W) % INPUT_BUF = s
  BY <1>2, <1>3, BufSizes, Remainder
<1> QED
  BY <1>4 DEF s

\* The place of the k-th character from index i on.
Place(i, k) == (i + k - 1) % INPUT_BUF

LEMMA Places ==
    ASSUME NEW i \in 0 .. W - 1, NEW k \in Nat \ {0}
    PROVE  /\ Place(i, k) \in 0 .. INPUT_BUF - 1
           /\ Place((i + 1) % W, k) = Place(i, k + 1)
           /\ k < W => ((i + k - 1) % W) % INPUT_BUF = Place(i, k)
<1>1. i + k - 1 \in Nat /\ k - 1 \in Nat
  BY BufSizes
<1>2. Place(i, k) \in 0 .. INPUT_BUF - 1
  BY <1>1, BufSizes DEF Place
<1>3. Place((i + 1) % W, k) = Place(i, k + 1)
  <2>1. CASE i # W - 1
    <3>1. ((i + 1) % W) + k - 1 = i + (k + 1) - 1
      BY <2>1, Steps, BufSizes
    <3> QED
      BY <3>1 DEF Place
  <2>2. CASE i = W - 1
    <3>1. ((i + 1) % W) + k - 1 = k - 1 /\ i + (k + 1) - 1 = (k - 1) + W
      BY <2>2, Steps, BufSizes
    <3> QED
      BY <1>1, <3>1, Round DEF Place
  <2> QED
    BY <2>1, <2>2
<1>4. ASSUME k < W PROVE ((i + k - 1) % W) % INPUT_BUF = Place(i, k)
  <2> DEFINE a == i + k - 1
  <2>1. a \in 0 .. 2 * W - 1 /\ (a >= W => a - W \in Nat)
    BY <1>4, BufSizes
  <2> HIDE DEF a
  <2>2. a % W = IF a < W THEN a ELSE a - W
    BY <2>1, Wrap
  <2>3. ASSUME a >= W PROVE a % INPUT_BUF = (a - W) % INPUT_BUF
    <3> DEFINE b == a - W
    <3>1. b \in Nat /\ a = b + W
      BY <2>1, <2>3, BufSizes
    <3> HIDE DEF b
    <3>2. (b + W) % INPUT_BUF = b % INPUT_BUF
      BY <3>1, Round
    <3> QED
      BY <3>1, <3>2 DEF b
  <2>4. (a % W) % INPUT_BUF = a % INPUT_BUF
    BY <2>1, <2>2, <2>3, BufSizes
  <2> QED
    BY <2>4 DEF a, Place
<1> QED
  BY <1>2, <1>3, <1>4

\* The places of INPUT_BUF characters in a row are different.
LEMMA PlacesApart ==
    ASSUME NEW i \in 0 .. W - 1, NEW a \in 1 .. INPUT_BUF, NEW b \in 1 .. INPUT_BUF, a # b
    PROVE  Place(i, a) # Place(i, b)
<1> DEFINE x == i + a - 1
           y == i + b - 1
           j == x \div INPUT_BUF
           k == y \div INPUT_BUF
           s == x % INPUT_BUF
<1>1. x \in Nat /\ y \in Nat /\ x - y = a - b
  BY BufSizes
<1>2. SUFFICES ASSUME x % INPUT_BUF = y % INPUT_BUF PROVE FALSE
  BY DEF Place
<1>3. j \in Nat /\ k \in Nat /\ s \in Nat /\ x = j * INPUT_BUF + s /\ y = k * INPUT_BUF + s
  BY <1>1, <1>2, BufSizes
<1> HIDE DEF x, y, j, k, s
<1>4. a - b = (j - k) * INPUT_BUF
  BY <1>1, <1>3, BufSizes
<1> QED
  BY <1>3, <1>4, BufSizes

\* C('U') goes back to the end of the last finished line, and no further: the
\* line in progress has no end of line in it.
LEMMA LineStartIs ==
    ASSUME TypeOK, LineInv
    PROVE  LineStart = w
<1> DEFINE back_(y) == (e + W - y) % W
           Stops(y) == y = w \/ buf[(y + W - 1) % INPUT_BUF] = Enter
           P(x) == /\ back_(x) <= back_(w) /\ Stops(x)
                   /\ \A y \in 0 .. W - 1 : back_(y) < back_(x) => ~Stops(y)
<1>t. w \in 0 .. W - 1 /\ e \in 0 .. W - 1
  BY DEF TypeOK
<1>w. Way(w, e) \in 0 .. W - 1
  BY <1>t, Ways
<1>1. ASSUME NEW y \in 0 .. W - 1, back_(y) < back_(w) PROVE ~Stops(y)
  <2> DEFINE k == Way(w, e) - Way(y, e)
  <2>0. back_(y) = Way(y, e) /\ back_(w) = Way(w, e)
    BY DEF Way
  <2>1. Way(y, e) \in 0 .. W - 1
    BY <1>t, Ways
  <2>2. k \in 1 .. Way(w, e)
    BY <1>1, <1>w, <2>0, <2>1
  <2>3. y + W - 1 = (w + k - 1) + (IF y = w + k THEN W ELSE 0) /\ y # w /\ k \in Nat
    <3>1. /\ Way(y, e) = IF y <= e THEN e - y ELSE e + W - y
          /\ Way(w, e) = IF w <= e THEN e - w ELSE e + W - w
      BY <1>t, WayIs
    <3> QED
      BY <1>1, <2>0, <1>t, <3>1, <2>2, BufSizes
  <2>4. (y + W - 1) % INPUT_BUF = (w + k - 1) % INPUT_BUF
    <3> DEFINE a == w + k - 1
    <3>1. a \in Nat /\ y + W - 1 = a + (IF y = w + k THEN W ELSE 0)
      BY <1>t, <2>2, <2>3, BufSizes
    <3> HIDE DEF a, k
    <3>2. (a + W) % INPUT_BUF = a % INPUT_BUF
      BY <3>1, Round
    <3>3. CASE y = w + k
      BY <3>1, <3>2, <3>3 DEF a
    <3>4. CASE y # w + k
      <4>1. y + W - 1 = a
        BY <3>1, <3>4
      <4> QED
        BY <4>1 DEF a
    <3> QED
      BY <3>3, <3>4
  <2> HIDE DEF k
  <2>5. buf[(w + k - 1) % INPUT_BUF] # Enter
    BY <2>2 DEF LineInv
  <2> QED
    BY <2>3, <2>4, <2>5
<1>2. P(w)
  BY <1>1, <1>t, <1>w DEF Way
<1>3. ASSUME NEW x \in 0 .. W - 1, P(x) PROVE x = w
  <2>1. ~(back_(x) < back_(w))
    BY <1>1, <1>3
  <2>2. Way(x, e) = Way(w, e)
    <3>1. back_(x) = Way(x, e) /\ back_(w) = Way(w, e)
      BY DEF Way
    <3>2. Way(x, e) \in 0 .. W - 1
      BY <1>t, Ways
    <3> QED
      BY <1>3, <1>w, <2>1, <3>1, <3>2
  <2> QED
    BY <1>t, <2>2, WayIs, BufSizes
<1>4. LineStart = CHOOSE x \in 0 .. W - 1 : P(x)
  BY DEF LineStart
<1> HIDE DEF P
<1> QED
  BY <1>t, <1>2, <1>3, <1>4, Zenon
-----------------------------------------------------------------------------
(* The input buffer.                                                       *)

InputInv == TypeOK /\ RingInv /\ LineInv
BufType == buf \in [0 .. INPUT_BUF - 1 -> Chars] /\ {r, w, e} \subseteq 0 .. W - 1

LEMMA EnterChar == Enter \in Chars
BY ConsoleAssumption DEF Chars, Enter

\* What happens to the buffer.
Reads == r # w /\ r' = (r + 1) % W /\ UNCHANGED <<buf, w, e>>
Erases == e' \in {e, w, Edited} /\ UNCHANGED <<buf, r, w>>
Types(ch) ==
    LET to == (e + 1) % W
        done == ch \in {Enter, ctl("D")} \/ to = (r + INPUT_BUF) % W
    IN  /\ ~Full
        /\ buf' = [buf EXCEPT ![e % INPUT_BUF] = ch]
        /\ e' = to
        /\ w' = IF done THEN to ELSE w
        /\ r' = r

LEMMA KeyErases ==
    ASSUME InputInv, NEW k \in Keys, Key(k)
    PROVE  Erases
<1>1. LineStart = w
  BY LineStartIs DEF InputInv
<1> QED
  BY <1>1 DEF Key, Erases

LEMMA TypedTypes ==
    ASSUME NEW k \in Keys, Typed(k)
    PROVE  \E ch \in Chars : Types(ch) /\ (w' # w => kpc' = "wakeup")
<1> DEFINE ch == IF k = "\r" THEN Enter ELSE k
<1>1. ch \in Chars
  BY EnterChar DEF Typed, Chars
<1>2. Types(ch) /\ (w' # w => kpc' = "wakeup")
  BY DEF Typed, Types
<1> QED
  BY <1>1, <1>2

LEMMA InputSteps ==
    ASSUME InputInv, [Next]_vars
    PROVE  \/ UNCHANGED inputVars
           \/ Reads
           \/ Erases
           \/ kpc = "getc" /\ \E ch \in Chars : Types(ch) /\ (w' # w => kpc' = "wakeup")
<1>1. CASE UNCHANGED vars
  BY <1>1 DEF vars
<1>2. ASSUME NEW c \in Cpus, Sti(c) \/ SchedAcquire(c) \/ SchedRelease(c) \/ \E p \in Procs : Dispatch(c, p)
      PROVE  UNCHANGED inputVars
  BY <1>2 DEF Sti, SchedAcquire, SchedRelease, Dispatch
<1>3. ASSUME NEW c \in Cpus, NEW p \in Procs, Process(c, p)
      PROVE  UNCHANGED inputVars \/ Reads
  <2>1. CASE ReadByte(c, p)
    BY <2>1 DEF ReadByte, Reads, inputVars
  <2> QED
    BY <1>3, <2>1 DEF Process, Forkret, Trapret, Timer, Yield, Exit, Call, Write, ReadEnter, ReadEmpty,
       ReadSleep, ReadAwake, ReadDone
<1>4. CASE Interrupt \/ \E p \in Procs : kill(p)
  BY <1>4 DEF Interrupt, kill
<1>5. CASE consoleintr
  <2>1. ASSUME NEW k \in Keys, Key(k) PROVE Erases
    BY <2>1, KeyErases
  <2>2. ASSUME NEW k \in Keys, Typed(k)
        PROVE  kpc = "getc" /\ \E ch \in Chars : Types(ch) /\ (w' # w => kpc' = "wakeup")
    BY <2>2, TypedTypes DEF Typed
  <2> QED
    BY <1>5, <2>1, <2>2 DEF consoleintr, IntrAcquire, Wakeup, IntrEnd, procdump
<1> QED
  BY <1>1, <1>2, <1>3, <1>4, <1>5 DEF Next

\* Where a character is stored, and the room there is for it.
LEMMA TypesWhere ==
    ASSUME InputInv, NEW ch, Types(ch)
    PROVE  /\ Way(r, w) \in Nat /\ Way(w, e) \in Nat
           /\ Way(r, e) = Way(r, w) + Way(w, e) /\ Way(r, e) < INPUT_BUF
           /\ e % INPUT_BUF = Place(w, Way(w, e) + 1)
           /\ e % INPUT_BUF = Place(r, Way(r, e) + 1)
           /\ Way(w, e') = Way(w, e) + 1 /\ Way(r, e') = Way(r, e) + 1
           /\ e' \in 0 .. W - 1
           /\ e' = (r + INPUT_BUF) % W <=> Way(r, e) + 1 = INPUT_BUF
<1>t. r \in 0 .. W - 1 /\ w \in 0 .. W - 1 /\ e \in 0 .. W - 1
  BY DEF InputInv, TypeOK
<1>1. Way(r, w) \in Nat /\ Way(w, e) \in Nat /\ Way(r, w) + Way(w, e) < W
  BY <1>t, Ways, BufSizes DEF InputInv, RingInv
<1>2. Way(r, e) = Way(r, w) + Way(w, e)
  BY <1>t, <1>1, WaysAdd
<1>3. Way(r, e) < INPUT_BUF
  BY <1>1, <1>2, BufSizes DEF Types, Full, Way
<1>4. Way(w, e) < W - 1 /\ Way(r, e) < W - 1
  BY <1>1, <1>2, <1>3, BufSizes
<1>5. Way(w, e') = Way(w, e) + 1 /\ Way(r, e') = Way(r, e) + 1 /\ e' \in 0 .. W - 1
  BY <1>t, <1>4, Ways, Steps DEF Types
<1>6. ASSUME NEW i \in 0 .. W - 1, Way(i, e) \in Nat, Way(i, e) < W - 1
      PROVE  e % INPUT_BUF = Place(i, Way(i, e) + 1)
  <2> DEFINE k == Way(i, e) + 1
  <2>1. k \in Nat \ {0} /\ k < W /\ i + k - 1 = i + Way(i, e)
    BY <1>6, BufSizes
  <2>2. e = (i + Way(i, e)) % W
    BY <1>t, Ways
  <2>3. ((i + k - 1) % W) % INPUT_BUF = Place(i, k)
    BY <2>1, Places
  <2> QED
    BY <2>1, <2>2, <2>3
<1>7. e' = (r + INPUT_BUF) % W <=> Way(r, e) + 1 = INPUT_BUF
  <2> DEFINE a == r + INPUT_BUF
  <2>1. a \in 0 .. 2 * W - 1
    BY <1>t, BufSizes
  <2> HIDE DEF a
  <2>2. a % W = IF a < W THEN a ELSE a - W
    BY <2>1, Wrap
  <2> DEFINE x == e'
  <2>3. x \in 0 .. W - 1 /\ Way(r, x) = Way(r, e) + 1
    BY <1>5
  <2> HIDE DEF x
  <2>4. Way(r, x) = IF r <= x THEN x - r ELSE x + W - r
    BY <1>t, <2>3, WayIs
  <2> QED
    BY <1>t, <2>2, <2>3, <2>4, BufSizes DEF x, a
<1> QED
  BY <1>t, <1>1, <1>2, <1>3, <1>4, <1>5, <1>6, <1>7

LEMMA InputStep ==
    ASSUME InputInv, [Next]_vars
    PROVE  BufType' /\ RingInv' /\ LineInv'
<1>t. r \in 0 .. W - 1 /\ w \in 0 .. W - 1 /\ e \in 0 .. W - 1 /\ buf \in [0 .. INPUT_BUF - 1 -> Chars]
  BY DEF InputInv, TypeOK
<1>w. Way(r, w) \in Nat /\ Way(w, e) \in Nat /\ Way(r, w) + Way(w, e) <= INPUT_BUF
  BY <1>t, Ways DEF InputInv, RingInv
<1>1. CASE UNCHANGED inputVars
  BY <1>1, <1>t DEF InputInv, inputVars, BufType, RingInv, LineInv, Way
<1>2. CASE Reads
  <2>1. r' \in 0 .. W - 1 /\ Way(r', w) = Way(r, w) - 1
    BY <1>t, <1>2, Steps, Ways DEF Reads
  <2>2. UNCHANGED <<buf, w, e>>
    BY <1>2 DEF Reads
  <2> QED
    BY <1>t, <1>w, <2>1, <2>2, BufSizes DEF InputInv, BufType, RingInv, LineInv, Way
<1>3. CASE Erases
  <2>1. UNCHANGED <<buf, r, w>>
    BY <1>3 DEF Erases
  <2>2. e' \in 0 .. W - 1 /\ Way(w, e') \in Nat /\ Way(w, e') <= Way(w, e)
    <3>1. CASE e' = e
      BY <3>1, <1>t, <1>w
    <3>2. CASE e' = w
      BY <3>2, <1>t, <1>w, Ways
    <3>3. CASE e' = Edited
      <4>1. CASE e = w
        BY <3>3, <4>1, <1>t, <1>w DEF Edited
      <4>2. CASE e # w
        <5>1. e' = (e + W - 1) % W
          BY <3>3, <4>2 DEF Edited
        <5>2. e' \in 0 .. W - 1 /\ Way(w, e') = Way(w, e) - 1 /\ Way(w, e) # 0
          BY <1>t, <4>2, <5>1, Steps, Ways
        <5> QED
          BY <1>w, <5>2
      <4> QED
        BY <4>1, <4>2
    <3> QED
      BY <1>3, <3>1, <3>2, <3>3 DEF Erases
  <2> DEFINE m == Way(w, e')
  <2>3. m \in Nat /\ m <= Way(w, e)
    BY <2>2
  <2>4. Way(r, w)' = Way(r, w) /\ Way(w, e)' = m
    BY <2>1 DEF Way
  <2> HIDE DEF m
  <2>5. RingInv'
    BY <1>w, <2>3, <2>4, BufSizes DEF RingInv
  <2>6. LineInv'
    <3>1. \A k \in 1 .. m : buf[(w + k - 1) % INPUT_BUF] # Enter
      BY <1>w, <2>3 DEF InputInv, LineInv
    <3> QED
      BY <2>1, <2>4, <3>1 DEF LineInv
  <2> QED
    BY <1>t, <2>1, <2>2, <2>5, <2>6 DEF BufType
<1>4. ASSUME NEW ch \in Chars, Types(ch) PROVE BufType' /\ RingInv' /\ LineInv'
  <2> DEFINE x == e'
             y == w'
             m == Way(w, e)
             b == [buf EXCEPT ![Place(w, m + 1)] = ch]
  <2>1. /\ Way(r, e) = Way(r, w) + m /\ Way(r, e) < INPUT_BUF
        /\ e % INPUT_BUF = Place(w, m + 1) /\ Way(w, x) = m + 1 /\ Way(r, x) = Way(r, e) + 1
        /\ x \in 0 .. W - 1 /\ m \in Nat
    BY <1>4, TypesWhere
  <2>2. Place(w, m + 1) \in 0 .. INPUT_BUF - 1
    BY <1>t, <2>1, Places
  <2>3. buf' = b /\ r' = r /\ (y = x \/ (y = w /\ ch # Enter)) /\ b \in [0 .. INPUT_BUF - 1 -> Chars]
    <3>1. buf' = [buf EXCEPT ![e % INPUT_BUF] = ch] /\ r' = r /\ (w' = e' \/ (w' = w /\ ch # Enter))
      BY <1>4 DEF Types
    <3>2. b \in [0 .. INPUT_BUF - 1 -> Chars]
      BY <1>t
    <3> QED
      BY <2>1, <3>1, <3>2
  <2>4. Way(r, w)' = Way(r, y) /\ Way(w, e)' = Way(y, x)
    BY <2>3 DEF Way
  <2> HIDE DEF x, y, m, b
  <2>5. CASE y = x
    <3>1. Way(y, x) = 0 /\ Way(r, y) = Way(r, w) + m + 1 /\ Way(r, w) + m < INPUT_BUF
      BY <2>1, <2>5, Ways
    <3>2. RingInv' /\ LineInv'
      BY <1>w, <2>1, <2>4, <3>1, BufSizes DEF RingInv, LineInv
    <3> QED
      BY <1>t, <2>1, <2>3, <2>5, <3>2 DEF BufType, x, y
  <2>6. CASE y = w /\ ch # Enter
    <3>1. RingInv'
      BY <1>w, <2>1, <2>4, <2>6, BufSizes DEF RingInv
    <3>2. ASSUME NEW k \in 1 .. m + 1 PROVE b[Place(w, k)] # Enter
      <4>1. CASE k = m + 1
        BY <1>t, <2>2, <2>6, <4>1 DEF b
      <4>2. CASE k # m + 1
        <5>1. k \in 1 .. m /\ k \in 1 .. INPUT_BUF /\ m + 1 \in 1 .. INPUT_BUF /\ k \in Nat \ {0}
          BY <1>w, <2>1, <3>2, <4>2, BufSizes
        <5>2. Place(w, k) # Place(w, m + 1) /\ Place(w, k) \in 0 .. INPUT_BUF - 1
          BY <1>t, <4>2, <5>1, Places, PlacesApart
        <5>3. buf[Place(w, k)] # Enter
          BY <5>1 DEF InputInv, LineInv, Place, m
        <5> QED
          BY <1>t, <2>2, <5>2, <5>3 DEF b
      <4> QED
        BY <4>1, <4>2
    <3>3. LineInv'
      <4>1. Way(w, e)' = m + 1 /\ w' = w /\ buf' = b
        BY <2>1, <2>3, <2>4, <2>6 DEF y
      <4> QED
        BY <3>2, <4>1 DEF LineInv, Place
    <3> QED
      BY <1>t, <2>1, <2>3, <2>6, <3>1, <3>3 DEF BufType, x, y
  <2> QED
    BY <2>3, <2>5, <2>6
<1> QED
  BY <1>1, <1>2, <1>3, <1>4, InputSteps
-----------------------------------------------------------------------------
(* consoleread() and the wakeup.                                           *)

\* How a process comes to sleep in consoleread(), ...
LEMMA ReaderSteps ==
    ASSUME TypeOK, [Next]_vars, NEW p \in Procs
    PROVE  /\ pc'[p] = "sleep" /\ pc[p] # "sleep" => r = w /\ UNCHANGED <<r, w, kpc>>
           /\ pc'[p] = "unlock" /\ pc[p] # "unlock" => pc[p] = "sleep" /\ UNCHANGED <<r, w, kpc>>
           /\ pc'[p] = "sleeping" /\ pc[p] # "sleeping" => pc[p] = "unlock" /\ UNCHANGED <<r, w, kpc>>
           /\ state'[p] = "SLEEPING" /\ state[p] # "SLEEPING" => pc[p] = "sleeping" /\ UNCHANGED <<r, w, kpc>>
<1> USE DEF TypeOK
<1>1. CASE UNCHANGED vars
  BY <1>1 DEF vars, procVars
<1>2. ASSUME NEW c \in Cpus, Sti(c) \/ SchedAcquire(c) \/ SchedRelease(c) \/ \E q \in Procs : Dispatch(c, q)
      PROVE  pc' = pc /\ (state'[p] = state[p] \/ state'[p] = "RUNNING")
  BY <1>2 DEF Sti, SchedAcquire, SchedRelease, Dispatch, SpcGoto, procVars
<1>3. CASE Interrupt \/ consoleintr \/ \E q \in Procs : kill(q)
  <2>1. pc' = pc /\ (state'[p] = state[p] \/ state'[p] = "RUNNABLE")
    BY <1>3 DEF Interrupt, consoleintr, kill, IntrAcquire, Key, Typed, Wakeup, Woken, IntrEnd, procdump, procVars
  <2> QED
    BY <2>1
<1>4. ASSUME NEW c \in Cpus, NEW q \in Procs, Process(c, q) PROVE
           /\ pc'[p] = "sleep" /\ pc[p] # "sleep" => r = w /\ UNCHANGED <<r, w, kpc>>
           /\ pc'[p] = "unlock" /\ pc[p] # "unlock" => pc[p] = "sleep" /\ UNCHANGED <<r, w, kpc>>
           /\ pc'[p] = "sleeping" /\ pc[p] # "sleeping" => pc[p] = "unlock" /\ UNCHANGED <<r, w, kpc>>
           /\ state'[p] = "SLEEPING" /\ state[p] # "SLEEPING" => pc[p] = "sleeping" /\ UNCHANGED <<r, w, kpc>>
  <2>1. CASE ReadEmpty(c, q)
    BY <2>1 DEF ReadEmpty, At, Goto, inputVars, intrVars
  <2>2. CASE ReadSleep(c, q)
    BY <2>2 DEF ReadSleep, AcquireAt, ReleaseAt, sched, At, Goto, procVars, inputVars, intrVars
  <2>3. CASE Yield(c, q) \/ Exit(c, q)
    BY <2>3 DEF Yield, Exit, AcquireAt, ReleaseAt, sched, At, Goto, procVars
  <2>4. CASE ReadByte(c, q)
    BY <2>4 DEF ReadByte, At, Goto
  <2>5. CASE \/ Forkret(c, q) \/ Trapret(c, q) \/ Timer(c, q) \/ Call(c, q) \/ Write(c, q) \/ ReadEnter(c, q)
             \/ ReadAwake(c, q) \/ ReadDone(c, q)
    BY <2>5 DEF Forkret, Trapret, Timer, Call, Write, ReadEnter, ReadAwake, ReadDone, AcquireAt, ReleaseAt, At, Goto, procVars
  <2> QED
    BY <1>4, <2>1, <2>2, <2>3, <2>4, <2>5 DEF Process
<1> QED
  BY <1>1, <1>2, <1>3, <1>4 DEF Next

\* ... and how a wakeup ends.
LEMMA WakerSteps ==
    ASSUME [Next]_vars, kpc' # kpc
    PROVE  Waking => kpc' = "woken" \/ (kpc = "woken" /\ state' = Woken)
<1>1. CASE Interrupt \/ consoleintr
  BY <1>1 DEF Interrupt, consoleintr, IntrAcquire, Intr, Key, Typed, Wakeup, IntrEnd, procdump, Waking
<1>2. ASSUME NEW c \in Cpus, Sti(c) \/ SchedAcquire(c) \/ SchedRelease(c) \/ \E p \in Procs : Dispatch(c, p)
      PROVE  UNCHANGED kpc
  BY <1>2 DEF intrVars, Sti, SchedAcquire, SchedRelease, Dispatch
<1>3. ASSUME NEW c \in Cpus, NEW p \in Procs, Process(c, p) PROVE UNCHANGED kpc
  BY <1>3 DEF Process, intrVars, Forkret, Trapret, Timer, Yield, Exit, Call, Write, ReadEnter, ReadEmpty, ReadByte,
     ReadSleep, ReadAwake, ReadDone
<1>4. CASE UNCHANGED vars \/ \E p \in Procs : kill(p)
  BY <1>4 DEF vars, intrVars, kill
<1> QED
  BY <1>1, <1>2, <1>3, <1>4 DEF Next

\* A process with a lock keeps the interrupt out of it.
LEMMA KeepsOut ==
    ASSUME Control, NEW p \in Procs
    PROVE  /\ pc[p] \in {"sleep", "unlock"} => kpc # "getc"
           /\ pc[p] = "sleeping" => kpc # "woken"
<1>1. ASSUME pc[p] \in {"sleep", "unlock", "sleeping"} PROVE \E c \in Cpus : running[c] = p
  <2>1. state[p] \in {"RUNNABLE", "RUNNING", "SLEEPING", "ZOMBIE"}
    BY DEF Control, TypeOK
  <2> QED
    BY <1>1, <2>1 DEF Control, ThreadInv
<1>2. ASSUME NEW c \in Cpus, running[c] = p, pc[p] \in {"sleep", "unlock"}, kpc = "getc" PROVE FALSE
  <2>1. ThreadCons(c) /\ Handling(IntrCpu) /\ HasCons(IntrCpu)
    BY <1>2, Names DEF ThreadCons, ConsPCs, Handling, HasCons
  <2>2. lock["cons"] = IntrCpu
    BY <2>1, Names DEF Control, LockInv
  <2>3. c # IntrCpu
    BY <2>1 DEF Control, LockInv
  <2>4. HasCons(c)
    BY <2>1, <2>3 DEF HasCons, Handling
  <2> QED
    BY <2>2, <2>3, <2>4 DEF Control, LockInv
<1>3. ASSUME NEW c \in Cpus, running[c] = p, pc[p] = "sleeping", kpc = "woken" PROVE FALSE
  <2>1. ThreadPtable(c) /\ Handling(IntrCpu) /\ HasPtable(IntrCpu)
    BY <1>3, Names DEF ThreadPtable, PtablePCs, Handling, HasPtable
  <2>2. lock["ptable"] = IntrCpu
    BY <2>1, Names DEF Control, LockInv
  <2>3. c # IntrCpu
    BY <2>1 DEF Control, LockInv
  <2>4. HasPtable(c)
    BY <2>1, <2>3 DEF HasPtable, Handling
  <2> QED
    BY <2>2, <2>3, <2>4 DEF Control, LockInv
<1> QED
  BY <1>1, <1>2, <1>3

LEMMA WaitStep ==
    ASSUME Control, InputInv, WaitInv, [Next]_vars
    PROVE  WaitInv'
<1> USE DEF WaitInv
<1>1. ASSUME NEW p \in Procs, r = w, kpc # "getc" PROVE r' = w'
  BY <1>1, InputSteps DEF inputVars, Reads, Erases
<1>2. ASSUME NEW p \in Procs, r = w \/ Waking, ~(kpc = "woken" /\ state' = Woken) PROVE r' = w' \/ Waking'
  <2>1. CASE r = w
    BY <2>1, InputSteps DEF inputVars, Reads, Erases, Types, Waking
  <2>2. CASE Waking
    BY <1>2, <2>2, WakerSteps DEF Waking
  <2> QED
    BY <1>2, <2>1, <2>2
<1>3. ASSUME NEW p \in Procs, pc'[p] \in {"sleep", "unlock"} PROVE r' = w'
  BY <1>1, <1>3, ReaderSteps, KeepsOut DEF Control
<1>4. ASSUME NEW p \in Procs, pc'[p] = "sleeping" PROVE r' = w' \/ Waking'
  BY <1>2, <1>4, ReaderSteps, KeepsOut DEF Control
<1>5. ASSUME NEW p \in Procs, state'[p] = "SLEEPING" PROVE r' = w' \/ Waking'
  <2>1. state' # Woken
    BY <1>5 DEF Woken
  <2>2. CASE state[p] = "SLEEPING"
    BY <1>2, <2>1, <2>2
  <2>3. CASE state[p] # "SLEEPING"
    BY <1>5, <2>3, ReaderSteps DEF Control, Waking
  <2> QED
    BY <2>2, <2>3
<1> QED
  BY <1>3, <1>4, <1>5
-----------------------------------------------------------------------------
(* Type correctness.                                                       *)

LEMMA IntrType ==
    ASSUME TypeOK, [Next]_vars
    PROVE  /\ kpc' \in {"none", "acquire", "getc", "wakeup", "woken", "procdump", "dumped", "iret"}
           /\ keys' \in 0 .. MaxKeys /\ dump' \in BOOLEAN
<1>t. /\ kpc \in {"none", "acquire", "getc", "wakeup", "woken", "procdump", "dumped", "iret"}
      /\ keys \in 0 .. MaxKeys /\ dump \in BOOLEAN /\ MaxKeys \in Nat
  BY ConsoleAssumption DEF TypeOK
<1>1. CASE Interrupt
  BY <1>1, <1>t DEF Interrupt, Intr
<1>2. ASSUME NEW k \in Keys, Key(k)
      PROVE  kpc' = "getc" /\ keys' = keys + 1 /\ keys < MaxKeys /\ dump' = (dump \/ k = ctl("P"))
  BY <1>2 DEF Key, Intr
<1>3. ASSUME NEW k \in Keys, Typed(k)
      PROVE  kpc' \in {"getc", "wakeup"} /\ keys' = keys + 1 /\ keys < MaxKeys /\ dump' = dump
  BY <1>3 DEF Typed
<1>4. CASE IntrAcquire("acquire", "cons", "getc") \/ Wakeup \/ IntrEnd \/ procdump
  BY <1>4, <1>t DEF IntrAcquire, Intr, Wakeup, IntrEnd, procdump
<1>5. ASSUME NEW c \in Cpus, Sti(c) \/ SchedAcquire(c) \/ SchedRelease(c) \/ \E p \in Procs : Dispatch(c, p)
      PROVE  UNCHANGED intrVars
  BY <1>5 DEF Sti, SchedAcquire, SchedRelease, Dispatch
<1>6. ASSUME NEW c \in Cpus, NEW p \in Procs, Process(c, p) PROVE UNCHANGED intrVars
  BY <1>6 DEF Process, Forkret, Trapret, Timer, Yield, Exit, Call, Write, ReadEnter, ReadEmpty, ReadByte,
     ReadSleep, ReadAwake, ReadDone
<1>7. CASE UNCHANGED vars \/ \E p \in Procs : kill(p)
  <2>1. UNCHANGED intrVars
    BY <1>7 DEF vars, kill
  <2> QED
    BY <2>1, <1>t DEF intrVars
<1>8. CASE UNCHANGED intrVars
  BY <1>8, <1>t DEF intrVars
<1>9. CASE consoleintr
  <2>1. ASSUME NEW k \in Keys, Key(k) \/ Typed(k)
        PROVE  kpc' \in {"getc", "wakeup"} /\ keys' \in 0 .. MaxKeys /\ dump' \in BOOLEAN
    <3>1. dump' = dump \/ dump' = (dump \/ k = ctl("P"))
      BY <2>1, <1>2, <1>3
    <3>2. dump' \in BOOLEAN
      BY <3>1, <1>t, Zenon
    <3> QED
      BY <2>1, <3>2, <1>t, <1>2, <1>3
  <2> QED
    BY <1>9, <1>4, <2>1 DEF consoleintr
<1> QED
  BY <1>1, <1>5, <1>6, <1>7, <1>8, <1>9 DEF Next

LEMMA ThreadType ==
    ASSUME TypeOK, [Next]_vars
    PROVE  /\ running' \in [Cpus -> Procs \cup {NoProc}] /\ spc' \in [Cpus -> {"sti", "acquire", "loop"}]
           /\ state' \in [Procs -> {"RUNNABLE", "RUNNING", "SLEEPING", "ZOMBIE"}]
           /\ pc' \in [Procs -> PCs]
<1> USE DEF TypeOK
<1>1. CASE UNCHANGED procVars
  BY <1>1 DEF procVars
<1>2. ASSUME NEW c \in Cpus, Sti(c) \/ SchedAcquire(c) \/ SchedRelease(c)
      PROVE  UNCHANGED <<running, state, pc>> /\ spc' \in [Cpus -> {"sti", "acquire", "loop"}]
  BY <1>2 DEF Sti, SchedAcquire, SchedRelease, SpcGoto, procVars
<1>3. ASSUME NEW c \in Cpus, NEW p \in Procs, Dispatch(c, p)
      PROVE  /\ running' \in [Cpus -> Procs \cup {NoProc}] /\ UNCHANGED <<spc, pc>>
             /\ state' \in [Procs -> {"RUNNABLE", "RUNNING", "SLEEPING", "ZOMBIE"}]
  BY <1>3 DEF Dispatch
<1>4. CASE Interrupt \/ consoleintr \/ \E p \in Procs : kill(p)
  <2>1. UNCHANGED <<running, spc, pc>>
    BY <1>4 DEF Interrupt, consoleintr, IntrAcquire, Key, Typed, Wakeup, IntrEnd, procdump, kill, procVars
  <2>2. state' = state \/ state' = Woken \/ \E p \in Procs : kill(p)
    BY <1>4 DEF Interrupt, consoleintr, IntrAcquire, Key, Typed, Wakeup, IntrEnd, procdump, procVars
  <2>3. state' \in [Procs -> {"RUNNABLE", "RUNNING", "SLEEPING", "ZOMBIE"}]
    BY <2>2 DEF Woken, kill
  <2> QED
    BY <2>1, <2>3
<1>6. ASSUME NEW c \in Cpus, NEW p \in Procs, Process(c, p)
      PROVE  UNCHANGED procVars
             \/ \E at \in PCs, to \in PCs :
                  \/ Goto(p, to)
                  \/ \E st \in {"RUNNABLE", "SLEEPING", "ZOMBIE"} : sched(c, p, at, st, to)
  <2> USE DEF PCs, AcquireAt, ReleaseAt
  <2>1. CASE Forkret(c, p)
    <3>1. \E to \in PCs : Goto(p, to)
      <4>1. (IF intena[c] THEN "user" ELSE "trapret") \in PCs
        OBVIOUS
      <4> QED
        BY <2>1, <4>1, Zenon DEF Forkret
    <3> QED
      BY <3>1
  <2>2. CASE Trapret(c, p) \/ Timer(c, p)
    BY <2>2 DEF Trapret, Timer
  <2>3. CASE Yield(c, p)
    BY <2>3 DEF Yield
  <2>4. CASE Exit(c, p)
    BY <2>4 DEF Exit
  <2>5. CASE Call(c, p) \/ Write(c, p) \/ ReadEnter(c, p)
    BY <2>5 DEF Call, Write, ReadEnter
  <2>6. CASE ReadEmpty(c, p) \/ ReadByte(c, p)
    <3>1. \E to \in {"readdone", "sleep", "loop"} : Goto(p, to)
      BY <2>6, Zenon DEF ReadEmpty, ReadByte
    <3> QED
      BY <3>1
  <2>7. CASE ReadSleep(c, p)
    BY <2>7 DEF ReadSleep
  <2>8. CASE ReadAwake(c, p) \/ ReadDone(c, p)
    BY <2>8 DEF ReadAwake, ReadDone
  <2> QED
    BY <1>6, <2>1, <2>2, <2>3, <2>4, <2>5, <2>6, <2>7, <2>8 DEF Process
<1>7. CASE UNCHANGED vars
  BY <1>7 DEF vars, procVars
<1>8. ASSUME NEW c \in Cpus, NEW p \in Procs, Process(c, p)
      PROVE  /\ running' \in [Cpus -> Procs \cup {NoProc}] /\ UNCHANGED spc
             /\ state' \in [Procs -> {"RUNNABLE", "RUNNING", "SLEEPING", "ZOMBIE"}]
             /\ pc' \in [Procs -> PCs]
  <2>1. CASE UNCHANGED procVars
    BY <2>1 DEF procVars
  <2>2. ASSUME NEW at \in PCs, NEW to \in PCs,
               \/ Goto(p, to)
               \/ \E st \in {"RUNNABLE", "SLEEPING", "ZOMBIE"} : sched(c, p, at, st, to)
        PROVE  /\ running' \in [Cpus -> Procs \cup {NoProc}] /\ UNCHANGED spc
               /\ state' \in [Procs -> {"RUNNABLE", "RUNNING", "SLEEPING", "ZOMBIE"}]
               /\ pc' \in [Procs -> PCs]
    <3>1. /\ spc' = spc /\ pc' = [pc EXCEPT ![p] = to]
          /\ running' = running \/ running' = [running EXCEPT ![c] = NoProc]
          /\ \/ state' = state
             \/ \E st \in {"RUNNABLE", "SLEEPING", "ZOMBIE"} : state' = [state EXCEPT ![p] = st]
      BY <2>2, Zenon DEF Goto, sched
    <3> QED
      BY <3>1
  <2> QED
    BY <1>6, <1>8, <2>1, <2>2
<1> QED
  BY <1>1, <1>2, <1>3, <1>4, <1>7, <1>8 DEF Next

\* The other variables, with what is left to read for a process in
\* consoleread(): one that has read all returns.
LEMMA ReadType ==
    ASSUME TypeOK, LeftInv, [Next]_vars
    PROVE  /\ n' \in [Procs -> Nat] /\ last' \in Chars \cup {Nothing} /\ LeftInv'
           /\ short' \in [Procs -> BOOLEAN]
<1>t. /\ n \in [Procs -> Nat] /\ last \in Chars \cup {Nothing} /\ short \in [Procs -> BOOLEAN]
      /\ pc \in [Procs -> PCs]
  BY DEF TypeOK
<1>1. CASE pc' = pc /\ UNCHANGED <<n, last, short>>
  BY <1>1, <1>t DEF LeftInv
<1>2. ASSUME NEW c \in Cpus, Sti(c) \/ SchedAcquire(c) \/ SchedRelease(c) \/ \E p \in Procs : Dispatch(c, p)
      PROVE  pc' = pc /\ UNCHANGED <<n, last, short>>
  BY <1>2 DEF Sti, SchedAcquire, SchedRelease, Dispatch, SpcGoto, procVars, readVars
<1>3. CASE Interrupt \/ consoleintr \/ (\E p \in Procs : kill(p)) \/ UNCHANGED vars
  <2>1. pc' = pc /\ UNCHANGED <<n, last, short>>
    BY <1>3 DEF Interrupt, consoleintr, IntrAcquire, Key, Typed, Wakeup, IntrEnd, procdump, kill, procVars, readVars, vars
  <2> QED
    BY <2>1, <1>1
<1>4. ASSUME NEW c \in Cpus, NEW p \in Procs, Process(c, p)
      PROVE  n' \in [Procs -> Nat] /\ LeftInv'
  <2> USE DEF LeftInv, ReadPCs, PCs
  <2>1. CASE \/ Forkret(c, p) \/ Trapret(c, p) \/ Timer(c, p) \/ Yield(c, p) \/ Exit(c, p) \/ Write(c, p)
    BY <1>t, <2>1 DEF Forkret, Trapret, Timer, Yield, Exit, Write, AcquireAt, ReleaseAt, sched, Goto, procVars, readVars
  <2>2. CASE Call(c, p)
    BY <1>t, <2>2, ConsoleAssumption DEF Call, Goto
  <2>3. CASE ReadEnter(c, p) \/ ReadEmpty(c, p) \/ ReadSleep(c, p) \/ ReadAwake(c, p)
    BY <1>t, <2>3 DEF ReadEnter, ReadEmpty, ReadSleep, ReadAwake, At, AcquireAt, ReleaseAt, sched, Goto, procVars, readVars
  <2>4. CASE ReadByte(c, p)
    BY <1>t, <2>4 DEF ReadByte, At, Goto
  <2>5. CASE ReadDone(c, p)
    BY <1>t, <2>5 DEF ReadDone, ReleaseAt, Goto
  <2> QED
    BY <1>4, <2>1, <2>2, <2>3, <2>4, <2>5 DEF Process
<1>5. ASSUME NEW c \in Cpus, NEW p \in Procs, Process(c, p)
      PROVE  last' \in Chars \cup {Nothing} /\ short' \in [Procs -> BOOLEAN]
  <2>1. CASE UNCHANGED readVars
    BY <1>t, <2>1 DEF readVars
  <2>2. CASE Call(c, p) \/ ReadDone(c, p) \/ ReadSleep(c, p)
    <3>1. last' = last \/ last' = Nothing
      BY <2>2 DEF Call, ReadDone, ReadSleep
    <3>2. short' = short \/ short' = [short EXCEPT ![p] = FALSE]
      BY <2>2 DEF Call, ReadDone, ReadSleep
    <3>3. short' \in [Procs -> BOOLEAN]
      BY <1>t, <3>2, Zenon
    <3> QED
      BY <1>t, <3>1, <3>3
  <2>3. CASE ReadByte(c, p)
    <3>1. short' = short \/ short' = [short EXCEPT ![p] = TRUE]
      BY <2>3 DEF ReadByte
    <3>2. short' \in [Procs -> BOOLEAN]
      BY <1>t, <3>1, Zenon
    <3>3. last' = last \/ last' = buf[r % INPUT_BUF]
      BY <2>3 DEF ReadByte
    <3>4. r % INPUT_BUF \in 0 .. INPUT_BUF - 1 /\ buf \in [0 .. INPUT_BUF - 1 -> Chars]
      BY BufSizes DEF TypeOK
    <3> QED
      BY <1>t, <3>2, <3>3, <3>4
  <2> QED
    BY <1>5, <2>1, <2>2, <2>3 DEF Process, Forkret, Trapret, Timer, Yield, Exit, Write, ReadEnter, ReadEmpty, ReadAwake
<1> QED
  BY <1>1, <1>2, <1>3, <1>4, <1>5 DEF Next

LEMMA FlagType ==
    ASSUME TypeOK, [Next]_vars
    PROVE  kept' \in [Procs -> BOOLEAN] /\ killed' \in [Procs -> BOOLEAN]
<1>t. kept \in [Procs -> BOOLEAN] /\ killed \in [Procs -> BOOLEAN] /\ intena \in [Cpus -> BOOLEAN]
  BY DEF TypeOK, SpinType
<1>1. ASSUME NEW c \in Cpus, Sti(c) \/ SchedAcquire(c) \/ SchedRelease(c) \/ \E p \in Procs : Dispatch(c, p)
      PROVE  killed' = killed /\ \/ kept' = kept
                                 \/ \E p \in Procs : kept' = [kept EXCEPT ![p] = FALSE]
  BY <1>1 DEF Sti, SchedAcquire, SchedRelease, Dispatch, SpcGoto, procVars
<1>3. ASSUME NEW c \in Cpus, NEW p \in Procs, Process(c, p)
      PROVE  killed' = killed /\ (kept' = kept \/ kept' = [kept EXCEPT ![p] = intena[c]])
  <2>1. killed' = killed
    BY <1>3 DEF Process, Forkret, Trapret, Timer, Yield, Exit, Call, Write, ReadEnter, ReadEmpty, ReadByte,
       ReadSleep, ReadAwake, ReadDone
  <2>2. CASE Yield(c, p) \/ Exit(c, p) \/ ReadSleep(c, p)
    <3>1. kept' = kept \/ kept' = [kept EXCEPT ![p] = intena[c]]
      BY <2>2 DEF Yield, Exit, ReadSleep, AcquireAt, ReleaseAt, sched, Goto, procVars
    <3> QED
      BY <2>1, <3>1
  <2>3. CASE \/ Forkret(c, p) \/ Trapret(c, p) \/ Timer(c, p) \/ Call(c, p) \/ Write(c, p) \/ ReadEnter(c, p)
             \/ ReadEmpty(c, p) \/ ReadByte(c, p) \/ ReadAwake(c, p) \/ ReadDone(c, p)
    <3>1. kept' = kept
      BY <2>3 DEF Forkret, Trapret, Timer, Call, Write, ReadEnter, ReadEmpty, ReadByte, ReadAwake, ReadDone,
         AcquireAt, ReleaseAt, Goto, procVars
    <3> QED
      BY <2>1, <3>1
  <2> QED
    BY <1>3, <2>2, <2>3 DEF Process
<1>4. ASSUME NEW c \in Cpus, NEW p \in Procs, Process(c, p)
      PROVE  kept' \in [Procs -> BOOLEAN] /\ killed' \in [Procs -> BOOLEAN]
  BY <1>t, <1>3, <1>4, Zenon
<1>5. ASSUME NEW c \in Cpus, Sti(c) \/ SchedAcquire(c) \/ SchedRelease(c) \/ \E p \in Procs : Dispatch(c, p)
      PROVE  kept' \in [Procs -> BOOLEAN] /\ killed' \in [Procs -> BOOLEAN]
  BY <1>t, <1>1, <1>5, Zenon
<1>6. CASE Interrupt \/ consoleintr \/ (\E p \in Procs : kill(p)) \/ UNCHANGED vars
  <2>1. kept' = kept
    BY <1>6 DEF Interrupt, consoleintr, IntrAcquire, Key, Typed, Wakeup, IntrEnd, procdump, kill, procVars, vars
  <2>2. killed' = killed \/ \E p \in Procs : killed' = [killed EXCEPT ![p] = TRUE]
    BY <1>6 DEF Interrupt, consoleintr, IntrAcquire, Key, Typed, Wakeup, IntrEnd, procdump, kill, vars
  <2> QED
    BY <1>t, <2>1, <2>2, Zenon
<1> QED
  BY <1>4, <1>5, <1>6 DEF Next
-----------------------------------------------------------------------------
LEMMA InitIInv == Init => IInv
<1> SUFFICES ASSUME Init PROVE IInv
  OBVIOUS
<1>1. SpinType /\ HeldOff
  BY InitInv DEF Init, Inv
<1>2. TypeOK
  <2>1. buf \in [0 .. INPUT_BUF - 1 -> Chars] /\ {r, w, e} \subseteq 0 .. W - 1
    BY EnterChar, BufSizes DEF Init
  <2>2. {kept, killed, short} \subseteq [Procs -> BOOLEAN]
    <3>1. kept \in [Procs -> BOOLEAN] /\ killed \in [Procs -> BOOLEAN] /\ short \in [Procs -> BOOLEAN]
      BY Zenon DEF Init
    <3> QED
      BY <3>1
  <2>3. /\ running \in [Cpus -> Procs \cup {NoProc}] /\ spc \in [Cpus -> {"sti", "acquire", "loop"}]
        /\ state \in [Procs -> {"RUNNABLE", "RUNNING", "SLEEPING", "ZOMBIE"}]
        /\ pc \in [Procs -> PCs] /\ n \in [Procs -> Nat] /\ last \in Chars \cup {Nothing}
    BY DEF Init, PCs
  <2>4. /\ kpc \in {"none", "acquire", "getc", "wakeup", "woken", "procdump", "dumped", "iret"}
        /\ keys \in 0 .. MaxKeys /\ dump \in BOOLEAN
    <3>1. MaxKeys \in Nat /\ keys = 0 /\ kpc = "none"
      BY ConsoleAssumption DEF Init
    <3>2. dump \in BOOLEAN
      BY Zenon DEF Init
    <3> QED
      BY <3>1, <3>2
  <2> QED
    BY <1>1, <2>1, <2>2, <2>3, <2>4 DEF TypeOK
<1>3. LockInv /\ SpinInv
  BY Names DEF Init, SpinInit, LockInv, SpinInv, HasPtable, HasCons, ThreadPtable, ThreadCons, Handling
<1>4. ThreadInv /\ LeftInv /\ WaitInv /\ ~panicked
  BY DEF Init, SpinInit, ThreadInv, LeftInv, ReadPCs, WaitInv
<1>5. RingInv /\ LineInv
  <2>1. r \in 0 .. W - 1 /\ w \in 0 .. W - 1 /\ e = w /\ r = W - 1 /\ w = 0
    BY BufSizes DEF Init
  <2>2. Way(w, e) = 0 /\ Way(r, w) = 1
    BY <2>1, WayIs, BufSizes
  <2> QED
    BY <2>2, BufSizes DEF RingInv, LineInv
<1> QED
  BY <1>1, <1>2, <1>3, <1>4, <1>5 DEF IInv

LEMMA StepIInv == IInv /\ [Next]_vars => IInv'
<1> SUFFICES ASSUME IInv, [Next]_vars PROVE IInv'
  OBVIOUS
<1>1. Control /\ InputInv /\ WaitInv /\ LeftInv /\ TypeOK /\ ~panicked
  BY DEF IInv, Control, InputInv
<1>2. LockInv' /\ SpinInv' /\ ThreadInv' /\ [SpinNext]_spinVars /\ ~panicked'
  BY <1>1, StepControl DEF ControlNext, SpinOK
<1>3. SpinType' /\ HeldOff'
  BY <1>1, <1>2, NextInv DEF Control, TypeOK, Inv
<1>4. BufType' /\ RingInv' /\ LineInv'
  BY <1>1, InputStep
<1>5. WaitInv'
  BY <1>1, WaitStep
<1>6. /\ n' \in [Procs -> Nat] /\ last' \in Chars \cup {Nothing} /\ LeftInv'
      /\ short' \in [Procs -> BOOLEAN]
  BY <1>1, ReadType, Zenon
<1>7. TypeOK'
  BY <1>1, <1>3, <1>4, <1>6, IntrType, ThreadType, FlagType, Zenon DEF TypeOK, BufType
<1> QED
  BY <1>2, <1>3, <1>4, <1>5, <1>6, <1>7 DEF IInv
-----------------------------------------------------------------------------
(* IInv holds in every reachable state of console input and of the threads *)
(* and the interrupt around it.                                            *)
THEOREM Invariant == Spec => []IInv
<1> QED
  BY InitIInv, StepIInv, PTL DEF Spec

(* The kernel acquires, keeps across sched() and releases its spinlocks as *)
(* the comments and panics of spinlock.c, sched() and trap() want it, so   *)
(* that InterruptsOff and NoSpinPanic hold of it.                          *)
THEOREM UsesSpinlocks == Spec => Spinlocks
<1>1. Init => SpinInit
  BY DEF Init
<1>2. IInv /\ [Next]_vars => [SpinNext]_spinVars
  BY StepControl DEF IInv, Control, ControlNext, SpinOK
<1> QED
  BY <1>1, <1>2, Invariant, PTL DEF Spec, Spinlocks

(* consoleread() sleeps on input.r only while there is nothing to read, or *)
(* the interrupt that has finished a line is about to wake it              *)
(* (console.c:221-224, :245-251).                                          *)
THEOREM NoLostWakeup == Spec => []SleepersJustified
<1>1. IInv => SleepersJustified
  BY DEF IInv, SleepersJustified, WaitInv, Waking
<1> QED
  BY <1>1, Invariant, PTL

(* Where CPUs wait for the spinlocks of each other, one of them prints in  *)
(* exit() with ptable.lock held (proc.c:366).                              *)
THEOREM CyclesNeedExit == Spec => []SpinCyclesNeedExit
<1>1. IInv => SpinCyclesNeedExit
  <2> SUFFICES ASSUME IInv, NEW S \in (SUBSET Cpus) \ {{}}, SpinCycle(S)
               PROVE  \E c \in S, p \in Procs : At(c, p, "print")
    BY DEF SpinCyclesNeedExit
  <2>t. SpinType /\ TypeOK /\ S \subseteq Cpus
    BY DEF IInv, TypeOK
  <2>1. ASSUME NEW c \in S
        PROVE  /\ lock[spin[c]] \in S
               /\ \/ spin[c] = "cons" /\ WantsCons(c)
                  \/ spin[c] = "ptable" /\ WantsPtable(c)
    BY <2>t, <2>1, Names DEF SpinCycle, IInv, SpinInv, SpinType
  <2>2. ASSUME NEW c \in S, HasPtable(c) PROVE \E p \in Procs : At(c, p, "print")
    <3>0. running[c] \in Procs \cup {NoProc} /\ (WantsCons(c) \/ WantsPtable(c))
      BY <2>t, <2>1, <2>2 DEF TypeOK
    <3>1. ~Handling(c) /\ running[c] # NoProc /\ pc[running[c]] = "print"
      BY <3>0, <2>2 DEF HasPtable, ThreadPtable, PtablePCs, WantsCons, WantsPtable
    <3> QED
      BY <3>0, <3>1 DEF At, Bare, Handling, IInv
  <2>3. ASSUME NEW c \in S, HasCons(c) PROVE spin[c] = "ptable"
    BY <2>t, <2>1, <2>3, Names DEF HasCons, ThreadCons, ConsPCs, WantsCons
  <2>4. PICK c \in S : TRUE
    OBVIOUS
  <2>5. \E d \in S : HasPtable(d)
    <3>1. CASE spin[c] = "ptable"
      BY <2>t, <2>1, <3>1 DEF IInv, LockInv
    <3>2. CASE spin[c] = "cons"
      <4>1. PICK d \in S : lock["cons"] = d /\ HasCons(d)
        BY <2>t, <2>1, <3>2 DEF IInv, LockInv
      <4>2. spin[d] = "ptable"
        BY <4>1, <2>3
      <4> QED
        BY <2>t, <2>1, <4>2 DEF IInv, LockInv
    <3> QED
      BY <2>1, <3>1, <3>2
  <2> QED
    BY <2>2, <2>5
<1> QED
  BY <1>1, Invariant, PTL
-----------------------------------------------------------------------------
(* The buffer as the text in it.                                           *)

\* The m characters of b from index i on; Unread() is one of these.
Text(b, i, m) == [k \in 1 .. m |-> b[Place(i, k)]]
Put(b, x, ch) == [b EXCEPT ![x] = ch]

LEMMA TextSeq ==
    ASSUME NEW b \in [0 .. INPUT_BUF - 1 -> Chars], NEW i \in 0 .. W - 1, NEW m \in Nat
    PROVE  /\ Text(b, i, m) \in Seq(Chars)
           /\ Len(Text(b, i, m)) = m
           /\ \A k \in 1 .. m : Text(b, i, m)[k] = b[Place(i, k)]
<1>1. ASSUME NEW k \in 1 .. m PROVE Place(i, k) \in 0 .. INPUT_BUF - 1
  <2>1. k \in Nat \ {0}
    OBVIOUS
  <2> QED
    BY <2>1, Places
<1>2. Text(b, i, m) \in [1 .. m -> Chars] /\ \A k \in 1 .. m : Text(b, i, m)[k] = b[Place(i, k)]
  BY <1>1 DEF Text
<1> QED
  BY <1>2

\* consoleread() takes the first character, ...
LEMMA TextGet ==
    ASSUME NEW b \in [0 .. INPUT_BUF - 1 -> Chars], NEW i \in 0 .. W - 1, NEW m \in Nat \ {0}
    PROVE  /\ Text(b, i, m) # <<>>
           /\ Head(Text(b, i, m)) = b[i % INPUT_BUF]
           /\ Tail(Text(b, i, m)) = Text(b, (i + 1) % W, m - 1)
<1> DEFINE j == (i + 1) % W
<1>1. j \in 0 .. W - 1 /\ m - 1 \in Nat /\ m \in Nat /\ 1 \in 1 .. m /\ i + 1 - 1 = i
  BY Steps
<1> HIDE DEF j
<1>2. /\ Text(b, i, m) \in Seq(Chars) /\ Len(Text(b, i, m)) = m
      /\ \A k \in 1 .. m : Text(b, i, m)[k] = b[Place(i, k)]
  BY <1>1, TextSeq, Zenon
<1>3. Text(b, i, m) # <<>> /\ Head(Text(b, i, m)) = b[Place(i, 1)]
  BY <1>1, <1>2
<1>4. /\ Tail(Text(b, i, m)) \in Seq(Chars) /\ Len(Tail(Text(b, i, m))) = m - 1
      /\ \A k \in 1 .. m - 1 : Tail(Text(b, i, m))[k] = Text(b, i, m)[k + 1]
  BY <1>2, <1>3, HeadTailProperties
<1>5. /\ Text(b, j, m - 1) \in Seq(Chars) /\ Len(Text(b, j, m - 1)) = m - 1
      /\ \A k \in 1 .. m - 1 : Text(b, j, m - 1)[k] = b[Place(j, k)]
  BY <1>1, TextSeq, Zenon
<1>6. \A k \in 1 .. m - 1 : Tail(Text(b, i, m))[k] = Text(b, j, m - 1)[k]
  <2> TAKE k \in 1 .. m - 1
  <2>1. k \in Nat \ {0} /\ k + 1 \in 1 .. m
    OBVIOUS
  <2>2. Place(j, k) = Place(i, k + 1)
    BY <2>1, Places DEF j
  <2> QED
    BY <1>2, <1>4, <1>5, <2>1, <2>2
<1>7. Tail(Text(b, i, m)) = Text(b, j, m - 1)
  BY <1>4, <1>5, <1>6, SeqEqual
<1> QED
  BY <1>1, <1>3, <1>7 DEF Place, j

\* ... C('H') drops the last one, ...
LEMMA TextDrop ==
    ASSUME NEW b \in [0 .. INPUT_BUF - 1 -> Chars], NEW i \in 0 .. W - 1, NEW m \in Nat \ {0}
    PROVE  SubSeq(Text(b, i, m), 1, Len(Text(b, i, m)) - 1) = Text(b, i, m - 1)
<1> DEFINE t == Text(b, i, m)
           u == Text(b, i, m - 1)
<1>1. m \in Nat /\ m - 1 \in Nat
  OBVIOUS
<1>2. t \in Seq(Chars) /\ Len(t) = m /\ \A k \in 1 .. m : t[k] = b[Place(i, k)]
  BY <1>1, TextSeq, Zenon
<1>3. u \in Seq(Chars) /\ Len(u) = m - 1 /\ \A k \in 1 .. m - 1 : u[k] = b[Place(i, k)]
  BY <1>1, TextSeq, Zenon
<1> HIDE DEF t, u
<1>4. \A k \in 1 .. m - 1 : t[k] \in Chars
  BY <1>2
<1>5. /\ SubSeq(t, 1, m - 1) \in Seq(Chars) /\ Len(SubSeq(t, 1, m - 1)) = m - 1
      /\ \A k \in 1 .. m - 1 : SubSeq(t, 1, m - 1)[k] = t[k]
  <2>1. /\ SubSeq(t, 1, m - 1) \in Seq(Chars)
        /\ Len(SubSeq(t, 1, m - 1)) = IF 1 <= m - 1 THEN (m - 1) - 1 + 1 ELSE 0
        /\ \A k \in 1 .. (m - 1) - 1 + 1 : SubSeq(t, 1, m - 1)[k] = t[1 + k - 1]
    BY <1>1, <1>4, SubSeqProperties
  <2> QED
    BY <1>1, <2>1
<1>6. \A k \in 1 .. m - 1 : SubSeq(t, 1, m - 1)[k] = u[k]
  BY <1>1, <1>2, <1>3, <1>5
<1>7. SubSeq(t, 1, m - 1) = u
  BY <1>3, <1>5, <1>6, SeqEqual
<1> QED
  BY <1>2, <1>7 DEF t, u

\* ... and a key adds one behind the last, overwriting none of them.
LEMMA TextPut ==
    ASSUME NEW b \in [0 .. INPUT_BUF - 1 -> Chars], NEW i \in 0 .. W - 1,
           NEW t \in 0 .. INPUT_BUF - 1, NEW ch \in Chars
    PROVE  LET d == Put(b, Place(i, t + 1), ch) IN
           /\ d \in [0 .. INPUT_BUF - 1 -> Chars]
           /\ Text(d, i, t + 1) = Append(Text(b, i, t), ch)
           /\ \A m \in 0 .. t : Text(d, i, m) = Text(b, i, m)
<1> DEFINE d == Put(b, Place(i, t + 1), ch)
<1>1. t \in Nat /\ t + 1 \in Nat /\ t + 1 \in 1 .. INPUT_BUF /\ Place(i, t + 1) \in 0 .. INPUT_BUF - 1
  BY Places, BufSizes
<1>2. d \in [0 .. INPUT_BUF - 1 -> Chars] /\ d[Place(i, t + 1)] = ch
      /\ \A x \in 0 .. INPUT_BUF - 1 : x # Place(i, t + 1) => d[x] = b[x]
  BY <1>1 DEF Put
<1> HIDE DEF d
<1>3. ASSUME NEW k \in 1 .. t PROVE d[Place(i, k)] = b[Place(i, k)]
  <2>1. k \in 1 .. INPUT_BUF /\ k # t + 1 /\ k \in Nat \ {0}
    BY <1>3, BufSizes
  <2>2. Place(i, k) # Place(i, t + 1) /\ Place(i, k) \in 0 .. INPUT_BUF - 1
    BY <1>1, <2>1, Places, PlacesApart
  <2> QED
    BY <1>2, <2>2
<1>4. ASSUME NEW m \in 0 .. t PROVE Text(d, i, m) = Text(b, i, m)
  BY <1>3 DEF Text
<1>5. /\ Text(b, i, t) \in Seq(Chars) /\ Len(Text(b, i, t)) = t
      /\ \A k \in 1 .. t : Text(b, i, t)[k] = b[Place(i, k)]
  BY <1>1, TextSeq, Zenon
<1>6. /\ Text(d, i, t + 1) \in Seq(Chars) /\ Len(Text(d, i, t + 1)) = t + 1
      /\ \A k \in 1 .. t + 1 : Text(d, i, t + 1)[k] = d[Place(i, k)]
  BY <1>1, <1>2, TextSeq, Zenon
<1>7. /\ Append(Text(b, i, t), ch) \in Seq(Chars) /\ Len(Append(Text(b, i, t), ch)) = t + 1
      /\ \A k \in 1 .. t : Append(Text(b, i, t), ch)[k] = Text(b, i, t)[k]
      /\ Append(Text(b, i, t), ch)[t + 1] = ch
  BY <1>5, AppendProperties
<1>8. ASSUME NEW k \in 1 .. t + 1 PROVE Text(d, i, t + 1)[k] = Append(Text(b, i, t), ch)[k]
  <2>1. CASE k = t + 1
    BY <1>1, <1>2, <1>6, <1>7, <2>1
  <2>2. CASE k \in 1 .. t
    BY <1>3, <1>5, <1>6, <1>7, <2>2
  <2>3. k = t + 1 \/ k \in 1 .. t
    BY <1>1
  <2> QED
    BY <2>1, <2>2, <2>3
<1>9. Text(d, i, t + 1) = Append(Text(b, i, t), ch)
  BY <1>6, <1>7, <1>8, SeqEqual
<1> QED
  BY <1>2, <1>4, <1>9 DEF d

\* The finished lines and the one in progress are a text together.
LEMMA TextJoin ==
    ASSUME NEW b \in [0 .. INPUT_BUF - 1 -> Chars], NEW i \in 0 .. W - 1, NEW j \in 0 .. W - 1,
           NEW m \in Nat
    PROVE  Text(b, i, Way(i, j) + m) = Text(b, i, Way(i, j)) \o Text(b, j, m)
<1> DEFINE q == Way(i, j)
           s == Text(b, i, q)
           u == Text(b, j, m)
           v == Text(b, i, q + m)
<1>1. q \in Nat /\ q + m \in Nat /\ (i + q = j \/ i + q = j + W)
  BY WayIs, BufSizes
<1>2. s \in Seq(Chars) /\ Len(s) = q /\ \A k \in 1 .. q : s[k] = b[Place(i, k)]
  <2> HIDE DEF q
  <2> QED
    BY <1>1, TextSeq, Zenon
<1>3. u \in Seq(Chars) /\ Len(u) = m /\ \A k \in 1 .. m : u[k] = b[Place(j, k)]
  BY TextSeq, Zenon
<1>4. v \in Seq(Chars) /\ Len(v) = q + m /\ \A k \in 1 .. q + m : v[k] = b[Place(i, k)]
  <2> HIDE DEF q
  <2> QED
    BY <1>1, TextSeq, Zenon
<1> HIDE DEF q, s, u, v
<1>5. /\ s \o u \in Seq(Chars) /\ Len(s \o u) = q + m
      /\ \A k \in 1 .. q + m : (s \o u)[k] = IF k <= q THEN s[k] ELSE u[k - q]
  BY <1>2, <1>3, ConcatProperties
<1>6. ASSUME NEW k \in 1 .. m PROVE Place(i, q + k) = Place(j, k)
  <2> DEFINE a == j + k - 1
  <2>1. a \in Nat /\ (i + (q + k) - 1 = a \/ i + (q + k) - 1 = a + W)
    BY <1>1, BufSizes
  <2> HIDE DEF a
  <2>2. (a + W) % INPUT_BUF = a % INPUT_BUF
    BY <2>1, Round
  <2> QED
    BY <2>1, <2>2 DEF Place, a
<1>7. ASSUME NEW k \in 1 .. q + m PROVE v[k] = (s \o u)[k]
  <2>0. k \in Nat /\ (k <= q \/ k > q)
    BY <1>1
  <2>1. CASE k <= q
    <3>1. k \in 1 .. q
      BY <1>1, <2>0, <2>1
    <3> QED
      BY <1>2, <1>4, <1>5, <2>1, <3>1
  <2>2. CASE k > q
    <3>1. k - q \in 1 .. m /\ q + (k - q) = k /\ ~(k <= q)
      BY <1>1, <2>2
    <3>2. Place(i, k) = Place(j, k - q)
      BY <1>6, <3>1
    <3> QED
      BY <1>3, <1>4, <1>5, <3>1, <3>2
  <2> QED
    BY <2>0, <2>1, <2>2
<1>8. v = s \o u
  BY <1>4, <1>5, <1>7, SeqEqual
<1> QED
  BY <1>8 DEF q, s, u, v

LEMMA Unreads ==
    Unread(r, w) = Text(buf, r, Way(r, w)) /\ Unread(w, e) = Text(buf, w, Way(w, e))
BY DEF Unread, Text, Way, Place
-----------------------------------------------------------------------------
(* Every step is one of LineStream or changes nothing of it.               *)

LineStep == [Input!Next]_<<Unread(r, w), Unread(w, e), last>>

LEMMA SameText ==
    ASSUME UNCHANGED inputVars
    PROVE  Unread(r, w)' = Unread(r, w) /\ Unread(w, e)' = Unread(w, e)
BY DEF inputVars, Unread

\* A character of consoleread() is Got, its end of file Ended, unless it is
\* kept for the next read.
LEMMA ReadSteps ==
    ASSUME InputInv, NEW c \in Cpus, NEW p \in Procs, ReadByte(c, p)
    PROVE  LineStep
<1>t. r \in 0 .. W - 1 /\ w \in 0 .. W - 1 /\ e \in 0 .. W - 1 /\ buf \in [0 .. INPUT_BUF - 1 -> Chars]
  BY DEF InputInv, TypeOK
<1> DEFINE q == Way(r, w)
           j == (r + 1) % W
           ch == buf[r % INPUT_BUF]
<1>1. r # w /\ UNCHANGED <<buf, w, e>>
  BY DEF ReadByte
<1>2. q \in Nat \ {0} /\ Way(j, w) = q - 1
  BY <1>t, <1>1, Ways
<1>3. Unread(w, e)' = Unread(w, e)
  BY <1>1 DEF Unread
<1>4. Unread(r, w) # <<>> /\ Head(Unread(r, w)) = ch /\ Tail(Unread(r, w)) = Text(buf, j, q - 1)
  <2> HIDE DEF j
  <2>1. /\ Text(buf, r, q) # <<>> /\ Head(Text(buf, r, q)) = ch
        /\ Tail(Text(buf, r, q)) = Text(buf, (r + 1) % W, q - 1)
    <3> HIDE DEF q
    <3> QED
      BY <1>t, <1>2, TextGet, Zenon
  <2> QED
    BY <2>1, Unreads DEF j
<1>5. r' = j => Unread(r, w)' = Tail(Unread(r, w))
  <2>1. r' = j => Unread(r, w)' = Text(buf, j, Way(j, w))
    BY <1>1 DEF Unread, Text, Way, Place
  <2> QED
    BY <1>2, <1>4, <2>1
<1>6. CASE ch = ctl("D")
  <2>1. last' = last /\ (r' = r \/ r' = j)
    BY <1>6 DEF ReadByte
  <2>2. CASE r' = r
    <3>1. Unread(r, w)' = Unread(r, w)
      BY <1>1, <2>2 DEF Unread
    <3> QED
      BY <1>3, <2>1, <3>1 DEF LineStep
  <2>3. CASE r' = j
    BY <1>3, <1>4, <1>5, <1>6, <2>1, <2>3 DEF LineStep, Input!Next, Input!Ended
  <2> QED
    BY <2>1, <2>2, <2>3
<1>7. CASE ch # ctl("D")
  <2>1. last' = ch /\ r' = j
    BY <1>7 DEF ReadByte
  <2> QED
    BY <1>3, <1>4, <1>5, <1>7, <2>1 DEF LineStep, Input!Next, Input!Got
<1> QED
  BY <1>6, <1>7

LEMMA EraseSteps ==
    ASSUME InputInv, Erases, last' = last
    PROVE  LineStep
<1>t. r \in 0 .. W - 1 /\ w \in 0 .. W - 1 /\ e \in 0 .. W - 1 /\ buf \in [0 .. INPUT_BUF - 1 -> Chars]
  BY DEF InputInv, TypeOK
<1>1. UNCHANGED <<buf, r, w>>
  BY DEF Erases
<1>2. Unread(r, w)' = Unread(r, w)
  BY <1>1 DEF Unread
<1> DEFINE m == Way(w, e)
<1>3. CASE e' = e
  <2>1. Unread(w, e)' = Unread(w, e)
    BY <1>1, <1>3 DEF Unread
  <2> QED
    BY <1>2, <2>1 DEF LineStep
<1>4. CASE e' = w
  <2>1. Way(w, w) = 0
    BY <1>t, Ways
  <2>2. Unread(w, e)' = <<>>
    BY <1>1, <1>4, <2>1 DEF Unread, Way
  <2> QED
    BY <1>2, <2>2 DEF LineStep, Input!Next, Input!Killed
<1>5. CASE e # w /\ e' = (e + W - 1) % W
  <2>1. m \in Nat \ {0} /\ Way(w, (e + W - 1) % W) = m - 1
    BY <1>t, <1>5, Ways
  <2>2. Unread(w, e)' = Text(buf, w, m - 1)
    <3>1. Unread(w, e)' = Text(buf, w, Way(w, (e + W - 1) % W))
      BY <1>1, <1>5 DEF Unread, Text, Way, Place
    <3> QED
      BY <2>1, <3>1
  <2>3. /\ Unread(w, e) = Text(buf, w, m) /\ Text(buf, w, m) # <<>>
        /\ SubSeq(Text(buf, w, m), 1, Len(Text(buf, w, m)) - 1) = Text(buf, w, m - 1)
    <3>1. Unread(w, e) = Text(buf, w, m)
      BY Unreads
    <3> HIDE DEF m
    <3>2. Text(buf, w, m) # <<>> /\ SubSeq(Text(buf, w, m), 1, Len(Text(buf, w, m)) - 1) = Text(buf, w, m - 1)
      BY <1>t, <2>1, TextGet, TextDrop, Zenon
    <3> QED
      BY <3>1, <3>2
  <2> QED
    BY <1>2, <2>2, <2>3 DEF LineStep, Input!Next, Input!Erased
<1> QED
  BY <1>3, <1>4, <1>5 DEF Erases, Edited

LEMMA TypeSteps ==
    ASSUME InputInv, NEW ch \in Chars, Types(ch), last' = last
    PROVE  LineStep
<1>t. r \in 0 .. W - 1 /\ w \in 0 .. W - 1 /\ e \in 0 .. W - 1 /\ buf \in [0 .. INPUT_BUF - 1 -> Chars]
  BY DEF InputInv, TypeOK
<1> DEFINE q == Way(r, w)
           m == Way(w, e)
           queue == Unread(r, w)
           line == Unread(w, e)
           longer == Append(line, ch)
           done == ch \in {Enter, ctl("D")} \/ e' = (r + INPUT_BUF) % W
<1>1. /\ q \in Nat /\ m \in Nat /\ q + m < INPUT_BUF /\ Way(r, e) = q + m
      /\ e % INPUT_BUF = Place(w, m + 1) /\ e % INPUT_BUF = Place(r, q + m + 1)
      /\ Way(w, e') = m + 1 /\ Way(r, e') = q + m + 1 /\ e' \in 0 .. W - 1
      /\ e' = (r + INPUT_BUF) % W <=> q + m + 1 = INPUT_BUF
  BY TypesWhere
<1>2. buf' = Put(buf, e % INPUT_BUF, ch) /\ r' = r /\ w' = IF done THEN e' ELSE w
  BY DEF Types, Put
<1>3. queue = Text(buf, r, q) /\ line = Text(buf, w, m)
  BY Unreads
<1>4. /\ queue \in Seq(Chars) /\ Len(queue) = q /\ line \in Seq(Chars) /\ Len(line) = m
  <2>1. Text(buf, r, q) \in Seq(Chars) /\ Len(Text(buf, r, q)) = q
    <3> HIDE DEF q
    <3> QED
      BY <1>t, <1>1, TextSeq, Zenon
  <2>2. Text(buf, w, m) \in Seq(Chars) /\ Len(Text(buf, w, m)) = m
    <3> HIDE DEF m
    <3> QED
      BY <1>t, <1>1, TextSeq, Zenon
  <2> QED
    BY <1>3, <2>1, <2>2
<1>5. longer \in Seq(Chars) /\ Len(longer) = m + 1 /\ Append(queue \o line, ch) = queue \o longer
  <2> HIDE DEF queue, line
  <2>1. longer \in Seq(Chars) /\ Len(longer) = m + 1 /\ longer = line \o <<ch>>
    BY <1>4, AppendProperties, AppendIsConcat
  <2>2. queue \o line \in Seq(Chars) /\ <<ch>> \in Seq(Chars)
    BY <1>4, ConcatProperties
  <2>3. Append(queue \o line, ch) = (queue \o line) \o <<ch>>
    BY <2>2, AppendIsConcat
  <2>4. (queue \o line) \o <<ch>> = queue \o (line \o <<ch>>)
    BY <1>4, <2>2, ConcatAssociative
  <2> QED
    BY <2>1, <2>3, <2>4
<1>6. CASE done
  <2>1. w' = e'
    BY <1>2, <1>6
  <2>2. Unread(w, e)' = <<>>
    <3>1. Way(e', e') = 0
      BY <1>1, Ways
    <3>2. Unread(w, e)' = Text(buf', e', Way(e', e'))
      BY <2>1 DEF Unread, Text, Way, Place
    <3> QED
      BY <3>1, <3>2 DEF Text
  <2>3. Unread(r, w)' = Text(buf', r, q + m + 1)
    <3>1. Unread(r, w)' = Text(buf', r, Way(r, e'))
      BY <1>2, <2>1 DEF Unread, Text, Way, Place
    <3> QED
      BY <1>1, <3>1
  <2>4. Text(buf', r, q + m + 1) = Append(Text(buf, r, q + m), ch)
    <3> DEFINE t == q + m
    <3>1. t \in 0 .. INPUT_BUF - 1 /\ buf' = Put(buf, Place(r, t + 1), ch)
      BY <1>1, <1>2, BufSizes
    <3> HIDE DEF t
    <3>2. Text(Put(buf, Place(r, t + 1), ch), r, t + 1) = Append(Text(buf, r, t), ch)
      BY <1>t, <3>1, TextPut, Zenon
    <3>3. Text(buf', r, t + 1) = Append(Text(buf, r, t), ch)
      BY <3>1, <3>2, Zenon
    <3> QED
      BY <3>3 DEF t
  <2>5. Text(buf, r, q + m) = queue \o line
    <3>1. Text(buf, r, Way(r, w) + m) = Text(buf, r, Way(r, w)) \o Text(buf, w, m)
      <4> HIDE DEF m
      <4> QED
        BY <1>t, <1>1, TextJoin, Zenon
    <3> QED
      BY <1>3, <3>1
  <2>6. Unread(r, w)' = queue \o longer
    BY <1>5, <2>3, <2>4, <2>5
  <2>7. ch \in {Enter, ctl("D")} \/ Len(queue) + Len(longer) = INPUT_BUF
    BY <1>1, <1>4, <1>5, <1>6
  <2>8. Len(queue) + Len(line) < INPUT_BUF
    BY <1>1, <1>4
  <2> HIDE DEF queue, line, done
  <2>9. Input!Typed(ch)
    BY <2>2, <2>6, <2>7, <2>8 DEF Input!Typed, queue, line
  <2> QED
    BY <2>9 DEF LineStep, Input!Next
<1>7. CASE ~done
  <2>1. w' = w
    BY <1>2, <1>7
  <2>2. Unread(w, e)' = longer
    <3>1. Unread(w, e)' = Text(buf', w, m + 1)
      <4>1. Unread(w, e)' = Text(buf', w, Way(w, e'))
        BY <2>1 DEF Unread, Text, Way, Place
      <4> QED
        BY <1>1, <4>1
    <3>2. m \in 0 .. INPUT_BUF - 1 /\ buf' = Put(buf, Place(w, m + 1), ch)
      BY <1>1, <1>2, BufSizes
    <3>3. Text(buf', w, m + 1) = Append(Text(buf, w, m), ch)
      <4> HIDE DEF m
      <4>1. Text(Put(buf, Place(w, m + 1), ch), w, m + 1) = Append(Text(buf, w, m), ch)
        BY <1>t, <3>2, TextPut, Zenon
      <4> QED
        BY <3>2, <4>1, Zenon
    <3> QED
      BY <1>3, <3>1, <3>3
  <2>3. Unread(r, w)' = queue
    <3>1. Unread(r, w)' = Text(buf', r, q)
      BY <1>2, <2>1 DEF Unread, Text, Way, Place
    <3>2. Text(buf', r, q) = Text(buf, r, q)
      <4> DEFINE t == q + m
      <4>1. t \in 0 .. INPUT_BUF - 1 /\ buf' = Put(buf, Place(r, t + 1), ch) /\ q \in 0 .. t
        BY <1>1, <1>2, BufSizes
      <4> HIDE DEF t, q
      <4>2. Text(Put(buf, Place(r, t + 1), ch), r, q) = Text(buf, r, q)
        BY <1>t, <4>1, TextPut, Zenon
      <4> QED
        BY <4>1, <4>2, Zenon
    <3> QED
      BY <1>3, <3>1, <3>2
  <2>7. ~(ch \in {Enter, ctl("D")} \/ Len(queue) + Len(longer) = INPUT_BUF)
    BY <1>1, <1>4, <1>5, <1>7
  <2>8. Len(queue) + Len(line) < INPUT_BUF
    BY <1>1, <1>4
  <2> HIDE DEF queue, line, done
  <2>9. Input!Typed(ch)
    BY <2>2, <2>3, <2>7, <2>8 DEF Input!Typed, queue, line
  <2> QED
    BY <2>9 DEF LineStep, Input!Next
<1> QED
  BY <1>6, <1>7

LEMMA OtherSteps ==
    ASSUME UNCHANGED inputVars, last' \in {last, Nothing}
    PROVE  LineStep
BY SameText DEF LineStep, Input!Next, Input!Forgotten

(* Readers get, between them, the characters that were typed and not       *)
(* erased, in order, line by line, wherever the indices of the circular    *)
(* buffer are (input, consoleintr() and consoleread() in console.c).       *)
THEOREM LineRefinement == Spec => ImplementsLineStream
<1>1. Init => Input!Init
  <2> SUFFICES ASSUME Init PROVE Input!Init
    OBVIOUS
  <2>t. /\ r \in 0 .. W - 1 /\ w \in 0 .. W - 1 /\ e = w /\ buf \in [0 .. INPUT_BUF - 1 -> Chars]
        /\ last = Nothing
    BY EnterChar, BufSizes DEF Init
  <2>1. Way(r, w) = 1 /\ Way(w, e) = 0
    BY <2>t, WayIs, BufSizes DEF Init
  <2>2. Len(Unread(r, w)) = 1
    <3>1. Len(Text(buf, r, 1)) = 1
      BY <2>t, TextSeq
    <3> QED
      BY <2>1, <3>1, Unreads
  <2>3. Unread(w, e) = <<>>
    BY <2>1, Unreads DEF Text
  <2> QED
    BY <2>t, <2>2, <2>3, BufSizes DEF Input!Init
<1>2. IInv /\ [Next]_vars => LineStep
  <2> SUFFICES ASSUME IInv, [Next]_vars PROVE LineStep
    OBVIOUS
  <2>i. InputInv
    BY DEF IInv, InputInv
  <2>1. ASSUME NEW c \in Cpus, NEW p \in Procs, Process(c, p) PROVE LineStep
    <3>1. CASE ReadByte(c, p)
      BY <2>i, <3>1, ReadSteps
    <3>2. CASE ~ReadByte(c, p)
      <4>1. UNCHANGED inputVars /\ last' \in {last, Nothing}
        BY <2>1, <3>2 DEF Process, Forkret, Trapret, Timer, Yield, Exit, Call, Write, ReadEnter, ReadEmpty,
           ReadSleep, ReadAwake, ReadDone, readVars
      <4> QED
        BY <4>1, OtherSteps
    <3> QED
      BY <3>1, <3>2
  <2>2. ASSUME NEW k \in Keys, Key(k) PROVE LineStep
    BY <2>i, <2>2, KeyErases, EraseSteps DEF Key, readVars
  <2>3. ASSUME NEW k \in Keys, Typed(k) PROVE LineStep
    BY <2>3, <2>i, TypedTypes, TypeSteps DEF Typed, readVars
  <2>4. ASSUME NEW c \in Cpus, Sti(c) \/ SchedAcquire(c) \/ SchedRelease(c) \/ \E p \in Procs : Dispatch(c, p)
        PROVE  UNCHANGED inputVars /\ last' = last
    BY <2>4 DEF Sti, SchedAcquire, SchedRelease, Dispatch, readVars
  <2>5. CASE Interrupt \/ (\E p \in Procs : kill(p)) \/ UNCHANGED vars
    <3>1. UNCHANGED inputVars /\ last' = last
      BY <2>5 DEF Interrupt, kill, vars, readVars
    <3> QED
      BY <3>1, OtherSteps
  <2>6. CASE IntrAcquire("acquire", "cons", "getc") \/ Wakeup \/ IntrEnd \/ procdump
    <3>1. UNCHANGED inputVars /\ last' = last
      BY <2>6 DEF IntrAcquire, Wakeup, IntrEnd, procdump, readVars
    <3> QED
      BY <3>1, OtherSteps
  <2> QED
    BY <2>1, <2>2, <2>3, <2>4, <2>5, <2>6, OtherSteps DEF Next, consoleintr
<1> QED
  BY <1>1, <1>2, Invariant, PTL DEF Spec, ImplementsLineStream, Input!Spec, LineStep
=============================================================================
