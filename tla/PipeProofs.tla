----------------------------- MODULE PipeProofs -----------------------------
(***************************************************************************)
(* For any number of processes and any size of the ring buffer: the safety *)
(* invariants of Pipe, what its results mean, and the refinement of the    *)
(* byte stream.                                                            *)
(*                                                                         *)
(* IInv joins four facts: who is in a critical section has the lock        *)
(* (LockInv); the end that a process uses is open (EndInv); the counters   *)
(* are at most PIPESIZE apart (CountInv); and a sleeper has not been       *)
(* passed over by the critical sections since (SleepInv).                  *)
(***************************************************************************)
EXTENDS Pipe, Sequences, SequenceTheorems, TLAPS

LockedPCs == {"rwait", "rcopy", "rdoze", "wloop", "wdoze"}
ReadPCs   == {"racq", "rwait", "rcopy", "rdoze", "rsleep"}
WritePCs  == {"wacq", "wloop", "wdoze", "wsleep"}

(* p->lock is held from acquire() to sleep() or release().                 *)
LockInv == \A p \in Procs : pc[p] \in LockedPCs <=> lock = p

(* p->readopen and p->writeopen follow the reference counts of the files,  *)
(* but for the process that is on its way into pipeclose().                *)
EndInv ==
  /\ \A p \in Procs : pc[p] \in ReadPCs  => p \in rfd
  /\ \A p \in Procs : pc[p] \in WritePCs => p \in wfd
  /\ rfd # {} => readopen
  /\ wfd # {} => writeopen
  /\ \A p \in Procs : pc[p] = "rclose" => rfd = {} /\ readopen
  /\ \A p \in Procs : pc[p] = "wclose" => wfd = {} /\ writeopen
  /\ \A p, q \in Procs :
       pc[p] = pc[q] /\ pc[p] \in {"rclose", "wclose"} => p = q
  /\ freed = Unused(readopen, writeopen)

(* The bytes in the pipe.                                                  *)
Count == (nwrite + W - nread) % W

CountInv == Count <= PIPESIZE

(* A reader is asleep, or about to, with the write end open, and nobody    *)
(* but a writer in its critical section has put a byte in for it to find;  *)
(* the other way round for a writer.                                       *)
SleepInv ==
  /\ \A p \in Procs : pc[p] \in {"rdoze", "rsleep"} => writeopen
  /\ \A p \in Procs : pc[p] \in {"wdoze", "wsleep"} => readopen
  /\ \A p \in Procs : pc[p] = "rdoze" => Empty
  /\ \A p \in Procs : pc[p] = "wdoze" => Full
  /\ \A p \in Procs : pc[p] = "rsleep" =>
       \/ Empty \/ \E q \in Procs : killed[q]
       \/ \E q \in Procs : pc[q] = "wloop"
  /\ \A p \in Procs : pc[p] = "wsleep" =>
       Full \/ \E q \in Procs : pc[q] = "rcopy"

(* A reader that has got nothing yet found something, or no writer.        *)
FoundInv ==
  \A p \in Procs : pc[p] = "rcopy" /\ i[p] = 0 => ~ Empty \/ ~ writeopen

IInv ==
  TypeOK /\ LockInv /\ EndInv /\ CountInv /\ SleepInv /\ FoundInv
-----------------------------------------------------------------------------
(* The arithmetic of the wrapping counters.                                *)
LEMMA Sizes == PIPESIZE \in Nat \ {0} /\ W \in Nat \ {0} /\ PIPESIZE < W
BY PipeAssumption

LEMMA Wrap == \A a \in 0 .. 2 * W - 1 : a % W = IF a < W THEN a ELSE a - W
BY Sizes

(* The distance of the counters, and that after the increment of one.      *)
LEMMA Distance ==
  ASSUME NEW r \in 0 .. W - 1, NEW w \in 0 .. W - 1
  PROVE  LET d == (w + W - r) % W
         IN  /\ d \in 0 .. W - 1
             /\ w = (r + d) % W
             /\ d = 0 <=> r = w
             /\ r # w => (w + W - Inc(r)) % W = d - 1
             /\ d < W - 1 => (Inc(w) + W - r) % W = d + 1
             /\ d = PIPESIZE <=> w = (r + PIPESIZE) % W
             /\ Inc(r) \in 0 .. W - 1
<1> DEFINE d == (w + W - r) % W
<1>1. d = IF r <= w THEN w - r ELSE w + W - r
  BY Sizes, Wrap
<1>2. \A x \in 0 .. W - 1 : Inc(x) = IF x = W - 1 THEN 0 ELSE x + 1
  BY Sizes, Wrap DEF Inc
<1> HIDE DEF d
<1>3. d \in 0 .. W - 1 /\ w = (r + d) % W
  <2>1. d \in 0 .. W - 1 /\ r + d \in 0 .. 2 * W - 1
    BY <1>1, Sizes
  <2>2. (r + d) % W = IF r + d < W THEN r + d ELSE r + d - W
    BY <2>1, Sizes
  <2> QED
    BY <1>1, <2>1, <2>2, Sizes
<1>4. r # w => (w + W - Inc(r)) % W = d - 1
  <2>1. r # w => w + W - Inc(r) \in 0 .. 2 * W - 1
    BY <1>2, Sizes
  <2> QED
    BY <1>1, <1>2, <2>1, Sizes, Wrap
<1>5. d < W - 1 => (Inc(w) + W - r) % W = d + 1
  <2>1. Inc(w) \in 0 .. W - 1
    BY <1>2, Sizes
  <2>2. (Inc(w) + W - r) % W = IF Inc(w) < r THEN Inc(w) + W - r ELSE Inc(w) - r
    BY <2>1, Sizes
  <2> QED
    BY <1>1, <1>2, <2>2, Sizes
<1>6. d = PIPESIZE <=> w = (r + PIPESIZE) % W
  <2>1. r + PIPESIZE \in 0 .. 2 * W - 1
    BY Sizes
  <2>2. (r + PIPESIZE) % W = IF r + PIPESIZE < W THEN r + PIPESIZE ELSE r + PIPESIZE - W
    BY <2>1, Sizes
  <2> QED
    BY <1>1, <2>2, Sizes
<1>7. d = (w + W - r) % W
  BY DEF d
<1>8. d = 0 <=> r = w
  BY <1>1, Sizes
<1>9. Inc(r) \in 0 .. W - 1
  BY <1>2, Sizes
<1> QED
  BY <1>3, <1>4, <1>5, <1>6, <1>7, <1>8, <1>9
-----------------------------------------------------------------------------
(* pipealloc(): nobody uses the pipe yet, and it is empty.                 *)
LEMMA InitIInv == Init => IInv
<1> SUFFICES ASSUME Init PROVE IInv
  OBVIOUS
<1>1. TypeOK
  <2>1. nread \in 0 .. W - 1 /\ nwrite \in 0 .. W - 1
    BY Sizes DEF Init
  <2>2. n \in [Procs -> 0 .. MaxN] /\ i \in [Procs -> 0 .. MaxN]
    BY PipeAssumption DEF Init
  <2> QED
    BY <2>1, <2>2 DEF Init, TypeOK, PCs
<1>2. LockInv /\ EndInv /\ SleepInv /\ FoundInv
  BY PipeAssumption
     DEF Init, LockInv, EndInv, SleepInv, FoundInv, LockedPCs, ReadPCs, WritePCs, Unused
<1>3. CountInv
  BY Sizes, Distance DEF Init, CountInv, Count
<1> QED
  BY <1>1, <1>2, <1>3 DEF IInv

(* release() and the return from the call.                                 *)
LEMMA ReturnTyped ==
  ASSUME TypeOK, NEW p \in Procs, NEW f \in [Procs -> PCs], Return(f, p)
  PROVE  /\ lock' \in Procs \cup {NoProc}
         /\ pc' \in [Procs -> PCs]
         /\ n' \in [Procs -> 0 .. MaxN] /\ i' \in [Procs -> 0 .. MaxN]
         /\ \A q \in Procs : pc'[q] = IF q = p THEN "user" ELSE f[q]
<1>1. "user" \in PCs
  BY DEF PCs
<1>2. 0 \in 0 .. MaxN
  BY PipeAssumption
<1> QED
  BY <1>1, <1>2 DEF Return, TypeOK

(* wakeup() moves the processes that sleep, and no others.                 *)
LEMMA AwakeTyped ==
  ASSUME TypeOK, NEW S \in SUBSET {"rsleep", "wsleep"}
  PROVE  /\ Awake(pc, S) \in [Procs -> PCs]
         /\ \A q \in Procs :
              Awake(pc, S)[q] = IF pc[q] \notin S THEN pc[q]
                                ELSE IF pc[q] = "rsleep" THEN "racq" ELSE "wacq"
BY DEF TypeOK, PCs, Awake

(* One step per action, and under it one per part of IInv.                 *)
LEMMA StepIInv ==
  ASSUME IInv, [Next]_vars
  PROVE  IInv'
<1>t. TypeOK /\ LockInv /\ EndInv /\ CountInv /\ SleepInv /\ FoundInv
  BY DEF IInv
<1>1. ASSUME NEW p \in Procs, CallRead(p) PROVE IInv'
  <2>1. TypeOK'
    BY <1>1, <1>t, PipeAssumption DEF CallRead, Call, pipeVars, endVars, procVars, TypeOK, PCs
  <2>2. LockInv'
    BY <1>1, <1>t, PipeAssumption DEF CallRead, Call, pipeVars, endVars, procVars, LockInv, LockedPCs, TypeOK, PCs
  <2>3. EndInv'
    BY <1>1, <1>t, PipeAssumption DEF CallRead, Call, pipeVars, endVars, procVars, EndInv, LockInv, LockedPCs, ReadPCs, WritePCs, Unused, TypeOK, PCs
  <2>4. CountInv'
    BY <1>1, <1>t DEF CallRead, Call, CountInv, Count, pipeVars
  <2>5. SleepInv'
    <3>1. \A q \in Procs : pc'[q] = IF q = p THEN "racq" ELSE pc[q]
      BY <1>1, <1>t DEF CallRead, Call, TypeOK
    <3>2. pc[p] = "user" /\ UNCHANGED <<nread, nwrite, readopen, writeopen, killed>>
      BY <1>1 DEF CallRead, Call, pipeVars, endVars
    <3> QED
      BY <3>1, <3>2, <1>t DEF SleepInv, Empty, Full
  <2>6. FoundInv'
    BY <1>1, <1>t, PipeAssumption DEF CallRead, Call, pipeVars, endVars, procVars, FoundInv, LockInv, LockedPCs, Empty, TypeOK, PCs
  <2> QED
    BY <2>1, <2>2, <2>3, <2>4, <2>5, <2>6 DEF IInv
<1>2. ASSUME NEW p \in Procs, CallWrite(p) PROVE IInv'
  <2>1. TypeOK'
    BY <1>2, <1>t, PipeAssumption DEF CallWrite, Call, pipeVars, endVars, procVars, TypeOK, PCs
  <2>2. LockInv'
    BY <1>2, <1>t, PipeAssumption DEF CallWrite, Call, pipeVars, endVars, procVars, LockInv, LockedPCs, TypeOK, PCs
  <2>3. EndInv'
    BY <1>2, <1>t, PipeAssumption DEF CallWrite, Call, pipeVars, endVars, procVars, EndInv, LockInv, LockedPCs, ReadPCs, WritePCs, Unused, TypeOK, PCs
  <2>4. CountInv'
    BY <1>2, <1>t DEF CallWrite, Call, CountInv, Count, pipeVars
  <2>5. SleepInv'
    BY <1>2, <1>t, PipeAssumption DEF CallWrite, Call, pipeVars, endVars, procVars, SleepInv, LockInv, LockedPCs, EndInv, ReadPCs, WritePCs, Empty, Full, TypeOK, PCs
  <2>6. FoundInv'
    BY <1>2, <1>t, PipeAssumption DEF CallWrite, Call, pipeVars, endVars, procVars, FoundInv, LockInv, LockedPCs, Empty, TypeOK, PCs
  <2> QED
    BY <2>1, <2>2, <2>3, <2>4, <2>5, <2>6 DEF IInv
<1>3. ASSUME NEW p \in Procs, ReadAcquire(p) PROVE IInv'
  <2>1. TypeOK'
    BY <1>3, <1>t, PipeAssumption DEF ReadAcquire, Acquire, pipeVars, endVars, procVars, TypeOK, PCs
  <2>2. LockInv'
    BY <1>3, <1>t, PipeAssumption DEF ReadAcquire, Acquire, pipeVars, endVars, procVars, LockInv, LockedPCs, TypeOK, PCs
  <2>3. EndInv'
    BY <1>3, <1>t, PipeAssumption DEF ReadAcquire, Acquire, pipeVars, endVars, procVars, EndInv, LockInv, LockedPCs, ReadPCs, WritePCs, Unused, TypeOK, PCs
  <2>4. CountInv'
    BY <1>3, <1>t DEF ReadAcquire, Acquire, CountInv, Count, pipeVars
  <2>5. SleepInv'
    BY <1>3, <1>t, PipeAssumption DEF ReadAcquire, Acquire, pipeVars, endVars, procVars, SleepInv, LockInv, LockedPCs, EndInv, ReadPCs, WritePCs, Empty, Full, TypeOK, PCs
  <2>6. FoundInv'
    BY <1>3, <1>t, PipeAssumption DEF ReadAcquire, Acquire, pipeVars, endVars, procVars, FoundInv, LockInv, LockedPCs, Empty, TypeOK, PCs
  <2> QED
    BY <2>1, <2>2, <2>3, <2>4, <2>5, <2>6 DEF IInv
<1>4. ASSUME NEW p \in Procs, ReadWait(p) PROVE IInv'
  <2>1. pc[p] = "rwait" /\ UNCHANGED <<pipeVars, endVars, killed>>
    BY <1>4 DEF ReadWait
  <2>2. CountInv'
    BY <2>1, <1>t DEF CountInv, Count, pipeVars
  <2>3. CASE Return(pc, p) /\ Empty /\ writeopen
    <3>1. TypeOK'
      BY <2>1, <2>3, <1>t, ReturnTyped DEF TypeOK, pipeVars, endVars
    <3>2. \A q \in Procs : pc'[q] = IF q = p THEN "user" ELSE pc[q]
      BY <2>3, <1>t, ReturnTyped DEF TypeOK
    <3>3. lock = p /\ lock' = NoProc
      BY <2>1, <2>3, <1>t DEF LockInv, LockedPCs, Return
    <3>4. LockInv'
      BY <3>2, <3>3, <1>t, PipeAssumption DEF LockInv, LockedPCs
    <3>5. EndInv'
      BY <2>1, <3>2, <1>t DEF EndInv, ReadPCs, WritePCs, Unused, endVars
    <3>6. SleepInv'
      BY <2>1, <2>3, <3>2, <1>t DEF SleepInv, Empty, Full, pipeVars, endVars
    <3>7. FoundInv'
      BY <2>1, <2>3, <3>2, <3>3, <1>t DEF FoundInv, LockInv, LockedPCs, Empty, pipeVars, endVars
    <3> QED
      BY <2>2, <3>1, <3>4, <3>5, <3>6, <3>7 DEF IInv
  <2>4. CASE pc' = [pc EXCEPT ![p] = "rdoze"] /\ Empty /\ writeopen /\ UNCHANGED <<lock, procVars>>
    <3>1. TypeOK'
      BY <2>1, <2>4, <1>t DEF TypeOK, PCs, pipeVars, endVars, procVars
    <3>2. \A q \in Procs : pc'[q] = IF q = p THEN "rdoze" ELSE pc[q]
      BY <2>4, <1>t DEF TypeOK
    <3>3. UNCHANGED <<lock, i>>
      BY <2>4 DEF procVars
    <3>4. LockInv'
      BY <2>1, <3>2, <3>3, <1>t DEF LockInv, LockedPCs
    <3>5. EndInv'
      BY <2>1, <3>2, <1>t DEF EndInv, ReadPCs, WritePCs, Unused, endVars
    <3>6. SleepInv'
      BY <2>1, <2>4, <3>2, <1>t DEF SleepInv, Empty, Full, pipeVars, endVars
    <3>7. FoundInv'
      BY <2>1, <2>4, <3>2, <3>3, <1>t DEF FoundInv, LockInv, LockedPCs, Empty, pipeVars, endVars
    <3> QED
      BY <2>2, <3>1, <3>4, <3>5, <3>6, <3>7 DEF IInv
  <2>5. CASE pc' = [pc EXCEPT ![p] = "rcopy"] /\ ~ (Empty /\ writeopen) /\ UNCHANGED <<lock, procVars>>
    <3>1. TypeOK'
      BY <2>1, <2>5, <1>t DEF TypeOK, PCs, pipeVars, endVars, procVars
    <3>2. \A q \in Procs : pc'[q] = IF q = p THEN "rcopy" ELSE pc[q]
      BY <2>5, <1>t DEF TypeOK
    <3>3. UNCHANGED <<lock, i>>
      BY <2>5 DEF procVars
    <3>4. LockInv'
      BY <2>1, <3>2, <3>3, <1>t DEF LockInv, LockedPCs
    <3>5. EndInv'
      BY <2>1, <3>2, <1>t DEF EndInv, ReadPCs, WritePCs, Unused, endVars
    <3>6. SleepInv'
      BY <2>1, <2>5, <3>2, <1>t DEF SleepInv, Empty, Full, pipeVars, endVars
    <3>7. FoundInv'
      BY <2>1, <2>5, <3>2, <3>3, <1>t DEF FoundInv, LockInv, LockedPCs, Empty, pipeVars, endVars
    <3> QED
      BY <2>2, <3>1, <3>4, <3>5, <3>6, <3>7 DEF IInv
  <2> QED
    BY <1>4, <2>3, <2>4, <2>5 DEF ReadWait
<1>5. ASSUME NEW p \in Procs, ReadSleep(p) PROVE IInv'
  <2>1. TypeOK'
    BY <1>5, <1>t, PipeAssumption DEF ReadSleep, Sleep, pipeVars, endVars, procVars, TypeOK, PCs
  <2>2. LockInv'
    BY <1>5, <1>t, PipeAssumption DEF ReadSleep, Sleep, pipeVars, endVars, procVars, LockInv, LockedPCs, TypeOK, PCs
  <2>3. EndInv'
    BY <1>5, <1>t, PipeAssumption DEF ReadSleep, Sleep, pipeVars, endVars, procVars, EndInv, LockInv, LockedPCs, ReadPCs, WritePCs, Unused, TypeOK, PCs
  <2>4. CountInv'
    BY <1>5, <1>t DEF ReadSleep, Sleep, CountInv, Count, pipeVars
  <2>5. SleepInv'
    BY <1>5, <1>t, PipeAssumption DEF ReadSleep, Sleep, pipeVars, endVars, procVars, SleepInv, LockInv, LockedPCs, EndInv, ReadPCs, WritePCs, Empty, Full, TypeOK, PCs
  <2>6. FoundInv'
    BY <1>5, <1>t, PipeAssumption DEF ReadSleep, Sleep, pipeVars, endVars, procVars, FoundInv, LockInv, LockedPCs, Empty, TypeOK, PCs
  <2> QED
    BY <2>1, <2>2, <2>3, <2>4, <2>5, <2>6 DEF IInv
<1>6. ASSUME NEW p \in Procs, ReadByte(p) PROVE IInv'
  <2>1. TypeOK'
    <3>1. nread' \in 0 .. W - 1
      BY <1>6, <1>t, Distance DEF ReadByte, TypeOK
    <3>2. nread % PIPESIZE \in 0 .. PIPESIZE - 1
      BY <1>t, Sizes DEF TypeOK
    <3>3. i' \in [Procs -> 0 .. MaxN]
      BY <1>6, <1>t, PipeAssumption DEF ReadByte, TypeOK
    <3> QED
      BY <1>6, <1>t, <3>1, <3>2, <3>3 DEF ReadByte, TypeOK, endVars
  <2>2. LockInv'
    BY <1>6, <1>t, PipeAssumption DEF ReadByte, pipeVars, endVars, procVars, LockInv, LockedPCs, TypeOK, PCs
  <2>3. EndInv'
    BY <1>6, <1>t, PipeAssumption DEF ReadByte, pipeVars, endVars, procVars, EndInv, LockInv, LockedPCs, ReadPCs, WritePCs, Unused, TypeOK, PCs
  <2>4. CountInv'
    BY <1>6, <1>t, Sizes, Distance DEF ReadByte, CountInv, Count, TypeOK, Empty, Full
  <2>5. SleepInv'
    BY <1>6, <1>t, PipeAssumption DEF ReadByte, pipeVars, endVars, procVars, SleepInv, LockInv, LockedPCs, EndInv, ReadPCs, WritePCs, Empty, Full, TypeOK, PCs
  <2>6. FoundInv'
    BY <1>6, <1>t, PipeAssumption DEF ReadByte, pipeVars, endVars, procVars, FoundInv, LockInv, LockedPCs, Empty, TypeOK, PCs
  <2> QED
    BY <2>1, <2>2, <2>3, <2>4, <2>5, <2>6 DEF IInv
<1>7. ASSUME NEW p \in Procs, ReadReturn(p) PROVE IInv'
  <2>1. TypeOK'
    <3>1. Awake(pc, Writers) \in [Procs -> PCs]
      BY <1>t, AwakeTyped DEF Writers
    <3> QED
      BY <1>7, <1>t, <3>1, ReturnTyped DEF ReadReturn, TypeOK, pipeVars, endVars
  <2>2. LockInv'
    BY <1>7, <1>t, PipeAssumption DEF ReadReturn, Return, Awake, Writers, pipeVars, endVars, procVars, LockInv, LockedPCs, TypeOK, PCs
  <2>3. EndInv'
    BY <1>7, <1>t, PipeAssumption DEF ReadReturn, Return, Awake, Writers, pipeVars, endVars, procVars, EndInv, LockInv, LockedPCs, ReadPCs, WritePCs, Unused, TypeOK, PCs
  <2>4. CountInv'
    BY <1>7, <1>t DEF ReadReturn, Return, Awake, Writers, CountInv, Count, pipeVars
  <2>5. SleepInv'
    BY <1>7, <1>t, PipeAssumption DEF ReadReturn, Return, Awake, Writers, pipeVars, endVars, procVars, SleepInv, LockInv, LockedPCs, EndInv, ReadPCs, WritePCs, Empty, Full, TypeOK, PCs
  <2>6. FoundInv'
    BY <1>7, <1>t, PipeAssumption DEF ReadReturn, Return, Awake, Writers, pipeVars, endVars, procVars, FoundInv, LockInv, LockedPCs, Empty, TypeOK, PCs
  <2> QED
    BY <2>1, <2>2, <2>3, <2>4, <2>5, <2>6 DEF IInv
<1>8. ASSUME NEW p \in Procs, WriteAcquire(p) PROVE IInv'
  <2>1. TypeOK'
    BY <1>8, <1>t, PipeAssumption DEF WriteAcquire, Acquire, pipeVars, endVars, procVars, TypeOK, PCs
  <2>2. LockInv'
    BY <1>8, <1>t, PipeAssumption DEF WriteAcquire, Acquire, pipeVars, endVars, procVars, LockInv, LockedPCs, TypeOK, PCs
  <2>3. EndInv'
    BY <1>8, <1>t, PipeAssumption DEF WriteAcquire, Acquire, pipeVars, endVars, procVars, EndInv, LockInv, LockedPCs, ReadPCs, WritePCs, Unused, TypeOK, PCs
  <2>4. CountInv'
    BY <1>8, <1>t DEF WriteAcquire, Acquire, CountInv, Count, pipeVars
  <2>5. SleepInv'
    BY <1>8, <1>t, PipeAssumption DEF WriteAcquire, Acquire, pipeVars, endVars, procVars, SleepInv, LockInv, LockedPCs, EndInv, ReadPCs, WritePCs, Empty, Full, TypeOK, PCs
  <2>6. FoundInv'
    BY <1>8, <1>t, PipeAssumption DEF WriteAcquire, Acquire, pipeVars, endVars, procVars, FoundInv, LockInv, LockedPCs, Empty, TypeOK, PCs
  <2> QED
    BY <2>1, <2>2, <2>3, <2>4, <2>5, <2>6 DEF IInv
<1>9. ASSUME NEW p \in Procs, WriteFull(p) PROVE IInv'
  <2>1. pc[p] = "wloop" /\ Full /\ UNCHANGED <<pipeVars, endVars, killed>>
    BY <1>9 DEF WriteFull
  <2>2. CountInv'
    BY <2>1, <1>t DEF CountInv, Count, pipeVars
  <2>3. CASE (~ readopen \/ killed[p]) /\ Return(pc, p)
    <3>1. TypeOK'
      BY <2>1, <2>3, <1>t, ReturnTyped DEF TypeOK, pipeVars, endVars
    <3>2. \A q \in Procs : pc'[q] = IF q = p THEN "user" ELSE pc[q]
      BY <2>3, <1>t, ReturnTyped DEF TypeOK
    <3>3. lock = p /\ lock' = NoProc
      BY <2>1, <2>3, <1>t DEF LockInv, LockedPCs, Return
    <3>4. LockInv'
      BY <3>2, <3>3, <1>t, PipeAssumption DEF LockInv, LockedPCs
    <3>5. EndInv'
      BY <2>1, <3>2, <1>t DEF EndInv, ReadPCs, WritePCs, Unused, endVars
    <3>6. SleepInv'
      BY <2>1, <2>3, <3>2, <1>t DEF SleepInv, EndInv, ReadPCs, Empty, Full, pipeVars, endVars
    <3>7. FoundInv'
      BY <2>1, <3>2, <3>3, <1>t DEF FoundInv, LockInv, LockedPCs
    <3> QED
      BY <2>2, <3>1, <3>4, <3>5, <3>6, <3>7 DEF IInv
  <2>4. CASE readopen /\ pc' = [Awake(pc, Readers) EXCEPT ![p] = "wdoze"] /\ UNCHANGED <<lock, procVars>>
    <3>1. /\ Awake(pc, Readers) \in [Procs -> PCs]
          /\ \A q \in Procs : Awake(pc, Readers)[q] = IF pc[q] = "rsleep" THEN "racq" ELSE pc[q]
      BY <1>t, AwakeTyped DEF Readers
    <3>2. \A q \in Procs : pc'[q] = IF q = p THEN "wdoze" ELSE IF pc[q] = "rsleep" THEN "racq" ELSE pc[q]
      BY <2>4, <3>1
    <3>3. UNCHANGED <<lock, i>>
      BY <2>4 DEF procVars
    <3>4. TypeOK'
      BY <2>1, <2>4, <3>1, <1>t DEF TypeOK, PCs, pipeVars, endVars, procVars
    <3>5. LockInv'
      BY <2>1, <3>2, <3>3, <1>t DEF LockInv, LockedPCs
    <3>6. EndInv'
      BY <2>1, <3>2, <1>t DEF EndInv, ReadPCs, WritePCs, Unused, endVars
    <3>7. SleepInv'
      BY <2>1, <2>4, <3>2, <1>t DEF SleepInv, Empty, Full, pipeVars, endVars
    <3>8. FoundInv'
      BY <2>1, <3>2, <3>3, <1>t DEF FoundInv, LockInv, LockedPCs, Empty, pipeVars, endVars
    <3> QED
      BY <2>2, <3>4, <3>5, <3>6, <3>7, <3>8 DEF IInv
  <2> QED
    BY <1>9, <2>3, <2>4 DEF WriteFull
<1>10. ASSUME NEW p \in Procs, WriteSleep(p) PROVE IInv'
  <2>1. TypeOK'
    BY <1>10, <1>t, PipeAssumption DEF WriteSleep, Sleep, pipeVars, endVars, procVars, TypeOK, PCs
  <2>2. LockInv'
    BY <1>10, <1>t, PipeAssumption DEF WriteSleep, Sleep, pipeVars, endVars, procVars, LockInv, LockedPCs, TypeOK, PCs
  <2>3. EndInv'
    BY <1>10, <1>t, PipeAssumption DEF WriteSleep, Sleep, pipeVars, endVars, procVars, EndInv, LockInv, LockedPCs, ReadPCs, WritePCs, Unused, TypeOK, PCs
  <2>4. CountInv'
    BY <1>10, <1>t DEF WriteSleep, Sleep, CountInv, Count, pipeVars
  <2>5. SleepInv'
    BY <1>10, <1>t, PipeAssumption DEF WriteSleep, Sleep, pipeVars, endVars, procVars, SleepInv, LockInv, LockedPCs, EndInv, ReadPCs, WritePCs, Empty, Full, TypeOK, PCs
  <2>6. FoundInv'
    BY <1>10, <1>t, PipeAssumption DEF WriteSleep, Sleep, pipeVars, endVars, procVars, FoundInv, LockInv, LockedPCs, Empty, TypeOK, PCs
  <2> QED
    BY <2>1, <2>2, <2>3, <2>4, <2>5, <2>6 DEF IInv
<1>11. ASSUME NEW p \in Procs, WriteByte(p) PROVE IInv'
  <2>1. TypeOK'
    <3>1. nwrite' \in 0 .. W - 1
      BY <1>11, <1>t, Distance DEF WriteByte, TypeOK
    <3>2. data' \in [0 .. PIPESIZE - 1 -> Bytes]
      BY <1>11, <1>t DEF WriteByte, TypeOK
    <3>3. i' \in [Procs -> 0 .. MaxN]
      BY <1>11, <1>t, PipeAssumption DEF WriteByte, TypeOK
    <3> QED
      BY <1>11, <1>t, <3>1, <3>2, <3>3 DEF WriteByte, TypeOK, endVars
  <2>2. LockInv'
    BY <1>11, <1>t, PipeAssumption DEF WriteByte, pipeVars, endVars, procVars, LockInv, LockedPCs, TypeOK, PCs
  <2>3. EndInv'
    BY <1>11, <1>t, PipeAssumption DEF WriteByte, pipeVars, endVars, procVars, EndInv, LockInv, LockedPCs, ReadPCs, WritePCs, Unused, TypeOK, PCs
  <2>4. CountInv'
    <3>1. /\ Count \in 0 .. W - 1 /\ Count # PIPESIZE
          /\ Count < W - 1 => (Inc(nwrite) + W - nread) % W = Count + 1
      BY <1>11, <1>t, Distance DEF WriteByte, Count, Full, TypeOK
    <3>2. Count' = (Inc(nwrite) + W - nread) % W
      BY <1>11 DEF WriteByte, Count
    <3> QED
      BY <3>1, <3>2, <1>t, Sizes DEF CountInv
  <2>5. SleepInv'
    BY <1>11, <1>t, PipeAssumption DEF WriteByte, pipeVars, endVars, procVars, SleepInv, LockInv, LockedPCs, EndInv, ReadPCs, WritePCs, Empty, Full, TypeOK, PCs
  <2>6. FoundInv'
    BY <1>11, <1>t, PipeAssumption DEF WriteByte, pipeVars, endVars, procVars, FoundInv, LockInv, LockedPCs, Empty, TypeOK, PCs
  <2> QED
    BY <2>1, <2>2, <2>3, <2>4, <2>5, <2>6 DEF IInv
<1>12. ASSUME NEW p \in Procs, WriteReturn(p) PROVE IInv'
  <2>1. TypeOK'
    BY <1>12, <1>t, PipeAssumption DEF WriteReturn, Return, Awake, Readers, pipeVars, endVars, procVars, TypeOK, PCs
  <2>2. LockInv'
    BY <1>12, <1>t, PipeAssumption DEF WriteReturn, Return, Awake, Readers, pipeVars, endVars, procVars, LockInv, LockedPCs, TypeOK, PCs
  <2>3. EndInv'
    BY <1>12, <1>t, PipeAssumption DEF WriteReturn, Return, Awake, Readers, pipeVars, endVars, procVars, EndInv, LockInv, LockedPCs, ReadPCs, WritePCs, Unused, TypeOK, PCs
  <2>4. CountInv'
    BY <1>12, <1>t DEF WriteReturn, Return, Awake, Readers, CountInv, Count, pipeVars
  <2>5. SleepInv'
    BY <1>12, <1>t, PipeAssumption DEF WriteReturn, Return, Awake, Readers, pipeVars, endVars, procVars, SleepInv, LockInv, LockedPCs, EndInv, ReadPCs, WritePCs, Empty, Full, TypeOK, PCs
  <2>6. FoundInv'
    BY <1>12, <1>t, PipeAssumption DEF WriteReturn, Return, Awake, Readers, pipeVars, endVars, procVars, FoundInv, LockInv, LockedPCs, Empty, TypeOK, PCs
  <2> QED
    BY <2>1, <2>2, <2>3, <2>4, <2>5, <2>6 DEF IInv
<1>13. ASSUME NEW p \in Procs, PipeClose(p) PROVE IInv'
  <2>1. TypeOK'
    BY <1>13, <1>t, PipeAssumption DEF PipeClose, Awake, CloseWakes, Readers, Writers, Unused, pipeVars, endVars, procVars, TypeOK, PCs
  <2>2. LockInv'
    BY <1>13, <1>t, PipeAssumption DEF PipeClose, Awake, CloseWakes, Readers, Writers, Unused, pipeVars, endVars, procVars, LockInv, LockedPCs, TypeOK, PCs
  <2>3. EndInv'
    BY <1>13, <1>t, PipeAssumption DEF PipeClose, Awake, CloseWakes, Readers, Writers, Unused, pipeVars, endVars, procVars, EndInv, LockInv, LockedPCs, ReadPCs, WritePCs, Unused, TypeOK, PCs
  <2>4. CountInv'
    BY <1>13, <1>t DEF PipeClose, Awake, CloseWakes, Readers, Writers, Unused, CountInv, Count, pipeVars
  <2>5. SleepInv'
    BY <1>13, <1>t, PipeAssumption DEF PipeClose, Awake, CloseWakes, Readers, Writers, Unused, pipeVars, endVars, procVars, SleepInv, LockInv, LockedPCs, EndInv, ReadPCs, WritePCs, Empty, Full, TypeOK, PCs
  <2>6. FoundInv'
    BY <1>13, <1>t, PipeAssumption DEF PipeClose, Awake, CloseWakes, Readers, Writers, Unused, pipeVars, endVars, procVars, FoundInv, LockInv, LockedPCs, Empty, TypeOK, PCs
  <2> QED
    BY <2>1, <2>2, <2>3, <2>4, <2>5, <2>6 DEF IInv
<1>14. ASSUME NEW p \in Procs, Close(p) PROVE IInv'
  <2>1. TypeOK'
    BY <1>14, <1>t, PipeAssumption DEF Close, LastRef, pipeVars, endVars, procVars, TypeOK, PCs
  <2>2. LockInv'
    BY <1>14, <1>t, PipeAssumption DEF Close, LastRef, pipeVars, endVars, procVars, LockInv, LockedPCs, TypeOK, PCs
  <2>3. EndInv'
    <3>1. CASE p \in rfd /\ rfd' = rfd \ {p} /\ UNCHANGED wfd /\ pc' = [pc EXCEPT ![p] = IF rfd = {p} THEN "rclose" ELSE "user"]
      <4>1. \A q \in Procs : pc'[q] = IF q # p THEN pc[q] ELSE IF rfd = {p} THEN "rclose" ELSE "user"
        BY <3>1, <1>t DEF TypeOK
      <4>2. rfd' = {} <=> rfd = {p}
        BY <3>1
      <4> QED
        BY <1>14, <3>1, <4>1, <4>2, <1>t DEF Close, EndInv, ReadPCs, WritePCs, Unused
    <3>2. CASE p \in wfd /\ wfd' = wfd \ {p} /\ UNCHANGED rfd /\ pc' = [pc EXCEPT ![p] = IF wfd = {p} THEN "wclose" ELSE "user"]
      <4>1. \A q \in Procs : pc'[q] = IF q # p THEN pc[q] ELSE IF wfd = {p} THEN "wclose" ELSE "user"
        BY <3>2, <1>t DEF TypeOK
      <4>2. wfd' = {} <=> wfd = {p}
        BY <3>2
      <4> QED
        BY <1>14, <3>2, <4>1, <4>2, <1>t DEF Close, EndInv, ReadPCs, WritePCs, Unused
    <3> QED
      BY <1>14, <3>1, <3>2 DEF Close, LastRef
  <2>4. CountInv'
    BY <1>14, <1>t DEF Close, LastRef, CountInv, Count, pipeVars
  <2>5. SleepInv'
    <3>1. pc[p] = "user" /\ pc'[p] \in {"user", "rclose", "wclose"} /\ \A q \in Procs \ {p} : pc'[q] = pc[q]
      BY <1>14, <1>t DEF Close, TypeOK
    <3>2. UNCHANGED <<nread, nwrite, readopen, writeopen, killed>>
      BY <1>14 DEF Close, pipeVars
    <3> QED
      BY <3>1, <3>2, <1>t DEF SleepInv, Empty, Full
  <2>6. FoundInv'
    BY <1>14, <1>t, PipeAssumption DEF Close, LastRef, pipeVars, endVars, procVars, FoundInv, LockInv, LockedPCs, Empty, TypeOK, PCs
  <2> QED
    BY <2>1, <2>2, <2>3, <2>4, <2>5, <2>6 DEF IInv
<1>15. ASSUME NEW p \in Procs, Kill(p) PROVE IInv'
  <2>1. TypeOK'
    BY <1>15, <1>t, PipeAssumption DEF Kill, Awake, Readers, Writers, pipeVars, endVars, procVars, TypeOK, PCs
  <2>2. LockInv'
    BY <1>15, <1>t, PipeAssumption DEF Kill, Awake, Readers, Writers, pipeVars, endVars, procVars, LockInv, LockedPCs, TypeOK, PCs
  <2>3. EndInv'
    BY <1>15, <1>t, PipeAssumption DEF Kill, Awake, Readers, Writers, pipeVars, endVars, procVars, EndInv, LockInv, LockedPCs, ReadPCs, WritePCs, Unused, TypeOK, PCs
  <2>4. CountInv'
    BY <1>15, <1>t DEF Kill, Awake, Readers, Writers, CountInv, Count, pipeVars
  <2>5. SleepInv'
    BY <1>15, <1>t, PipeAssumption DEF Kill, Awake, Readers, Writers, pipeVars, endVars, procVars, SleepInv, LockInv, LockedPCs, EndInv, ReadPCs, WritePCs, Empty, Full, TypeOK, PCs
  <2>6. FoundInv'
    BY <1>15, <1>t, PipeAssumption DEF Kill, Awake, Readers, Writers, pipeVars, endVars, procVars, FoundInv, LockInv, LockedPCs, Empty, TypeOK, PCs
  <2> QED
    BY <2>1, <2>2, <2>3, <2>4, <2>5, <2>6 DEF IInv
<1>16. CASE UNCHANGED vars
  BY <1>16, <1>t DEF vars, pipeVars, endVars, procVars, IInv, TypeOK, LockInv, EndInv, CountInv, Count, SleepInv, FoundInv, Empty, Full, Unused
<1> QED
  BY <1>1, <1>2, <1>3, <1>4, <1>5, <1>6, <1>7, <1>8, <1>9, <1>10, <1>11, <1>12, <1>13, <1>14, <1>15, <1>16 DEF Next, Step
-----------------------------------------------------------------------------
(* The four facts hold in every reachable state.                           *)
THEOREM Invariant == Spec => []IInv
<1>1. IInv /\ [Next]_vars => IInv'
  BY StepIInv
<1> QED
  BY InitIInv, <1>1, PTL DEF Spec

(* The page is freed by the second pipeclose(), and by then nobody has an  *)
(* end open or is in piperead(), pipewrite() or pipeclose().               *)
THEOREM PageSafety == Spec => []NotUsedAfterFree
<1>1. IInv => NotUsedAfterFree
  <2> SUFFICES ASSUME IInv, freed PROVE lock = NoProc /\ \A p \in Procs : pc[p] = "user" /\ p \notin rfd \cup wfd
    BY DEF IInv, NotUsedAfterFree
  <2>1. rfd = {} /\ wfd = {}
    BY DEF IInv, EndInv, Unused, TypeOK
  <2>2. \A p \in Procs : pc[p] = "user"
    BY <2>1 DEF IInv, EndInv, Unused, TypeOK, PCs, ReadPCs, WritePCs
  <2>3. lock = NoProc
    BY <2>2 DEF IInv, LockInv, TypeOK, LockedPCs
  <2> QED
    BY <2>1, <2>2, <2>3
<1> QED
  BY Invariant, <1>1, PTL

(* Nobody sleeps in piperead() or pipewrite() on a pipe he could go on     *)
(* with, unless somebody who has the lock is about to wake him.            *)
THEOREM NoLostWakeup == Spec => []SleepersJustified
<1>1. IInv => SleepersJustified
  <2> SUFFICES ASSUME IInv, lock = NoProc, NEW p \in Procs
               PROVE  /\ pc[p] = "rsleep" => writeopen /\ (Empty \/ \E q \in Procs : killed[q])
                      /\ pc[p] = "wsleep" => readopen /\ Full
    BY DEF SleepersJustified
  <2>1. \A q \in Procs : pc[q] \notin LockedPCs
    BY PipeAssumption DEF IInv, LockInv
  <2> QED
    BY <2>1 DEF IInv, SleepInv, LockedPCs
<1> QED
  BY Invariant, <1>1, PTL

(* read() returns 0 only at the end of the file, and write() -1 only when  *)
(* there is no reader, or to the killed.                                   *)
THEOREM ReturnsHonest == Spec => HonestReturns
<1>1. ASSUME IInv, [Next]_vars PROVE [ReturnsAction]_vars
  <2> SUFFICES ASSUME NEW p \in Procs, Next, pc'[p] = "user", pc[p] \in {"rcopy", "wloop"}
               PROVE  /\ pc[p] = "rcopy" /\ i[p] = 0 /\ n[p] > 0 => wfd = {}
                      /\ pc[p] = "wloop" /\ i[p] < n[p] /\ ~ killed[p] => rfd = {}
    BY <1>1 DEF ReturnsAction
  <2>t. TypeOK /\ EndInv /\ FoundInv
    BY <1>1 DEF IInv
  <2>1. ASSUME NEW q \in Procs, CallRead(q) \/ CallWrite(q) \/ Step(q) \/ Close(q) \/ Kill(q)
        PROVE  ReadReturn(p) \/ WriteReturn(p) \/ (WriteFull(p) /\ Return(pc, p))
    <3>1. ASSUME q # p PROVE pc'[p] # "user"
      BY <2>1, <2>t, <3>1
         DEF Step, CallRead, CallWrite, Call, Close, Kill, Acquire, Sleep, Return, Awake, Readers, Writers,
             CloseWakes, ReadAcquire, ReadWait, ReadSleep, ReadByte, ReadReturn, WriteAcquire, WriteFull,
             WriteSleep, WriteByte, WriteReturn, PipeClose, procVars, TypeOK
    <3>2. ASSUME q = p PROVE ReadReturn(p) \/ WriteReturn(p) \/ (WriteFull(p) /\ Return(pc, p))
      BY <2>1, <2>t, <3>2
         DEF Step, CallRead, CallWrite, Call, Close, Kill, Acquire, Sleep, Awake, Readers, Writers,
             ReadAcquire, ReadWait, ReadSleep, ReadByte, WriteAcquire, WriteFull,
             WriteSleep, WriteByte, PipeClose, procVars, TypeOK
    <3> QED
      BY <3>1, <3>2
  <2>2. CASE ReadReturn(p)
    BY <2>2, <2>t DEF ReadReturn, FoundInv, EndInv, TypeOK
  <2>3. CASE WriteReturn(p)
    BY <2>3, <2>t DEF WriteReturn, TypeOK
  <2>4. CASE WriteFull(p) /\ Return(pc, p)
    BY <2>4, <2>t DEF WriteFull, Return, EndInv, TypeOK
  <2> QED
    BY <2>1, <2>2, <2>3, <2>4 DEF Next
<1>2. IInv /\ [Next]_vars => [ReturnsAction]_vars
  BY <1>1
<1> QED
  BY Invariant, <1>2, PTL DEF Spec, HonestReturns

-----------------------------------------------------------------------------
(* Division with remainder.                                                *)
LEMMA Remainder ==
  ASSUME NEW m \in Nat \ {0}, NEW q \in Nat, NEW s \in 0 .. m - 1
  PROVE  (q * m + s) % m = s
OBVIOUS

(* An index of the ring buffer does not depend on where the counters wrap  *)
(* (W is a multiple of PIPESIZE).                                          *)
LEMMA IndexWrap ==
  ASSUME NEW a \in Nat
  PROVE  (a % W) % PIPESIZE = a % PIPESIZE
<1> DEFINE m == W \div PIPESIZE
           k == a \div W
           r == a % W
           j == r \div PIPESIZE
           s == r % PIPESIZE
<1>1. m \in Nat /\ W = m * PIPESIZE
  BY PipeAssumption, Sizes
<1>2. k \in Nat /\ r \in Nat /\ a = k * W + r
  BY Sizes
<1>3. j \in Nat /\ s \in 0 .. PIPESIZE - 1 /\ r = j * PIPESIZE + s
  BY <1>2, Sizes
<1> HIDE DEF m, k, r, j, s
<1> DEFINE q == k * m + j
<1>4. a = q * PIPESIZE + s /\ q \in Nat
  BY <1>1, <1>2, <1>3, Sizes
<1> HIDE DEF q
<1>5. a % PIPESIZE = s
  BY <1>3, <1>4, Sizes, Remainder
<1> QED
  BY <1>5 DEF r, s

(* Where the k-th byte is, counted from index r.                           *)
Place(r, k) == ((r + k - 1) % W) % PIPESIZE

LEMMA PlaceSimple ==
  ASSUME NEW r \in 0 .. W - 1, NEW k \in Nat \ {0}
  PROVE  /\ Place(r, k) = (r + k - 1) % PIPESIZE
         /\ Place(r, k) \in 0 .. PIPESIZE - 1
<1> DEFINE a == r + k - 1
<1>1. a \in Nat
  BY Sizes
<1> HIDE DEF a
<1>2. (a % W) % PIPESIZE = a % PIPESIZE
  BY <1>1, IndexWrap, Zenon
<1>3. a % PIPESIZE \in 0 .. PIPESIZE - 1
  BY <1>1, Sizes
<1> QED
  BY <1>2, <1>3 DEF Place, a

LEMMA PlaceFirst ==
  ASSUME NEW r \in 0 .. W - 1
  PROVE  Place(r, 1) = r % PIPESIZE
<1>1. r + 1 - 1 = r /\ r % W = r
  BY Sizes
<1> QED
  BY <1>1 DEF Place

LEMMA PlaceNext ==
  ASSUME NEW r \in 0 .. W - 1, NEW k \in Nat \ {0}
  PROVE  Place(r, k + 1) = Place(Inc(r), k)
<1>1. Place(r, k + 1) = (r + k) % PIPESIZE
  <2>1. Place(r, k + 1) = (r + (k + 1) - 1) % PIPESIZE
    BY PlaceSimple
  <2>2. r + (k + 1) - 1 = r + k
    BY Sizes
  <2> QED
    BY <2>1, <2>2
<1>2. Place(Inc(r), k) = (Inc(r) + k - 1) % PIPESIZE
  BY Distance, PlaceSimple
<1>3. CASE r # W - 1
  <2>1. Inc(r) + k - 1 = r + k
    BY <1>3, Sizes, Wrap DEF Inc
  <2> QED
    BY <1>1, <1>2, <2>1
<1>4. CASE r = W - 1
  <2> DEFINE m == W \div PIPESIZE
             s == (k - 1) % PIPESIZE
             j == (k - 1) \div PIPESIZE
             q == m + j
  <2>1. Inc(r) + k - 1 = k - 1
    BY <1>4, Sizes DEF Inc
  <2>2. m \in Nat /\ W = m * PIPESIZE
    BY PipeAssumption, Sizes
  <2>3. j \in Nat /\ s \in 0 .. PIPESIZE - 1 /\ k - 1 = j * PIPESIZE + s
    BY Sizes
  <2>4. s = (k - 1) % PIPESIZE
    OBVIOUS
  <2> HIDE DEF m, s, j
  <2>5. r + k = q * PIPESIZE + s /\ q \in Nat
    BY <1>4, <2>2, <2>3, Sizes
  <2> HIDE DEF q
  <2>6. (r + k) % PIPESIZE = s
    BY <2>3, <2>5, Sizes, Remainder
  <2> QED
    BY <1>1, <1>2, <2>1, <2>4, <2>6
<1> QED
  BY <1>3, <1>4

(* Two bytes less than PIPESIZE apart are not in the same place.           *)
LEMMA PlaceApart ==
  ASSUME NEW r \in 0 .. W - 1, NEW a \in 1 .. PIPESIZE, NEW b \in 1 .. PIPESIZE, a # b
  PROVE  Place(r, a) # Place(r, b)
<1> DEFINE x == r + a - 1
           y == r + b - 1
           j == x \div PIPESIZE
           k == y \div PIPESIZE
           s == x % PIPESIZE
<1>1. Place(r, a) = x % PIPESIZE /\ Place(r, b) = y % PIPESIZE
  BY Sizes, PlaceSimple
<1>2. x \in Nat /\ y \in Nat /\ x - y = a - b
  BY Sizes
<1>3. SUFFICES ASSUME x % PIPESIZE = y % PIPESIZE PROVE FALSE
  BY <1>1
<1>4. j \in Nat /\ k \in Nat /\ s \in Nat /\ x = j * PIPESIZE + s /\ y = k * PIPESIZE + s
  BY <1>2, <1>3, Sizes
<1> HIDE DEF x, y, j, k, s
<1>5. a - b = (j - k) * PIPESIZE
  BY <1>2, <1>4, Sizes
<1> QED
  BY <1>4, <1>5, Sizes

(* The m bytes of d from index r on; Contents is one of these.             *)
Ring(d, r, m) == [k \in 1 .. m |-> d[Place(r, k)]]

LEMMA RingSeq ==
  ASSUME NEW d \in [0 .. PIPESIZE - 1 -> Bytes], NEW r \in 0 .. W - 1, NEW m \in Nat
  PROVE  /\ Ring(d, r, m) \in Seq(Bytes)
         /\ Len(Ring(d, r, m)) = m
         /\ \A k \in 1 .. m : Ring(d, r, m)[k] = d[Place(r, k)]
<1>1. \A k \in 1 .. m : Place(r, k) \in 0 .. PIPESIZE - 1
  BY PlaceSimple
<1>2. Ring(d, r, m) \in [1 .. m -> Bytes] /\ \A k \in 1 .. m : Ring(d, r, m)[k] = d[Place(r, k)]
  BY <1>1 DEF Ring
<1> QED
  BY <1>2

(* piperead() takes the oldest byte.                                       *)
LEMMA RingGet ==
  ASSUME NEW d \in [0 .. PIPESIZE - 1 -> Bytes], NEW r \in 0 .. W - 1, NEW m \in Nat \ {0}
  PROVE  /\ Ring(d, r, m) # <<>>
         /\ Head(Ring(d, r, m)) = d[r % PIPESIZE]
         /\ Tail(Ring(d, r, m)) = Ring(d, Inc(r), m - 1)
<1>1. Inc(r) \in 0 .. W - 1 /\ m - 1 \in Nat /\ m \in Nat /\ 1 \in 1 .. m
  BY Distance
<1>a. /\ Ring(d, r, m) \in Seq(Bytes) /\ Len(Ring(d, r, m)) = m
      /\ \A k \in 1 .. m : Ring(d, r, m)[k] = d[Place(r, k)]
  BY <1>1, RingSeq, Zenon
<1>2. Ring(d, r, m) # <<>> /\ Head(Ring(d, r, m)) = d[Place(r, 1)]
  BY <1>1, <1>a
<1>3. /\ Tail(Ring(d, r, m)) \in Seq(Bytes) /\ Len(Tail(Ring(d, r, m))) = m - 1
      /\ \A k \in 1 .. m - 1 : Tail(Ring(d, r, m))[k] = Ring(d, r, m)[k + 1]
  BY <1>2, <1>a, HeadTailProperties
<1>4. ASSUME NEW k \in 1 .. m - 1
      PROVE  Tail(Ring(d, r, m))[k] = Ring(d, Inc(r), m - 1)[k]
  <2>1. Ring(d, r, m)[k + 1] = d[Place(r, k + 1)]
    BY <1>a
  <2>2. Ring(d, Inc(r), m - 1)[k] = d[Place(Inc(r), k)]
    BY <1>1, RingSeq
  <2>3. k \in Nat \ {0}
    OBVIOUS
  <2> QED
    BY <1>3, <2>1, <2>2, <2>3, PlaceNext
<1>5. Ring(d, Inc(r), m - 1) \in Seq(Bytes) /\ Len(Ring(d, Inc(r), m - 1)) = m - 1
  BY <1>1, RingSeq
<1>6. Tail(Ring(d, r, m)) = Ring(d, Inc(r), m - 1)
  BY <1>3, <1>4, <1>5, SeqEqual
<1> QED
  BY <1>2, <1>6, PlaceFirst

(* pipewrite() adds a byte behind the youngest, and overwrites none.       *)
LEMMA RingPut ==
  ASSUME NEW d \in [0 .. PIPESIZE - 1 -> Bytes], NEW r \in 0 .. W - 1,
         NEW m \in 0 .. PIPESIZE - 1, NEW b \in Bytes
  PROVE  Ring([d EXCEPT ![Place(r, m + 1)] = b], r, m + 1) = Append(Ring(d, r, m), b)
<1> DEFINE x == Place(r, m + 1)
           e == [d EXCEPT ![x] = b]
<1>1. x \in 0 .. PIPESIZE - 1
  BY PlaceSimple
<1>2. e \in [0 .. PIPESIZE - 1 -> Bytes] /\ e[x] = b /\ \A y \in 0 .. PIPESIZE - 1 : y # x => e[y] = d[y]
  BY <1>1
<1>m. m \in Nat /\ m + 1 \in Nat
  OBVIOUS
<1> HIDE DEF e
<1>3. /\ Ring(d, r, m) \in Seq(Bytes) /\ Len(Ring(d, r, m)) = m
      /\ \A k \in 1 .. m : Ring(d, r, m)[k] = d[Place(r, k)]
  BY <1>m, RingSeq, Zenon
<1>r. /\ Ring(e, r, m + 1) \in Seq(Bytes) /\ Len(Ring(e, r, m + 1)) = m + 1
      /\ \A k \in 1 .. m + 1 : Ring(e, r, m + 1)[k] = e[Place(r, k)]
  BY <1>2, <1>m, RingSeq, Zenon
<1>4. /\ Append(Ring(d, r, m), b) \in Seq(Bytes) /\ Len(Append(Ring(d, r, m), b)) = m + 1
      /\ \A k \in 1 .. m : Append(Ring(d, r, m), b)[k] = Ring(d, r, m)[k]
      /\ Append(Ring(d, r, m), b)[m + 1] = b
  BY <1>3, AppendProperties
<1>5. ASSUME NEW k \in 1 .. m + 1
      PROVE  Ring(e, r, m + 1)[k] = Append(Ring(d, r, m), b)[k]
  <2>1. Ring(e, r, m + 1)[k] = e[Place(r, k)]
    BY <1>r
  <2>2. CASE k = m + 1
    BY <1>2, <1>4, <2>1, <2>2
  <2>3. CASE k \in 1 .. m
    <3>1. Place(r, k) # x /\ Place(r, k) \in 0 .. PIPESIZE - 1
      <4>1. k \in 1 .. PIPESIZE /\ m + 1 \in 1 .. PIPESIZE /\ k # m + 1 /\ k \in Nat \ {0}
        BY <2>3, Sizes
      <4>2. Place(r, k) # Place(r, m + 1)
        BY <4>1, PlaceApart, Zenon
      <4> QED
        BY <4>1, <4>2, PlaceSimple
    <3>2. Ring(d, r, m)[k] = d[Place(r, k)]
      BY <1>3, <2>3
    <3> QED
      BY <1>2, <1>4, <2>1, <2>3, <3>1, <3>2
  <2>4. k = m + 1 \/ k \in 1 .. m
    BY <1>m
  <2> QED
    BY <2>2, <2>3, <2>4
<1>6. Ring(e, r, m + 1) = Append(Ring(d, r, m), b)
  BY <1>r, <1>4, <1>5, SeqEqual
<1> QED
  BY <1>6 DEF e

LEMMA ContentsRing == Contents = Ring(data, nread, Count)
BY DEF Contents, Ring, Place, Count

(* A byte read is a Get of the stream, ...                                 *)
LEMMA ReadByteGets ==
  ASSUME IInv, NEW p \in Procs, ReadByte(p)
  PROVE  Stream!Get
<1>0. TypeOK /\ nread \in 0 .. W - 1 /\ nwrite \in 0 .. W - 1 /\ nread # nwrite
  BY DEF IInv, TypeOK, ReadByte, Empty
<1>1. Count \in Nat \ {0} /\ (nwrite + W - Inc(nread)) % W = Count - 1
  BY <1>0, Distance DEF Count
<1>2. Contents' = Ring(data, Inc(nread), Count - 1)
  BY <1>1 DEF ReadByte, Contents, Ring, Place
<1> QED
  BY <1>0, <1>1, <1>2, ContentsRing, RingGet DEF Stream!Get, ReadByte, TypeOK

(* ... and a byte written is a Put.                                        *)
LEMMA WriteBytePuts ==
  ASSUME IInv, NEW p \in Procs, WriteByte(p)
  PROVE  \E b \in Bytes : Stream!Put(b)
<1>0. TypeOK /\ nread \in 0 .. W - 1 /\ nwrite \in 0 .. W - 1 /\ nwrite # (nread + PIPESIZE) % W
  BY DEF IInv, TypeOK, WriteByte, Full
<1>1. /\ Count \in 0 .. PIPESIZE - 1 /\ nwrite = (nread + Count) % W
      /\ (Inc(nwrite) + W - nread) % W = Count + 1
  <2>1. Count \in 0 .. W - 1 /\ Count <= PIPESIZE /\ Count # PIPESIZE
    BY <1>0, Distance DEF IInv, CountInv, Count
  <2>2. nwrite = (nread + Count) % W /\ (Count < W - 1 => (Inc(nwrite) + W - nread) % W = Count + 1)
    BY <1>0, Distance DEF Count
  <2> QED
    BY <2>1, <2>2, Sizes
<1>p. nwrite % PIPESIZE = Place(nread, Count + 1)
  <2>1. nread + (Count + 1) - 1 = nread + Count
    BY <1>0, <1>1
  <2> QED
    BY <1>1, <2>1 DEF Place
<1>2. PICK b \in Bytes : data' = [data EXCEPT ![nwrite % PIPESIZE] = b]
  BY DEF WriteByte
<1>3. Contents' = Ring(data', nread, Count + 1)
  BY <1>1 DEF WriteByte, Contents, Ring, Place
<1>4. Contents' = Append(Contents, b)
  <2>1. Ring([data EXCEPT ![Place(nread, Count + 1)] = b], nread, Count + 1) = Append(Ring(data, nread, Count), b)
    BY <1>0, <1>1, RingPut DEF TypeOK
  <2> QED
    BY <1>2, <1>3, <1>p, <2>1, ContentsRing
<1>5. Len(Contents) < PIPESIZE
  <2>1. Count \in Nat /\ Count < PIPESIZE
    BY <1>1, Sizes
  <2>2. Len(Ring(data, nread, Count)) = Count
    BY <1>0, <2>1, RingSeq, Zenon DEF TypeOK
  <2> QED
    BY <2>1, <2>2, ContentsRing
<1> QED
  BY <1>4, <1>5 DEF Stream!Put, WriteByte

(* The other steps do not touch the buffer.                                *)
LEMMA OthersStutter ==
  ASSUME [Next]_vars, \A p \in Procs : ~ ReadByte(p) /\ ~ WriteByte(p)
  PROVE  UNCHANGED Stream!svars
<1>1. UNCHANGED pipeVars
  BY DEF Next, Step, vars, CallRead, CallWrite, Call, ReadAcquire, ReadWait, ReadSleep, ReadReturn,
         WriteAcquire, WriteFull, WriteSleep, WriteReturn, PipeClose, Close, Kill
<1> QED
  BY <1>1 DEF pipeVars, Stream!svars, Contents

(* piperead() and pipewrite(), by any number of processes and with kill(), *)
(* close() and exit() in between, give a first-in first-out stream of      *)
(* bytes: every step of Pipe is one of ByteStream or changes nothing of it.*)
THEOREM StreamRefinement == Spec => ImplementsByteStream
<1>1. Init => Stream!SInit
  <2> SUFFICES ASSUME Init PROVE Stream!SInit
    OBVIOUS
  <2>1. Count = 0
    BY Sizes, Distance DEF Init, Count
  <2>2. Contents = <<>>
    BY <2>1, ContentsRing DEF Ring
  <2> QED
    BY <2>2 DEF Init, Stream!SInit
<1>2. IInv /\ [Next]_vars => [Stream!SNext]_(Stream!svars)
  BY ReadByteGets, WriteBytePuts, OthersStutter DEF Stream!SNext
<1> QED
  BY Invariant, <1>1, <1>2, PTL DEF Spec, ImplementsByteStream, Stream!SSpec
=============================================================================
