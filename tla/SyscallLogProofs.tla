--------------------------- MODULE SyscallLogProofs ---------------------------
(***************************************************************************)
(* For every number of processes, every even size of the table and every   *)
(* number of arguments a record has room for: as long as no argument is    *)
(* noted past the end of args[], the most recent calls are listed, and in  *)
(* order, however often register_syscall() compacts the table; and args[]  *)
(* is overrun only by reads that share a record, or in the one record that *)
(* the compaction leaves with old arguments.                               *)
(***************************************************************************)
EXTENDS SyscallLog, FiniteSetTheorems, TLAPS

Call(s) == sf[s].call

Record == [call : 0 .. MaxCalls, pid : Procs \cup {NoProc}, args : Seq(Procs)]

\* What TypeOK says of the table and its index, and of the rest.
TableType == /\ sf \in [Slots -> Record] /\ rscount \in Slots
             /\ \A s \in Slots : Len(sf[s].args) <= MAXARGS
RestType ==
    /\ tscount \in 0 .. MaxCalls
    /\ toNote \in [Procs -> 0 .. NArgs]
    /\ incall \in [Procs -> Calls \cup {"none"}]
    /\ count \in [Procs -> Nat] /\ ticket \in [Procs -> Nat]
    /\ overrun \in BOOLEAN

\* Before the first compaction slot s has call s + 1.
Fresh == tscount = rscount /\ \A s \in 0 .. rscount - 1 : Call(s) = s + 1

\* From then on the slots 0 and Half have an old call twice, and the others
\* the last ones, one after the other.
Compacted ==
    /\ rscount > Half /\ tscount > rscount /\ Call(0) = Call(Half) /\ Call(0) \in 1 .. Call(1) - 1
    /\ \A s \in 1 .. Half - 1 : Call(s) = tscount - rscount + s + 2
    /\ \A s \in Half + 1 .. rscount - 1 : Call(s) = tscount - rscount + s + 1

\* What the processes have noted since they entered the call, at most, and
\* what is there of p in the record in use.
Noted(p) == IF incall[p] = "read" THEN NArgs - toNote[p] ELSE 0
Own(a, p) == {i \in DOMAIN a : a[i] = p}

\* The records ahead are clear; but for the one a compaction restarts at, the
\* record in use has only arguments of reads that have not returned.
ClearAhead == \A s \in Slots : s > rscount => sf[s].args = << >>
OwnNoted ==
    tscount = rscount \/ rscount # RestartAt =>
        \A p \in Procs : Cardinality(Own(sf[rscount].args, p)) <= Noted(p)

ArgsInv ==
    /\ ClearAhead /\ OwnNoted
    /\ \A p \in Procs : toNote[p] > 0 => incall[p] = "read"

IInv == /\ TypeOK /\ (Fresh \/ Compacted) /\ ArgsInv
        /\ overrun => OverrunExplained

\* The table has two halves (register_syscall() moves RSCOUNTMAX / 2 records).
LEMMA TwoHalves == Half \in Nat /\ Half >= 2 /\ RSCOUNTMAX = 2 * Half
BY SyscallLogAssumption DEF Half

\* init_arg_count(): the table is empty.
LEMMA InitIInv == Init => IInv
<1> SUFFICES ASSUME Init PROVE IInv
  OBVIOUS
<1>2. \A s \in Slots : sf[s] \in Record /\ sf[s].args = << >>
  <2>1. << >> \in Seq(Procs)
    OBVIOUS
  <2> QED
    BY <2>1, SyscallLogAssumption DEF Init, NoRecord, Record
<1>1. TypeOK /\ Fresh
  <2>1. sf \in [Slots -> Record] /\ \A s \in Slots : Len(sf[s].args) <= MAXARGS
    BY <1>2, SyscallLogAssumption DEF Init
  <2>2. rscount \in Slots
    BY SyscallLogAssumption DEF Init, Slots
  <2>3. RestType
    <3>1. 0 \in 0 .. MaxCalls /\ 0 \in 0 .. NArgs /\ TICKETS \in Nat
      BY SyscallLogAssumption
    <3> QED
      BY <3>1 DEF Init, RestType
  <2>4. Fresh
    BY DEF Init, Fresh
  <2> QED
    BY <2>1, <2>2, <2>3, <2>4 DEF TypeOK, RestType, Record
<1>3. ClearAhead
  BY <1>2 DEF ClearAhead
<1>4. OwnNoted
  <2> SUFFICES ASSUME NEW p \in Procs PROVE Cardinality(Own(sf[rscount].args, p)) <= Noted(p)
    BY DEF OwnNoted
  <2>1. Own(sf[rscount].args, p) = {}
    BY <1>1, <1>2 DEF Own, TypeOK
  <2>2. Noted(p) = 0
    BY DEF Noted, Init
  <2> QED
    BY <2>1, <2>2, FS_EmptySet
<1> QED
  BY <1>1, <1>3, <1>4 DEF IInv, ArgsInv, Init

\* The arguments of one process in a record are finitely many.
LEMMA OwnFinite ==
    ASSUME NEW a \in Seq(Procs), NEW p
    PROVE  /\ IsFiniteSet(Own(a, p)) /\ Cardinality(Own(a, p)) \in Nat
           /\ (\E i \in DOMAIN a : a[i] = p) => Cardinality(Own(a, p)) >= 1
<1>1. Own(a, p) \in SUBSET (1 .. Len(a))
  BY DEF Own
<1>2. IsFiniteSet(1 .. Len(a))
  BY FS_Interval
<1>3. IsFiniteSet(Own(a, p))
  BY <1>1, <1>2, FS_Subset
<1>4. Cardinality(Own(a, p)) \in Nat
  BY <1>3, FS_CardinalityType
<1>5. ASSUME \E i \in DOMAIN a : a[i] = p PROVE Cardinality(Own(a, p)) # 0
  BY <1>3, <1>5, FS_EmptySet DEF Own
<1> QED
  BY <1>3, <1>4, <1>5

\* One argument more of p, and as many as before of the others.
LEMMA OwnAppend ==
    ASSUME NEW a \in Seq(Procs), NEW p \in Procs
    PROVE  /\ Cardinality(Own(Append(a, p), p)) = Cardinality(Own(a, p)) + 1
           /\ \A q \in Procs \ {p} : Own(Append(a, p), q) = Own(a, q)
<1>1. DOMAIN Append(a, p) = 1 .. Len(a) + 1 /\ DOMAIN a = 1 .. Len(a) /\ Len(a) \in Nat
  OBVIOUS
<1>2. Append(a, p)[Len(a) + 1] = p /\ \A i \in 1 .. Len(a) : Append(a, p)[i] = a[i]
  OBVIOUS
<1>3. Own(Append(a, p), p) = Own(a, p) \cup {Len(a) + 1}
  BY <1>1, <1>2 DEF Own
<1>4. Len(a) + 1 \notin Own(a, p)
  BY <1>1 DEF Own
<1>5. IsFiniteSet(Own(a, p))
  BY OwnFinite
<1>6. Cardinality(Own(a, p) \cup {Len(a) + 1}) = Cardinality(Own(a, p)) + 1
  BY <1>4, <1>5, FS_AddElement
<1>7. \A q \in Procs \ {p} : Own(Append(a, p), q) = Own(a, q)
  BY <1>1, <1>2 DEF Own
<1> QED
  BY <1>3, <1>6, <1>7

\* set_last_syscall_info() with room left changes no call of a record.
LEMMA NoteRoom ==
    ASSUME IInv, NEW p \in Procs, SetLastSyscallInfo(p), HasRoom(sf[rscount]), ~ overrun, UNCHANGED overrun
    PROVE  IInv'
<1> DEFINE a == sf[rscount].args
           r == [call |-> sf[rscount].call, pid |-> sf[rscount].pid, args |-> Append(a, p)]
<1>t. TableType /\ RestType /\ sf[rscount] \in Record
  BY DEF IInv, TypeOK, TableType, RestType, Record
<1>1. a \in Seq(Procs) /\ Append(a, p) \in Seq(Procs) /\ r \in Record /\ r.args = Append(a, p)
  <2>1. Append(a, p) \in Seq(Procs) /\ a \in Seq(Procs)
    BY <1>t DEF Record
  <2> QED
    BY <1>t, <2>1 DEF Record
<1>2. Len(Append(a, p)) <= MAXARGS
  BY <1>1, SyscallLogAssumption DEF HasRoom
<1>3. sf' = [sf EXCEPT ![rscount] = r] /\ UNCHANGED <<rscount, tscount, incall, count, ticket>>
  BY DEF SetLastSyscallInfo, WithArgs
<1>n. toNote[p] \in 1 .. NArgs /\ toNote' = [toNote EXCEPT ![p] = @ - 1] /\ incall[p] = "read"
  BY <1>t, SyscallLogAssumption DEF SetLastSyscallInfo, RestType, IInv, ArgsInv
<1>6. r.call = sf[rscount].call
  BY DEF r
<1> HIDE DEF r
<1>4. TableType'
  BY <1>t, <1>1, <1>2, <1>3 DEF TableType
<1>5. RestType'
  <2>1. toNote' \in [Procs -> 0 .. NArgs]
    BY <1>t, <1>n, SyscallLogAssumption DEF RestType
  <2>2. overrun' \in BOOLEAN
    BY <1>t DEF RestType
  <2> QED
    BY <1>t, <1>3, <2>1, <2>2 DEF RestType
<1>7. \A s \in Slots : Call(s)' = Call(s)
  BY <1>t, <1>3, <1>6 DEF Call, TableType
<1>8. 0 \in Slots /\ 1 \in Slots /\ Half \in Slots /\ 0 .. rscount - 1 \subseteq Slots /\ 1 .. Half - 1 \subseteq Slots
  BY <1>t, TwoHalves DEF TableType, Slots
<1>9. Half + 1 .. rscount - 1 \subseteq Slots
  BY <1>t, TwoHalves DEF TableType, Slots
<1>10. (Fresh \/ Compacted)'
  <2>1. ASSUME Fresh PROVE Fresh'
    BY <1>3, <1>7, <1>8, <2>1 DEF Fresh
  <2>2. ASSUME Compacted PROVE Compacted'
    BY <1>3, <1>7, <1>8, <1>9, <2>2 DEF Compacted, Half
  <2> QED
    BY <2>1, <2>2 DEF IInv
<1>11. ClearAhead'
  <2> SUFFICES ASSUME NEW s \in Slots, s > rscount PROVE sf'[s].args = << >>
    BY <1>3 DEF ClearAhead, Slots
  <2>1. s # rscount
    BY <1>t DEF TableType, Slots
  <2> QED
    BY <1>3, <1>t, <2>1 DEF IInv, ArgsInv, ClearAhead, TableType
<1>12. OwnNoted'
  <2> SUFFICES ASSUME tscount = rscount \/ rscount # RestartAt, NEW q \in Procs
               PROVE  Cardinality(Own(r.args, q)) <= Noted(q)'
    BY <1>3, <1>t DEF OwnNoted, RestartAt, Half, TableType
  <2>1. Cardinality(Own(a, q)) <= Noted(q) /\ Cardinality(Own(a, q)) \in Nat
    BY <1>1, OwnFinite DEF IInv, ArgsInv, OwnNoted
  <2>2. CASE q = p
    <3>1. Noted(p) = NArgs - toNote[p] /\ Noted(p)' = NArgs - (toNote[p] - 1)
      BY <1>3, <1>n, <1>t DEF Noted, RestType
    <3>2. Cardinality(Own(r.args, p)) = Cardinality(Own(a, p)) + 1
      BY <1>1, OwnAppend
    <3> HIDE DEF a
    <3> QED
      BY <1>n, <2>1, <2>2, <3>1, <3>2, SyscallLogAssumption
  <2>3. CASE q # p
    <3>1. Noted(q)' = Noted(q)
      BY <1>3, <1>n, <1>t, <2>3 DEF Noted, RestType
    <3>2. Own(r.args, q) = Own(a, q)
      BY <1>1, <2>3, OwnAppend
    <3> QED
      BY <2>1, <3>1, <3>2
  <2> QED
    BY <2>2, <2>3
<1>13. \A q \in Procs : toNote'[q] > 0 => incall'[q] = "read"
  BY <1>3, <1>n, <1>t DEF IInv, ArgsInv, RestType
<1> QED
  BY <1>4, <1>5, <1>10, <1>11, <1>12, <1>13 DEF IInv, ArgsInv, TypeOK, TableType, RestType, Record

\* Without room for one more, the record has arguments of another read, or
\* it is the one that the compaction restarts at.
LEMMA NoteOverrun ==
    ASSUME IInv, NEW p \in Procs, SetLastSyscallInfo(p), ~ HasRoom(sf[rscount]),
           UNCHANGED sf, overrun' = TRUE
    PROVE  IInv'
<1> DEFINE a == sf[rscount].args
<1>t. TableType /\ RestType /\ sf[rscount] \in Record /\ a \in Seq(Procs)
  BY DEF IInv, TypeOK, TableType, RestType, Record
<1>1. UNCHANGED <<sf, rscount, tscount, incall, count, ticket>>
  BY DEF SetLastSyscallInfo
<1>n. toNote[p] \in 1 .. NArgs /\ toNote' = [toNote EXCEPT ![p] = @ - 1] /\ incall[p] = "read"
  BY <1>t, SyscallLogAssumption DEF SetLastSyscallInfo, RestType, IInv, ArgsInv
<1>2. RestType'
  BY <1>1, <1>n, <1>t, SyscallLogAssumption DEF RestType, SetLastSyscallInfo
<1>3. Len(a) = MAXARGS
  BY <1>t, SyscallLogAssumption DEF HasRoom, TableType
<1>4. ASSUME NEW q \in Procs PROVE Noted(q)' >= Noted(q)
  BY <1>1, <1>n, <1>t, SyscallLogAssumption DEF Noted, RestType
<1>5. OwnNoted'
  <2> SUFFICES ASSUME tscount = rscount \/ rscount # RestartAt, NEW q \in Procs
               PROVE  Cardinality(Own(a, q)) <= Noted(q)'
    BY <1>1 DEF OwnNoted, RestartAt, Half
  <2>1. Cardinality(Own(a, q)) <= Noted(q) /\ Cardinality(Own(a, q)) \in Nat
    BY <1>t, OwnFinite DEF IInv, ArgsInv, OwnNoted
  <2>2. Noted(q) \in Int /\ Noted(q)' \in Int
    BY <1>t, <1>2, SyscallLogAssumption DEF Noted, RestType
  <2> QED
    BY <1>4, <2>1, <2>2
<1>6. OverrunExplained'
  <2>1. CASE tscount # rscount /\ rscount = RestartAt
    BY <1>1, <2>1 DEF OverrunExplained, RestartAt, Half
  <2>2. CASE tscount = rscount \/ rscount # RestartAt
    <3>1. Cardinality(Own(a, p)) < MAXARGS /\ Noted(p) < MAXARGS
      <4>1. Noted(p) = NArgs - toNote[p]
        BY <1>n DEF Noted
      <4>2. Cardinality(Own(a, p)) <= Noted(p) /\ Cardinality(Own(a, p)) \in Nat
        BY <1>t, <2>2, OwnFinite DEF IInv, ArgsInv, OwnNoted
      <4> QED
        BY <1>n, <4>1, <4>2, SyscallLogAssumption
    <3>2. PICK i \in DOMAIN a : a[i] # p
      <4> SUFFICES ASSUME \A i \in DOMAIN a : a[i] = p PROVE FALSE
        OBVIOUS
      <4>1. Own(a, p) = 1 .. MAXARGS
        BY <1>3, <1>t DEF Own
      <4>2. Cardinality(1 .. MAXARGS) = MAXARGS
        BY FS_Interval, SyscallLogAssumption
      <4> QED
        BY <3>1, <4>1, <4>2, SyscallLogAssumption
    <3>3. a[i] \in Procs
      BY <1>t, <3>2
    <3>4. Cardinality(Own(a, a[i])) >= 1 /\ Cardinality(Own(a, a[i])) \in Nat
      BY <1>t, <3>2, OwnFinite
    <3>5. Cardinality(Own(a, a[i])) <= Noted(a[i])
      BY <2>2, <3>3 DEF IInv, ArgsInv, OwnNoted
    <3>6. Noted(a[i]) \in Int
      BY <1>t, <3>3, SyscallLogAssumption DEF Noted, RestType
    <3>7. Noted(a[i]) >= 1
      BY <3>4, <3>5, <3>6
    <3>8. incall[a[i]] = "read" /\ toNote[a[i]] < NArgs
      BY <1>t, <3>3, <3>7, SyscallLogAssumption DEF Noted, RestType
    <3>9. p \in Noting' /\ a[i] \in Noting' \ {p}
      BY <1>1, <1>n, <1>t, <3>2, <3>3, <3>8, SyscallLogAssumption DEF Noting, RestType
    <3> QED
      BY <1>1, <3>2, <3>9 DEF OverrunExplained
  <2> QED
    BY <2>1, <2>2
<1>7. (Fresh \/ Compacted)' /\ ClearAhead' /\ TableType'
  BY <1>1, <1>t DEF IInv, ArgsInv, ClearAhead, Fresh, Compacted, Call, TableType, Half
<1>8. \A q \in Procs : toNote'[q] > 0 => incall'[q] = "read"
  BY <1>1, <1>n, <1>t DEF IInv, ArgsInv, RestType
<1> QED
  BY <1>2, <1>5, <1>6, <1>7, <1>8 DEF IInv, ArgsInv, TypeOK, TableType, RestType, Record

LEMMA NoteIInv ==
    ASSUME IInv, ~ overrun, NEW p \in Procs, SetLastSyscallInfo(p)
    PROVE  IInv'
BY NoteRoom, NoteOverrun DEF SetLastSyscallInfo

\* register_syscall() keeps the types of all but the table.
LEMMA RegisterType ==
    ASSUME TypeOK, NEW p \in Procs, Register(p)
    PROVE  RestType'
<1>1. tscount' \in 0 .. MaxCalls
  BY SyscallLogAssumption DEF TypeOK, Register
<1>2. toNote' \in [Procs -> 0 .. NArgs] /\ incall' \in [Procs -> Calls \cup {"none"}]
  BY DEF TypeOK, Register
<1>3. Counted(p)
  BY DEF Register
<1>4. count' \in [Procs -> Nat] /\ ticket' \in [Procs -> Nat]
  <2>0. count \in [Procs -> Nat] /\ ticket \in [Procs -> Nat]
    BY DEF TypeOK
  <2>1. CASE incall[p] = "log_syscalls"
    <3>1. ticket' = [ticket EXCEPT ![p] = @ + 1] /\ count' = count
      BY <1>3, <2>1 DEF Counted
    <3> QED
      BY <2>0, <3>1
  <2>2. CASE incall[p] # "log_syscalls"
    <3>1. count' = [count EXCEPT ![p] = @ + 1] /\ ticket' = ticket
      BY <1>3, <2>2, Zenon DEF Counted
    <3> QED
      BY <2>0, <3>1
  <2> QED
    BY <2>1, <2>2
<1>5. overrun' \in BOOLEAN
  BY DEF TypeOK, Register
<1> QED
  BY <1>1, <1>2, <1>4, <1>5 DEF RestType

\* The new record, and the calls of the others; the arguments stay.
LEMMA RecordedCalls ==
    ASSUME TypeOK, NEW p \in Procs, Register(p)
    PROVE  /\ Recorded(p) \in [Slots -> Record]
           /\ Recorded(p)[rscount].call = tscount + 1
           /\ \A s \in Slots \ {rscount} : Recorded(p)[s].call = Call(s)
           /\ \A s \in Slots : Recorded(p)[s].args = sf[s].args
<1> DEFINE r == [call |-> tscount + 1, pid |-> p, args |-> sf[rscount].args]
<1>1. TableType /\ sf[rscount].args \in Seq(Procs)
  BY DEF TypeOK, TableType, Record
<1>2. tscount + 1 \in 0 .. MaxCalls
  BY SyscallLogAssumption DEF TypeOK, Register
<1>3. r \in Record /\ r.call = tscount + 1 /\ r.args = sf[rscount].args
  BY <1>1, <1>2 DEF Record
<1>4. Recorded(p) = [sf EXCEPT ![rscount] = r]
  BY DEF Recorded
<1> HIDE DEF r
<1> QED
  BY <1>1, <1>3, <1>4 DEF TableType, Call

\* Half a table of records is moved (the loops of register_syscall()).
LEMMA MovedCalls ==
    ASSUME NEW f \in [Slots -> Record]
    PROVE  /\ Moved(f) \in [Slots -> Record]
           /\ \A s \in 0 .. Half - 1 : Moved(f)[s].call = f[s + Half].call
           /\ \A s \in Half .. RSCOUNTMAX - 1 : Moved(f)[s].call = f[s].call
           /\ \A s \in Slots : \/ Moved(f)[s].args = << >>
                               \/ \E t \in Slots : Moved(f)[s].args = f[t].args
           /\ \A s \in Slots : s > Half + 1 => Moved(f)[s].args = << >>
<1> USE TwoHalves
<1>1. \A s \in 0 .. Half - 1 : s \in Slots /\ s + Half \in Slots /\ Moved(f)[s] = f[s + Half]
  BY DEF Moved, Slots
<1>2. \A s \in Half .. RSCOUNTMAX - 1 : s \in Slots
  BY DEF Slots
<1>3. ASSUME NEW s \in Half .. RSCOUNTMAX - 1
      PROVE  /\ Moved(f)[s] \in Record /\ Moved(f)[s].call = f[s].call
             /\ Moved(f)[s].args = << >> \/ Moved(f)[s].args = f[s].args
  <2>1. Moved(f)[s] = f[s] \/ Moved(f)[s] = WithArgs(f[s], << >>)
    BY <1>2 DEF Moved
  <2>2. f[s] \in Record
    BY <1>2
  <2>3. /\ WithArgs(f[s], << >>).call = f[s].call /\ WithArgs(f[s], << >>).args = << >>
        /\ << >> \in Seq(Procs)
    BY DEF WithArgs
  <2>4. WithArgs(f[s], << >>) \in Record
    BY <2>2, <2>3 DEF Record, WithArgs
  <2> QED
    BY <2>1, <2>2, <2>3, <2>4
<1>4. \A s \in Slots : s \in 0 .. Half - 1 \/ s \in Half .. RSCOUNTMAX - 1
  BY DEF Slots
<1>5. \A s \in Slots : Moved(f)[s] \in Record
  BY <1>1, <1>3, <1>4
<1>6. \A s \in Slots : Moved(f)[s].args = << >> \/ \E t \in Slots : Moved(f)[s].args = f[t].args
  BY <1>1, <1>2, <1>3, <1>4
<1>7. ASSUME NEW s \in Slots, s > Half + 1 PROVE Moved(f)[s].args = << >>
  <2>1. ~ (s < Half)
    BY <1>7 DEF Slots
  <2>2. Moved(f)[s] = WithArgs(f[s], << >>)
    BY <1>7, <2>1 DEF Moved
  <2> QED
    BY <2>2 DEF WithArgs
<1> QED
  BY <1>1, <1>3, <1>5, <1>6, <1>7 DEF Moved

\* register_syscall() keeps the invariant, whether the table is full or not.
LEMMA RegisterIInv ==
    ASSUME IInv, ~ overrun, NEW p \in Procs, Register(p)
    PROVE  IInv'
<1>t. TypeOK /\ TableType
  BY DEF IInv, TypeOK, TableType, Record
<1>i. rscount \in 0 .. RSCOUNTMAX - 1 /\ tscount \in Nat /\ tscount' = tscount + 1 /\ RSCOUNTMAX \in Nat
  BY <1>t, SyscallLogAssumption DEF TypeOK, Slots, Register
<1>r. /\ Recorded(p) \in [Slots -> Record] /\ Recorded(p)[rscount].call = tscount + 1
      /\ \A s \in Slots \ {rscount} : Recorded(p)[s].call = Call(s)
      /\ \A s \in Slots : Recorded(p)[s].args = sf[s].args
  BY <1>t, RecordedCalls
<1>n. /\ \A q \in Procs : toNote'[q] > 0 => incall'[q] = "read"
      /\ \A q \in Procs : Noted(q)' \in Nat
  <2>1. toNote' = toNote /\ toNote[p] = 0 /\ incall' = [incall EXCEPT ![p] = "none"]
    BY DEF Register
  <2>2. \A q \in Procs : toNote[q] \in 0 .. NArgs
    BY <1>t DEF TypeOK
  <2>3. \A q \in Procs : NArgs - toNote[q] \in Nat
    BY <2>2, SyscallLogAssumption
  <2> QED
    BY <1>t, <2>1, <2>3 DEF IInv, ArgsInv, TypeOK, Noted
<1>q. TableType' /\ (Fresh \/ Compacted)' /\ ClearAhead' /\ OwnNoted' => IInv'
  <2>1. overrun' = overrun
    BY DEF Register
  <2> QED
    BY <1>t, <1>n, <2>1, RegisterType DEF IInv, ArgsInv, TypeOK, TableType, RestType, Record
<1>1. CASE rscount + 1 < RSCOUNTMAX
  <2>1. sf' = Recorded(p) /\ rscount' = rscount + 1
    BY <1>1, <1>i DEF Register, IsFull
  <2>2. TableType'
    BY <1>1, <1>i, <1>r, <1>t, <2>1 DEF TableType, Slots
  <2>3. \A s \in 0 .. rscount - 1 : Call(s)' = Call(s)
    BY <1>i, <1>r, <2>1 DEF Call, Slots
  <2>4. sf'[rscount].call = tscount + 1
    BY <1>r, <2>1
  <2>5. ASSUME Fresh PROVE Fresh'
    BY <1>i, <2>1, <2>3, <2>4, <2>5 DEF Fresh, Call
  <2>6. ASSUME Compacted PROVE Compacted'
    BY <1>i, <2>1, <2>3, <2>4, <2>6, TwoHalves DEF Compacted, Call
  <2>7. ClearAhead'
    BY <1>i, <1>r, <2>1 DEF IInv, ArgsInv, ClearAhead, Slots
  <2>8. OwnNoted'
    <3>1. rscount + 1 \in Slots /\ rscount + 1 > rscount
      BY <1>1, <1>i DEF Slots
    <3>2. sf'[rscount'].args = << >>
      BY <1>r, <2>1, <3>1 DEF IInv, ArgsInv, ClearAhead
    <3>3. \A q \in Procs : Own(sf'[rscount'].args, q) = {}
      BY <3>2 DEF Own
    <3> QED
      BY <1>n, <3>3, FS_EmptySet DEF OwnNoted
  <2> QED
    BY <1>q, <2>2, <2>5, <2>6, <2>7, <2>8 DEF IInv
<1>2. CASE rscount + 1 = RSCOUNTMAX
  <2>1. sf' = Moved(Recorded(p)) /\ rscount' = Half + 1
    BY <1>2, <1>i DEF Register, IsFull, RestartAt
  <2>2. TableType'
    <3>1. sf' \in [Slots -> Record] /\ rscount' \in Slots
      BY <1>r, <2>1, MovedCalls, TwoHalves DEF Slots
    <3>2. Len(<< >>) <= MAXARGS
      BY SyscallLogAssumption
    <3>3. \A s \in Slots : Len(sf'[s].args) <= MAXARGS
      BY <1>r, <1>t, <2>1, <3>2, MovedCalls DEF TableType
    <3> QED
      BY <3>1, <3>3 DEF TableType
  <2>3. /\ \A s \in 0 .. Half - 1 : sf'[s].call = Recorded(p)[s + Half].call
        /\ sf'[Half].call = Recorded(p)[Half].call
    BY <1>r, <2>1, MovedCalls, TwoHalves
  <2>4. /\ \A s \in 0 .. Half - 2 : Recorded(p)[s + Half].call = Call(s + Half)
        /\ Recorded(p)[Half - 1 + Half].call = tscount + 1
        /\ Recorded(p)[Half].call = Call(Half)
    <3>1. rscount = Half - 1 + Half /\ Half \in Slots \ {rscount}
      BY <1>2, <1>i, TwoHalves DEF Slots
    <3>2. \A s \in 0 .. Half - 2 : s + Half \in Slots \ {rscount}
      BY <1>2, <1>i, TwoHalves DEF Slots
    <3> QED
      BY <1>r, <3>1, <3>2
  <2>5. /\ \A s \in 0 .. Half - 2 : sf'[s].call = Call(s + Half)
        /\ sf'[Half - 1].call = tscount + 1 /\ sf'[Half].call = Call(Half)
    BY <2>3, <2>4, TwoHalves
  <2>6. Compacted'
    <3>1. CASE Fresh
      BY <1>2, <1>i, <2>1, <2>5, <3>1, TwoHalves DEF Fresh, Compacted, Call, Half
    <3>2. CASE Compacted
      BY <1>2, <1>i, <2>1, <2>5, <3>2, TwoHalves DEF Compacted, Call, Half
    <3> QED
      BY <3>1, <3>2 DEF IInv
  <2>7. ClearAhead'
    BY <1>r, <2>1, MovedCalls DEF ClearAhead, Slots
  <2>8. OwnNoted'
    BY <2>1, <2>6 DEF OwnNoted, Compacted, RestartAt, Half
  <2> QED
    BY <1>q, <2>2, <2>6, <2>7, <2>8
<1> QED
  BY <1>1, <1>2, <1>i

\* The invariant says what the history promises.
LEMMA IInvKept == IInv => HistoryKept
<1> SUFFICES ASSUME IInv PROVE HistoryKept
  OBVIOUS
<1> USE TwoHalves DEF IInv
<1>0. CASE overrun
  BY <1>0 DEF HistoryKept
<1>t. TypeOK /\ rscount \in 0 .. RSCOUNTMAX - 1 /\ tscount \in Nat
  BY SyscallLogAssumption DEF TypeOK, Slots
<1>1. CASE Fresh
  <2>1. RecentListed
    BY <1>1, <1>t DEF Fresh, RecentListed, Listed, Call
  <2>2. ListedInOrder
    BY <1>1, <1>t DEF Fresh, ListedInOrder, Call
  <2> QED
    BY <1>0, <1>t, <2>1, <2>2 DEF HistoryKept
<1>2. CASE Compacted
  <2>0. \A s \in 0 .. rscount - 1 : Call(s) > 0
    BY <1>2, <1>t DEF Compacted
  <2>1. ASSUME NEW k \in 1 .. tscount, k + Half - 1 > tscount PROVE k \in Listed
    <3> DEFINE s == k - tscount + rscount - 1
    <3>1. CASE s > Half
      <4>1. s \in Half + 1 .. rscount - 1 /\ Call(s) = k
        BY <1>2, <1>t, <3>1 DEF Compacted
      <4> QED
        BY <1>t, <4>1 DEF Listed, Call
    <3>2. CASE s <= Half
      <4>1. s - 1 \in 1 .. Half - 1 /\ s - 1 \in 0 .. rscount - 1 /\ Call(s - 1) = k
        BY <1>2, <1>t, <2>1, <3>2 DEF Compacted
      <4> QED
        BY <4>1 DEF Listed, Call
    <3> QED
      BY <1>t, <3>1, <3>2
  <2>2. RecentListed
    BY <2>0, <2>1 DEF RecentListed, Listed, Call
  <2>3. ListedInOrder
    BY <1>2, <1>t DEF Compacted, ListedInOrder, Call
  <2> QED
    BY <1>0, <1>t, <2>2, <2>3 DEF HistoryKept
<1> QED
  BY <1>0, <1>1, <1>2

\* Entering a call touches no record, and starts from no argument noted.
LEMMA EnterIInv ==
    ASSUME IInv, ~ overrun, NEW p \in Procs, Enter(p)
    PROVE  IInv'
<1>1. UNCHANGED <<sf, rscount, tscount, count, ticket, overrun>>
  BY DEF Enter
<1>2. PICK c \in Calls, n \in {0, NArgs} :
        /\ c # "read" => n = 0
        /\ incall' = [incall EXCEPT ![p] = c]
        /\ toNote' = [toNote EXCEPT ![p] = n]
  BY DEF Enter
<1>3. n \in 0 .. NArgs /\ NArgs \in Nat /\ incall[p] = "none"
  BY SyscallLogAssumption DEF Enter
<1>4. TypeOK'
  BY <1>1, <1>2, <1>3 DEF IInv, TypeOK
<1>5. (Fresh \/ Compacted)' /\ ClearAhead'
  BY <1>1 DEF IInv, ArgsInv, Fresh, Compacted, Call, ClearAhead, Half
<1>6. \A q \in Procs : toNote'[q] > 0 => incall'[q] = "read"
  BY <1>2, <1>3 DEF IInv, TypeOK, ArgsInv
<1>7. OwnNoted'
  <2> SUFFICES ASSUME tscount = rscount \/ rscount # RestartAt, NEW q \in Procs
               PROVE  Cardinality(Own(sf[rscount].args, q)) <= Noted(q)'
    BY <1>1 DEF OwnNoted, RestartAt, Half
  <2>1. sf[rscount].args \in Seq(Procs)
    BY DEF IInv, TypeOK
  <2>2. Cardinality(Own(sf[rscount].args, q)) <= Noted(q) /\ Cardinality(Own(sf[rscount].args, q)) \in Nat
    BY <2>1, OwnFinite DEF IInv, ArgsInv, OwnNoted
  <2>3. CASE q = p
    <3>1. Noted(q) = 0 /\ Noted(q)' \in Nat
      BY <1>2, <1>3, <2>3 DEF IInv, TypeOK, Noted
    <3> QED
      BY <2>2, <3>1
  <2>4. CASE q # p
    <3>1. Noted(q)' = Noted(q)
      BY <1>2, <2>4 DEF IInv, TypeOK, Noted
    <3> QED
      BY <2>2, <3>1
  <2> QED
    BY <2>3, <2>4
<1> QED
  BY <1>1, <1>4, <1>5, <1>6, <1>7 DEF IInv, ArgsInv

LEMMA StepIInv == IInv /\ [Next]_vars => IInv'
<1> SUFFICES ASSUME IInv, [Next]_vars PROVE IInv'
  OBVIOUS
<1>1. CASE UNCHANGED vars
  <2>1. TypeOK' /\ (Fresh \/ Compacted)'
    BY <1>1 DEF vars, IInv, TypeOK, Fresh, Compacted, Call, Half
  <2>2. ArgsInv'
    BY <1>1 DEF vars, IInv, ArgsInv, ClearAhead, OwnNoted, Own, Noted, RestartAt, Half
  <2>3. (overrun => OverrunExplained)'
    BY <1>1 DEF vars, IInv, OverrunExplained, Noting, RestartAt, Half
  <2> QED
    BY <2>1, <2>2, <2>3 DEF IInv
<1> QED
  BY <1>1, EnterIInv, NoteIInv, RegisterIInv DEF Next

\* However many calls are made, the history (register_syscall() and
\* log_syscalls() of proc.c) lists the recent ones in order as long as no
\* argument is noted past the end of args[]; and that happens only to reads
\* that share a record, or in the record that a compaction leaves uncleared.
THEOREM HistoryIsKept == Spec => []HistoryKept
BY InitIInv, StepIInv, IInvKept, PTL DEF Spec
=============================================================================
