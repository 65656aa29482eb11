------------------------------ MODULE LogProofs ------------------------------
(***************************************************************************)
(* For any numbers of processes, blocks and crashes, and any sizes of the  *)
(* log and of a call: the log implements the atomic disk, writes ahead, is *)
(* not reused too early, and no sleeper in begin_op() is without a waker.  *)
(*                                                                         *)
(* IInv adds to what the run checks why it stays so: what the calls in     *)
(* progress may still write fits in the log (RoomInv), although            *)
(* log_write() makes its check outside log.lock; one process commits, and  *)
(* nobody is in a call then (PhaseInv); the header on the disk names the   *)
(* blocks of log.lh during the installation and nothing else at other      *)
(* times (HeadInv); the blocks to commit are pinned (DirtyInv), the other  *)
(* cached ones are those of the disk (CleanInv); and the log and the home  *)
(* locations agree with the cache as far as the loops have come (LogInv).  *)
(***************************************************************************)
EXTENDS Log, Functions, FiniteSetTheorems, SequenceTheorems, TLAPS

OpPCs == {"op", "changed", "append"}
CommitPCs == {"wlog", "whead", "install", "erase", "done"}

Active == {p \in Procs : pc[p] \in OpPCs}

CountInv == outstanding = Cardinality(Active)

(* log.committing, and the phases of the system.                           *)
PhaseInv ==
  /\ \A p \in Procs : pc[p] \in CommitPCs => committing
  /\ \A p \in Procs : pc[p] \in OpPCs => ~ committing
  /\ \A p, q \in Procs : pc[p] \in CommitPCs /\ pc[q] \in CommitPCs => p = q
  /\ boot # "up" => ~ committing /\ \A p \in Procs : pc[p] = "idle"
  /\ \A p \in Procs : pc[p] = "asleep" => committing \/ \E q \in Procs : pc[q] \in OpPCs

(* The buffers of a call.                                                  *)
HeldInv ==
  /\ \A p \in Procs : held[p] # NoBlock <=> pc[p] \in {"changed", "append"}
  /\ \A p, q \in Procs : held[p] = held[q] => p = q \/ held[p] = NoBlock
  /\ \A p \in Procs : held[p] # NoBlock => held[p] \in wrote[p]
  /\ \A p \in Procs : wrote[p] \subseteq Elems(head) \cup {held[p]}
  /\ \A p \in Procs : pc[p] \notin OpPCs => wrote[p] = {}
  /\ \A p \in Procs : IsFiniteSet(wrote[p]) /\ Cardinality(wrote[p]) <= MAXOPBLOCKS

Distinct(s) == \A i, j \in DOMAIN s : s[i] = s[j] => i = j

(* log.lh and the header on the disk.                                      *)
HeadInv ==
  /\ Distinct(head) /\ Distinct(dhead) /\ Len(dhead) <= LOGSIZE
  /\ boot = "up" /\ head # <<>> => committing \/ \E p \in Procs : pc[p] \in OpPCs
  /\ \A p \in Procs : pc[p] = "done" => head = <<>>
  /\ boot \in {"rinstall", "rerase"} => head = dhead
  /\ \A p \in Procs : pc[p] \in {"install", "erase"} => head = dhead
  /\ boot = "up" /\ dhead # <<>> => \E p \in Procs : pc[p] \in {"install", "erase"}

(* What the calls in progress may still add to log.lh.                     *)
RoomOf(A, c) == {x \in A \X (1 .. MAXOPBLOCKS) : x[2] > c[x[1]]}

Used == [p \in Procs |-> Cardinality(wrote[p] \cap Elems(head))]

RoomInv == Len(head) + Cardinality(RoomOf(Active, Used)) <= LOGSIZE

(* The loops of write_log() and install_trans().                           *)
TailInv ==
  /\ \A p \in Procs : pc[p] \in {"wlog", "install"} => tail \in 1 .. Len(head)
  /\ \A p \in Procs : pc[p] = "whead" => tail = 1 /\ head # <<>>
  /\ boot = "rinstall" => tail \in 1 .. Len(head)

DirtyInv ==
  /\ \A b \in dirty : cache[b] # NoVal
  /\ \A p \in Procs : held[p] # NoBlock => cache[held[p]] # NoVal
  /\ boot # "up" => dirty = {}
  /\ boot = "up" /\ (\A p \in Procs : pc[p] \notin {"install", "erase"}) => dirty = Elems(head)
  /\ \A p \in Procs : pc[p] = "install" => dirty = {head[i] : i \in tail .. Len(head)}
  /\ \A p \in Procs : pc[p] = "erase" => dirty = {}

CleanInv ==
  \A b \in Blocks :
    cache[b] # NoVal /\ b \notin dirty /\ (\A p \in Procs : held[p] # b) => cache[b] = disk[b]

Logged(n) == \A i \in 1 .. n : dlog[i] = View(head[i])

Installed(n) == \A i \in 1 .. n : disk[head[i]] = dlog[i]

LogInv ==
  /\ \A p \in Procs : pc[p] = "wlog" => Logged(tail - 1)
  /\ \A p \in Procs : pc[p] \in {"whead", "install", "erase"} => Logged(Len(head))
  /\ \A p \in Procs : pc[p] = "install" => Installed(tail - 1)
  /\ \A p \in Procs : pc[p] = "erase" => Installed(Len(head))
  /\ boot = "rinstall" => Installed(tail - 1)
  /\ boot = "rerase" => Installed(Len(head))

IInv ==
  /\ TypeOK
  /\ CountInv
  /\ PhaseInv
  /\ HeldInv
  /\ HeadInv
  /\ RoomInv
  /\ TailInv
  /\ DirtyInv
  /\ CleanInv
  /\ LogInv

-----------------------------------------------------------------------------
(* Counting pairs.                                                        *)
(* Distinct pairs of a row and a column have distinct places.              *)
LEMMA RowsApart ==
  ASSUME NEW m \in Nat, NEW i \in Nat, NEW j \in Nat, NEW a \in 1 .. m, NEW b \in 1 .. m,
         i * m + a = j * m + b
  PROVE  i = j /\ a = b
<1>1. ASSUME NEW x \in Nat, NEW y \in Nat, x < y PROVE y * m >= x * m + m
  <2>1. PICK d \in Nat : y = x + 1 + d
    <3>1. y - x - 1 \in Nat /\ y = x + 1 + (y - x - 1)
      BY <1>1
    <3> QED
      BY <3>1
  <2>2. (x + 1 + d) * m = x * m + m + d * m
    OBVIOUS
  <2>3. d * m >= 0 /\ x * m \in Nat
    OBVIOUS
  <2> QED
    BY <2>1, <2>2, <2>3
<1>2. i * m \in Nat /\ j * m \in Nat
  OBVIOUS
<1>3. ~ (i < j)
  BY <1>1, <1>2
<1>4. ~ (j < i)
  BY <1>1, <1>2
<1> QED
  BY <1>3, <1>4, <1>2

LEMMA PairsCard ==
  ASSUME NEW A, IsFiniteSet(A), NEW m \in Nat
  PROVE  /\ IsFiniteSet(A \X (1 .. m))
         /\ Cardinality(A \X (1 .. m)) <= Cardinality(A) * m
<1> DEFINE n == Cardinality(A)
<1>0. n \in Nat
  BY FS_CardinalityType
<1>1. PICK f \in Bijection(1 .. n, A) : TRUE
  BY FS_CardinalityType DEF ExistsBijection
<1>x. PICK g \in [A -> 1 .. n] : \A x \in A : f[g[x]] = x
  <2> DEFINE g == [x \in A |-> CHOOSE i \in 1 .. n : f[i] = x]
  <2>1. \A x \in A : g[x] \in 1 .. n /\ f[g[x]] = x
    BY <1>1 DEF Bijection, Surjection
  <2>2. g \in [A -> 1 .. n]
    BY <2>1
  <2> QED
    BY <2>1, <2>2
<1> HIDE DEF n
<1>2. \A x \in A : g[x] - 1 \in Nat /\ g[x] - 1 <= n - 1 /\ g[x] \in Nat
  BY <1>0
<1> DEFINE h == [z \in A \X (1 .. m) |-> (g[z[1]] - 1) * m + z[2]]
<1>3. \A x \in A, a \in 1 .. m : (g[x] - 1) * m + a \in 1 .. n * m
  <2> SUFFICES ASSUME NEW x \in A, NEW a \in 1 .. m PROVE (g[x] - 1) * m + a \in 1 .. n * m
    OBVIOUS
  <2>1. PICK i \in Nat : i = g[x] - 1 /\ i <= n - 1
    BY <1>2
  <2>2. PICK d \in Nat : n = i + 1 + d
    <3>1. n - i - 1 \in Nat /\ n = i + 1 + (n - i - 1)
      BY <1>0, <2>1
    <3> QED
      BY <3>1
  <2>3. (i + 1 + d) * m = i * m + m + d * m
    OBVIOUS
  <2>4. d * m \in Nat /\ i * m \in Nat
    OBVIOUS
  <2>5. i * m + a \in 1 .. n * m
    BY <2>2, <2>3, <2>4
  <2> QED
    BY <2>1, <2>5
<1>4. h \in [A \X (1 .. m) -> 1 .. n * m]
  BY <1>3
<1>5. ASSUME NEW y \in A \X (1 .. m), NEW z \in A \X (1 .. m), h[y] = h[z] PROVE y = z
  <2>1. PICK i \in Nat, j \in Nat : i = g[y[1]] - 1 /\ j = g[z[1]] - 1
    BY <1>2
  <2>2. y[1] \in A /\ z[1] \in A /\ y[2] \in 1 .. m /\ z[2] \in 1 .. m
    OBVIOUS
  <2>3. i * m + y[2] = j * m + z[2]
    BY <1>5, <2>1
  <2>4. i = j /\ y[2] = z[2]
    BY <2>2, <2>3, RowsApart
  <2>5. g[y[1]] = g[z[1]]
    BY <2>1, <2>2, <2>4, <1>2
  <2>6. y[1] = z[1]
    BY <2>2, <2>5, <1>x
  <2> QED
    BY <2>4, <2>6
<1>6. h \in Injection(A \X (1 .. m), 1 .. n * m)
  BY <1>4, <1>5 DEF Injection, IsInjective
<1>7. n * m \in Nat
  BY <1>0
<1>8. IsFiniteSet(1 .. n * m) /\ Cardinality(1 .. n * m) = n * m
  BY <1>7, FS_Interval
<1>9. IsFiniteSet(A \X (1 .. m)) /\ Cardinality(A \X (1 .. m)) <= Cardinality(1 .. n * m)
  BY <1>6, <1>8, FS_Injection
<1> QED
  BY <1>8, <1>9 DEF n

-----------------------------------------------------------------------------
(* The room for the calls in progress.                                     *)
LEMMA SomeProcs ==
  ASSUME NEW A \in SUBSET Procs
  PROVE  IsFiniteSet(A) /\ Cardinality(A) \in Nat
BY LogAssumption, FS_Subset, FS_CardinalityType

(* What begin_op() reserves for the calls is enough for them, ...          *)
LEMMA RoomBound ==
  ASSUME NEW A \in SUBSET Procs, NEW c
  PROVE  /\ IsFiniteSet(RoomOf(A, c)) /\ Cardinality(RoomOf(A, c)) \in Nat
         /\ Cardinality(RoomOf(A, c)) <= Cardinality(A) * MAXOPBLOCKS
<1>1. MAXOPBLOCKS \in Nat
  BY LogAssumption
<1>2. /\ IsFiniteSet(A \X (1 .. MAXOPBLOCKS))
      /\ Cardinality(A \X (1 .. MAXOPBLOCKS)) <= Cardinality(A) * MAXOPBLOCKS
  BY <1>1, SomeProcs, PairsCard
<1>3. RoomOf(A, c) \in SUBSET (A \X (1 .. MAXOPBLOCKS))
  BY DEF RoomOf
<1>4. /\ IsFiniteSet(RoomOf(A, c))
      /\ Cardinality(RoomOf(A, c)) <= Cardinality(A \X (1 .. MAXOPBLOCKS))
  BY <1>2, <1>3, FS_Subset
<1>5. /\ Cardinality(RoomOf(A, c)) \in Nat /\ Cardinality(A \X (1 .. MAXOPBLOCKS)) \in Nat
      /\ Cardinality(A) \in Nat
  BY <1>2, <1>4, SomeProcs, FS_CardinalityType
<1>6. Cardinality(A) * MAXOPBLOCKS \in Nat
  BY <1>1, <1>5
<1> QED
  BY <1>2, <1>4, <1>5, <1>6

LEMMA NoRoom == \A c : RoomOf({}, c) = {} /\ Cardinality({}) = 0
BY FS_EmptySet DEF RoomOf

(* ... less when calls end or have used more of it, ...                    *)
LEMMA RoomShrinks ==
  ASSUME NEW A \in SUBSET Procs, NEW B \in SUBSET A,
         NEW c \in [Procs -> Nat], NEW d \in [Procs -> Nat],
         \A q \in B : c[q] <= d[q]
  PROVE  Cardinality(RoomOf(B, d)) <= Cardinality(RoomOf(A, c))
<1>1. RoomOf(B, d) \in SUBSET RoomOf(A, c)
  <2> SUFFICES ASSUME NEW x \in B \X (1 .. MAXOPBLOCKS), x[2] > d[x[1]]
               PROVE  x \in A \X (1 .. MAXOPBLOCKS) /\ x[2] > c[x[1]]
    BY DEF RoomOf
  <2>1. x[1] \in B /\ x[2] \in Nat /\ c[x[1]] \in Nat /\ d[x[1]] \in Nat /\ c[x[1]] <= d[x[1]]
    BY LogAssumption
  <2>2. x \in A \X (1 .. MAXOPBLOCKS)
    OBVIOUS
  <2> QED
    BY <2>1, <2>2
<1> QED
  BY <1>1, RoomBound, FS_Subset

(* ... and one less with every block that is new to log.lh.                *)
LEMMA RoomTaken ==
  ASSUME NEW A \in SUBSET Procs, NEW p \in A,
         NEW c \in [Procs -> Nat], NEW d \in [Procs -> Nat],
         c[p] < MAXOPBLOCKS, d[p] = c[p] + 1, \A q \in A \ {p} : d[q] = c[q]
  PROVE  Cardinality(RoomOf(A, d)) + 1 = Cardinality(RoomOf(A, c))
<1> DEFINE x == <<p, c[p] + 1>>
<1>0. MAXOPBLOCKS \in Nat /\ c[p] \in Nat
  BY LogAssumption
<1>1. x \in RoomOf(A, c)
  BY <1>0 DEF RoomOf
<1>2. RoomOf(A, d) = RoomOf(A, c) \ {x}
  <2>1. ASSUME NEW q \in A, NEW i \in 1 .. MAXOPBLOCKS
        PROVE  i > d[q] <=> i > c[q] /\ <<q, i>> # x
    <3>1. i \in Nat /\ c[q] \in Nat /\ d[q] \in Nat
      BY <1>0
    <3>2. CASE q = p
      BY <3>1, <3>2
    <3>3. CASE q # p
      BY <3>1, <3>3
    <3> QED
      BY <3>2, <3>3
  <2>2. ASSUME NEW y \in A \X (1 .. MAXOPBLOCKS) PROVE y[2] > d[y[1]] <=> y[2] > c[y[1]] /\ y # x
    <3>1. y[1] \in A /\ y[2] \in 1 .. MAXOPBLOCKS /\ y = <<y[1], y[2]>>
      OBVIOUS
    <3> QED
      BY <2>1, <3>1
  <2> QED
    BY <2>2 DEF RoomOf
<1>3. IsFiniteSet(RoomOf(A, c)) /\ Cardinality(RoomOf(A, c)) \in Nat
  BY RoomBound
<1>4. ASSUME NEW S, IsFiniteSet(S), NEW y \in S PROVE Cardinality(S \ {y}) = Cardinality(S) - 1
  BY <1>4, FS_RemoveElement
<1>5. Cardinality(RoomOf(A, d)) = Cardinality(RoomOf(A, c)) - 1
  BY <1>1, <1>2, <1>3, <1>4, Zenon
<1> QED
  BY <1>3, <1>5

-----------------------------------------------------------------------------
(* mkfs has made an empty log and blocks with equal contents.              *)
LEMMA InitIInv == Init => IInv
<1> SUFFICES ASSUME Init PROVE IInv
  OBVIOUS
<1>1. TypeOK
  <2>1. dhead \in Seq(Blocks) /\ head \in Seq(Blocks)
    BY DEF Init
  <2>2. tail \in 1 .. LOGSIZE + 1 /\ crashes \in 0 .. MaxCrashes
    BY LogAssumption DEF Init
  <2> QED
    BY <2>1, <2>2, LogAssumption DEF Init, TypeOK, PCs
<1>2. Active = {}
  BY DEF Init, Active, OpPCs
<1>3. CountInv /\ RoomInv
  <2>1. Len(head) = 0 /\ LOGSIZE \in Nat
    BY LogAssumption DEF Init
  <2>2. Cardinality(RoomOf(Active, Used)) = 0
    BY <1>2, NoRoom
  <2>3. outstanding = 0 /\ Cardinality(Active) = 0
    BY <1>2, NoRoom DEF Init
  <2> QED
    BY <2>1, <2>2, <2>3 DEF CountInv, RoomInv
<1>4. PhaseInv
  BY DEF Init, PhaseInv, OpPCs, CommitPCs
<1>5. HeldInv
  BY LogAssumption, FS_EmptySet DEF Init, HeldInv, OpPCs
<1>6. HeadInv /\ TailInv
  BY LogAssumption DEF Init, HeadInv, TailInv, Distinct
<1>7. DirtyInv /\ CleanInv
  BY DEF Init, DirtyInv, CleanInv
<1>8. LogInv
  BY DEF Init, LogInv
<1> QED
  BY <1>1, <1>3, <1>4, <1>5, <1>6, <1>7, <1>8 DEF IInv

(* log.lh fits in the log.                                                 *)
LEMMA HeadFits ==
  ASSUME TypeOK, RoomInv, HeadInv
  PROVE  /\ LOGSIZE \in Nat /\ Len(head) \in 0 .. LOGSIZE /\ DOMAIN head = 1 .. Len(head)
         /\ Len(dhead) \in 0 .. LOGSIZE /\ DOMAIN dhead = 1 .. Len(dhead)
<1>1. Cardinality(RoomOf(Active, Used)) \in Nat
  BY RoomBound DEF Active
<1>2. Len(head) \in Nat /\ Len(dhead) \in Nat /\ DOMAIN head = 1 .. Len(head) /\ DOMAIN dhead = 1 .. Len(dhead)
  BY DEF TypeOK
<1> QED
  BY <1>1, <1>2, LogAssumption DEF RoomInv, HeadInv

(* wakeup(&log)                                                            *)
LEMMA AwakeTyped ==
  ASSUME NEW f \in [Procs -> PCs]
  PROVE  /\ Awake(f) \in [Procs -> PCs]
         /\ \A q \in Procs : Awake(f)[q] = IF f[q] = "asleep" THEN "idle" ELSE f[q]
BY DEF Awake, PCs

(* The blocks a call has put in log.lh are counted by numbers.             *)
LEMMA UsedTyped ==
  ASSUME HeldInv
  PROVE  /\ Used \in [Procs -> Nat]
         /\ \A p \in Procs : /\ IsFiniteSet(wrote[p] \cap Elems(head))
                             /\ Used[p] = Cardinality(wrote[p] \cap Elems(head))
<1>1. \A p \in Procs : /\ IsFiniteSet(wrote[p] \cap Elems(head))
                       /\ Cardinality(wrote[p] \cap Elems(head)) \in Nat
  BY FS_Intersection, FS_CardinalityType DEF HeldInv
<1> QED
  BY <1>1 DEF Used

LEMMA UsedTypedNext ==
  ASSUME HeldInv'
  PROVE  /\ Used' \in [Procs -> Nat]
         /\ \A p \in Procs : /\ IsFiniteSet(wrote'[p] \cap Elems(head'))
                             /\ Used'[p] = Cardinality(wrote'[p] \cap Elems(head'))
<1>1. \A p \in Procs : /\ IsFiniteSet(wrote'[p] \cap Elems(head'))
                       /\ Cardinality(wrote'[p] \cap Elems(head')) \in Nat
  BY FS_Intersection, FS_CardinalityType DEF HeldInv
<1> QED
  BY <1>1 DEF Used, Elems

LEMMA OneMore ==
  ASSUME NEW S, IsFiniteSet(S), NEW x, x \notin S
  PROVE  Cardinality(S \cup {x}) = Cardinality(S) + 1
BY FS_AddElement

(* One step per action, and under it one per part of IInv.                 *)
LEMMA StepIInv ==
  ASSUME IInv, [Next]_vars
  PROVE  IInv'
<1>t. /\ TypeOK /\ CountInv /\ PhaseInv /\ HeldInv /\ HeadInv
      /\ RoomInv /\ TailInv /\ DirtyInv /\ CleanInv /\ LogInv
  BY DEF IInv
<1>l. /\ LOGSIZE \in Nat /\ Len(head) \in 0 .. LOGSIZE /\ DOMAIN head = 1 .. Len(head)
      /\ Len(dhead) \in 0 .. LOGSIZE /\ DOMAIN dhead = 1 .. Len(dhead)
  BY <1>t, HeadFits
<1>a. Active \in SUBSET Procs /\ IsFiniteSet(Active) /\ Cardinality(Active) \in Nat
  BY SomeProcs DEF Active
<1>1. ASSUME NEW p \in Procs, BeginOp(p) PROVE IInv'
  <2>f. /\ pc[p] = "idle" /\ boot = "up" /\ ~ committing /\ ~ Exhausts
        /\ UNCHANGED <<cache, dirty, head, committing, held, wrote, tail, disk, dlog, dhead, boot, panicked, crashes>>
    BY <1>1 DEF BeginOp, Running, diskVars, sysVars
  <2>m. /\ pc' \in [Procs -> PCs]
        /\ \A q \in Procs : pc'[q] = IF q = p THEN "op" ELSE pc[q]
    BY <1>1, <1>t DEF BeginOp, TypeOK, PCs
  <2>a. Active' = Active \cup {p} /\ p \notin Active
    BY <2>m, <2>f DEF Active, OpPCs
  <2>c. Cardinality(Active') = outstanding + 1 /\ outstanding' = outstanding + 1 /\ outstanding \in Nat
    BY <1>1, <2>a, <1>a, <1>t, FS_AddElement DEF BeginOp, CountInv
  <2>1. TypeOK'
    BY <2>f, <2>m, <2>c, <1>t DEF TypeOK
  <2>2. CountInv'
    BY <2>c DEF CountInv
  <2>3. PhaseInv'
    BY <2>f, <2>m, <1>t, <1>l, LogAssumption DEF PhaseInv, OpPCs, CommitPCs
  <2>4. HeldInv'
    BY <2>f, <2>m, <1>t, <1>l, LogAssumption DEF HeldInv, OpPCs, Elems
  <2>5. HeadInv'
    BY <2>f, <2>m, <1>t, <1>l, LogAssumption DEF HeadInv, Distinct, OpPCs, CommitPCs
  <2>6. RoomInv'
    <3>1. Len(head) + (outstanding + 1) * MAXOPBLOCKS <= LOGSIZE
      <4>1. (outstanding + 1) * MAXOPBLOCKS \in Nat
        BY <2>c, LogAssumption
      <4> QED
        BY <4>1, <2>f, <1>l DEF Exhausts
    <3>2. Active' \in SUBSET Procs
      BY DEF Active
    <3>3. /\ Cardinality(RoomOf(Active', Used')) \in Nat
          /\ Cardinality(RoomOf(Active', Used')) <= (outstanding + 1) * MAXOPBLOCKS
      BY <3>2, <2>c, RoomBound
    <3>4. (outstanding + 1) * MAXOPBLOCKS \in Nat
      BY <2>c, LogAssumption
    <3> QED
      BY <3>1, <3>3, <3>4, <2>f, <1>l DEF RoomInv
  <2>7. TailInv'
    BY <2>f, <2>m, <1>t, <1>l, LogAssumption DEF TailInv
  <2>8. DirtyInv'
    BY <2>f, <2>m, <1>t, <1>l, LogAssumption DEF DirtyInv, Elems
  <2>9. CleanInv'
    BY <2>f, <2>m, <1>t, <1>l, LogAssumption DEF CleanInv
  <2>10. LogInv'
    BY <2>f, <2>m, <1>t, <1>l, LogAssumption DEF LogInv, Logged, Installed, View, CommitPCs
  <2> QED
    BY <2>1, <2>2, <2>3, <2>4, <2>5, <2>6, <2>7, <2>8, <2>9, <2>10 DEF IInv
<1>2. ASSUME NEW p \in Procs, BeginSleep(p) PROVE IInv'
  <2>f. /\ pc[p] = "idle" /\ boot = "up" /\ (committing \/ Exhausts)
        /\ UNCHANGED <<cache, dirty, head, outstanding, committing, held, wrote, tail, disk, dlog, dhead, boot, panicked, crashes>>
    BY <1>2 DEF BeginSleep, Running, memVars, diskVars, sysVars
  <2>m. /\ pc' \in [Procs -> PCs]
        /\ \A q \in Procs : pc'[q] = IF q = p THEN "asleep" ELSE pc[q]
    BY <1>2, <1>t DEF BeginSleep, TypeOK, PCs
  <2>a. Active' = Active /\ Used' = Used
    BY <2>m, <2>f DEF Active, OpPCs, Used, Elems
  <2>w. committing \/ \E q \in Procs : pc[q] \in OpPCs
    <3> SUFFICES ASSUME ~ committing, \A q \in Procs : pc[q] \notin OpPCs PROVE FALSE
      OBVIOUS
    <3>1. head = <<>> /\ Len(head) = 0
      BY <2>f, <1>t DEF HeadInv
    <3>2. Active = {}
      BY DEF Active
    <3>3. outstanding = 0
      BY <3>2, <1>t, NoRoom DEF CountInv
    <3>4. (outstanding + 1) * MAXOPBLOCKS = MAXOPBLOCKS
      BY <3>3, LogAssumption
    <3> QED
      BY <3>1, <3>4, <2>f, LogAssumption DEF Exhausts
  <2>1. TypeOK'
    BY <2>f, <2>m, <1>t, <1>l, LogAssumption DEF TypeOK, PCs
  <2>2. CountInv'
    BY <2>a, <2>f, <1>t DEF CountInv
  <2>3. PhaseInv'
    BY <2>f, <2>m, <2>w, <1>t DEF PhaseInv, OpPCs, CommitPCs
  <2>4. HeldInv'
    BY <2>f, <2>m, <1>t, <1>l, LogAssumption DEF HeldInv, OpPCs, Elems
  <2>5. HeadInv'
    BY <2>f, <2>m, <1>t, <1>l, LogAssumption DEF HeadInv, Distinct, OpPCs, CommitPCs
  <2>6. RoomInv'
    BY <2>a, <2>f, <1>t DEF RoomInv
  <2>7. TailInv'
    BY <2>f, <2>m, <1>t, <1>l, LogAssumption DEF TailInv
  <2>8. DirtyInv'
    BY <2>f, <2>m, <1>t, <1>l, LogAssumption DEF DirtyInv, Elems
  <2>9. CleanInv'
    BY <2>f, <2>m, <1>t, <1>l, LogAssumption DEF CleanInv
  <2>10. LogInv'
    BY <2>f, <2>m, <1>t, <1>l, LogAssumption DEF LogInv, Logged, Installed, View, CommitPCs
  <2> QED
    BY <2>1, <2>2, <2>3, <2>4, <2>5, <2>6, <2>7, <2>8, <2>9, <2>10 DEF IInv
<1>3. ASSUME NEW p \in Procs, NEW b \in Blocks, NEW v \in Vals, Change(p, b, v) PROVE IInv'
  <2>f. /\ pc[p] = "op" /\ boot = "up" /\ (\A q \in Procs : held[q] # b)
        /\ Cardinality(wrote[p] \cup {b}) <= MAXOPBLOCKS
        /\ UNCHANGED <<dirty, head, outstanding, committing, tail, disk, dlog, dhead, boot, panicked, crashes>>
    BY <1>3 DEF Change, Running, diskVars, sysVars
  <2>y. /\ pc' \in [Procs -> PCs] /\ cache' \in [Blocks -> Vals \cup {NoVal}]
        /\ held' \in [Procs -> Blocks \cup {NoBlock}] /\ wrote' \in [Procs -> SUBSET Blocks]
    BY <1>3, <1>t DEF Change, TypeOK, PCs
  <2>m. /\ \A q \in Procs : pc'[q] = IF q = p THEN "changed" ELSE pc[q]
        /\ \A q \in Procs : held'[q] = IF q = p THEN b ELSE held[q]
        /\ \A q \in Procs : wrote'[q] = IF q = p THEN wrote[p] \cup {b} ELSE wrote[q]
        /\ \A c \in Blocks : cache'[c] = IF c = b THEN v ELSE cache[c]
    BY <1>3, <1>t DEF Change, TypeOK
  <2>h. held[p] = NoBlock
    BY <2>f, <1>t DEF HeldInv
  <2>a. Active' = Active
    BY <2>m, <2>f DEF Active, OpPCs
  <2>n. \A q \in Procs : pc'[q] \notin CommitPCs
    BY <2>f, <2>m, <1>t DEF PhaseInv, OpPCs, CommitPCs
  <2>1. TypeOK'
    BY <2>f, <2>y, <1>t DEF TypeOK
  <2>2. CountInv'
    BY <2>a, <2>f, <1>t DEF CountInv
  <2>3. PhaseInv'
    BY <2>f, <2>m, <1>t, <1>l, LogAssumption DEF PhaseInv, OpPCs, CommitPCs
  <2>4. HeldInv'
    <3>1. \A q \in Procs : held'[q] # NoBlock <=> pc'[q] \in {"changed", "append"}
      BY <2>f, <2>m, <1>t, LogAssumption DEF HeldInv
    <3>2. \A q, r \in Procs : held'[q] = held'[r] => q = r \/ held'[q] = NoBlock
      BY <2>f, <2>m, <1>t DEF HeldInv
    <3>3. \A q \in Procs : held'[q] # NoBlock => held'[q] \in wrote'[q]
      BY <2>m, <1>t DEF HeldInv
    <3>4. \A q \in Procs : wrote'[q] \subseteq Elems(head) \cup {held'[q]}
      <4>1. wrote[p] \subseteq Elems(head)
        BY <2>h, <1>t, LogAssumption DEF HeldInv, TypeOK
      <4> QED
        BY <4>1, <2>m, <1>t DEF HeldInv
    <3>5. \A q \in Procs : pc'[q] \notin OpPCs => wrote'[q] = {}
      BY <2>m, <1>t DEF HeldInv, OpPCs
    <3>6. \A q \in Procs : IsFiniteSet(wrote'[q]) /\ Cardinality(wrote'[q]) <= MAXOPBLOCKS
      <4>1. IsFiniteSet(wrote[p] \cup {b})
        BY <1>t, FS_AddElement DEF HeldInv
      <4> QED
        BY <4>1, <2>f, <2>m, <1>t DEF HeldInv
    <3> QED
      BY <3>1, <3>2, <3>3, <3>4, <3>5, <3>6, <2>f DEF HeldInv, Elems
  <2>5. HeadInv'
    BY <2>f, <2>m, <1>t, <1>l, LogAssumption DEF HeadInv, Distinct, OpPCs, CommitPCs
  <2>6. RoomInv'
    <3>1. Used \in [Procs -> Nat] /\ Used' \in [Procs -> Nat]
      BY <1>t, <2>4, UsedTyped, UsedTypedNext
    <3>2. \A q \in Procs : Used[q] <= Used'[q]
      <4> SUFFICES ASSUME NEW q \in Procs PROVE Used[q] <= Used'[q]
        OBVIOUS
      <4>1. wrote[q] \cap Elems(head) \in SUBSET (wrote'[q] \cap Elems(head'))
        BY <2>m, <2>f
      <4>2. /\ IsFiniteSet(wrote'[q] \cap Elems(head'))
            /\ Used'[q] = Cardinality(wrote'[q] \cap Elems(head'))
            /\ Used[q] = Cardinality(wrote[q] \cap Elems(head))
        BY <1>t, <2>4, UsedTyped, UsedTypedNext
      <4> QED
        BY <4>1, <4>2, FS_Subset
    <3>3. Cardinality(RoomOf(Active, Used')) <= Cardinality(RoomOf(Active, Used))
      BY <3>1, <3>2, <1>a, RoomShrinks
    <3>4. Cardinality(RoomOf(Active, Used')) \in Nat /\ Cardinality(RoomOf(Active, Used)) \in Nat
      BY <1>a, RoomBound
    <3> QED
      BY <3>3, <3>4, <2>a, <2>f, <1>l, <1>t DEF RoomInv
  <2>7. TailInv'
    BY <2>f, <2>n DEF TailInv, CommitPCs
  <2>8. DirtyInv'
    <3>1. \A c \in dirty : cache'[c] # NoVal
      BY <2>m, <1>t, LogAssumption DEF DirtyInv, TypeOK
    <3>2. \A q \in Procs : held'[q] # NoBlock => cache'[held'[q]] # NoVal
      BY <2>m, <1>t, LogAssumption DEF DirtyInv, TypeOK
    <3>3. boot = "up" /\ dirty = Elems(head)
      <4>1. \A q \in Procs : pc[q] \notin {"install", "erase"}
        BY <2>f, <1>t DEF PhaseInv, OpPCs, CommitPCs
      <4> QED
        BY <4>1, <2>f, <1>t DEF DirtyInv
    <3>4. \A q \in Procs : pc'[q] \notin {"install", "erase"}
      BY <2>n DEF CommitPCs
    <3> QED
      BY <3>1, <3>2, <3>3, <3>4, <2>f DEF DirtyInv, Elems
  <2>9. CleanInv'
    <3> SUFFICES ASSUME NEW c \in Blocks, cache'[c] # NoVal, c \notin dirty, \A q \in Procs : held'[q] # c
                 PROVE  cache'[c] = disk[c]
      BY <2>f DEF CleanInv
    <3>1. c # b
      BY <2>m
    <3>2. \A q \in Procs : held[q] # c
      BY <2>m, <2>h, LogAssumption
    <3> QED
      BY <3>1, <3>2, <2>m, <1>t DEF CleanInv
  <2>10. LogInv'
    BY <2>f, <2>n DEF LogInv, CommitPCs
  <2> QED
    BY <2>1, <2>2, <2>3, <2>4, <2>5, <2>6, <2>7, <2>8, <2>9, <2>10 DEF IInv
<1>4. ASSUME NEW p \in Procs, LogWriteCheck(p) PROVE IInv'
  <2>f. /\ pc[p] = "changed" /\ boot = "up"
        /\ UNCHANGED <<cache, dirty, head, outstanding, committing, held, wrote, tail, disk, dlog, dhead, boot, crashes>>
    BY <1>4 DEF LogWriteCheck, Running, memVars, diskVars
  <2>m. /\ pc' \in [Procs -> PCs] /\ panicked' \in BOOLEAN
        /\ \A q \in Procs \ {p} : pc'[q] = pc[q]
        /\ pc'[p] \in {"changed", "append"}
    BY <1>4, <1>t DEF LogWriteCheck, TypeOK, PCs
  <2>a. Active' = Active /\ Used' = Used
    BY <2>m, <2>f DEF Active, OpPCs, Used, Elems
  <2>1. TypeOK'
    BY <2>f, <2>m, <1>t, <1>l, LogAssumption DEF TypeOK, PCs
  <2>2. CountInv'
    BY <2>a, <2>f, <1>t DEF CountInv
  <2>3. PhaseInv'
    BY <2>f, <2>m, <1>t, <1>l, LogAssumption DEF PhaseInv, OpPCs, CommitPCs
  <2>4. HeldInv'
    BY <2>f, <2>m, <1>t, <1>l, LogAssumption DEF HeldInv, OpPCs, Elems
  <2>5. HeadInv'
    BY <2>f, <2>m, <1>t, <1>l, LogAssumption DEF HeadInv, Distinct, OpPCs, CommitPCs
  <2>6. RoomInv'
    BY <2>a, <2>f, <1>t DEF RoomInv
  <2>7. TailInv'
    BY <2>f, <2>m, <1>t, <1>l, LogAssumption DEF TailInv
  <2>8. DirtyInv'
    BY <2>f, <2>m, <1>t, <1>l, LogAssumption DEF DirtyInv, Elems
  <2>9. CleanInv'
    BY <2>f, <2>m, <1>t, <1>l, LogAssumption DEF CleanInv
  <2>10. LogInv'
    BY <2>f, <2>m, <1>t, <1>l, LogAssumption DEF LogInv, Logged, Installed, View, CommitPCs
  <2> QED
    BY <2>1, <2>2, <2>3, <2>4, <2>5, <2>6, <2>7, <2>8, <2>9, <2>10 DEF IInv
<1>5. ASSUME NEW p \in Procs, LogWrite(p) PROVE IInv'
  <2>f. /\ pc[p] = "append" /\ boot = "up"
        /\ UNCHANGED <<cache, outstanding, committing, wrote, tail, disk, dlog, dhead, boot, panicked, crashes>>
    BY <1>5 DEF LogWrite, Running, diskVars, sysVars
  <2>b. PICK b \in Blocks : b = held[p]
    BY <2>f, <1>t DEF HeldInv, TypeOK
  <2>d. dirty' = dirty \cup {b}
    BY <1>5, <2>b DEF LogWrite, Pin
  <2>m. /\ pc' \in [Procs -> PCs] /\ held' \in [Procs -> Blocks \cup {NoBlock}]
        /\ \A q \in Procs : pc'[q] = IF q = p THEN "op" ELSE pc[q]
        /\ \A q \in Procs : held'[q] = IF q = p THEN NoBlock ELSE held[q]
    BY <1>5, <1>t DEF LogWrite, TypeOK, PCs
  <2>a. Active' = Active /\ p \in Active
    BY <2>m, <2>f DEF Active, OpPCs
  <2>n. /\ \A q \in Procs : pc[q] \notin CommitPCs
        /\ \A q \in Procs : pc'[q] \notin CommitPCs
    BY <2>f, <2>m, <1>t DEF PhaseInv, OpPCs, CommitPCs
  <2>h. \/ b \in Elems(head) /\ head' = head
        \/ b \notin Elems(head) /\ head' = Append(head, b)
    BY <1>5, <2>b DEF LogWrite
  <2>s. /\ head' \in Seq(Blocks) /\ DOMAIN head' = 1 .. Len(head') /\ Len(head') \in Nat
        /\ Elems(head') = Elems(head) \cup {b} /\ Distinct(head')
    <3>1. CASE b \in Elems(head) /\ head' = head
      BY <3>1, <1>t, <1>l DEF TypeOK, HeadInv, Distinct
    <3>2. CASE b \notin Elems(head) /\ head' = Append(head, b)
      <4>1. /\ head' \in Seq(Blocks) /\ Len(head') = Len(head) + 1
            /\ \A i \in 1 .. Len(head) : head'[i] = head[i]
            /\ head'[Len(head) + 1] = b
        BY <3>2, <1>t, AppendProperties DEF TypeOK
      <4>2. DOMAIN head' = 1 .. Len(head) + 1
        BY <4>1
      <4>3. Elems(head') = Elems(head) \cup {b}
        BY <4>1, <4>2, <1>l DEF Elems
      <4>4. \A i \in 1 .. Len(head) : head[i] # b
        BY <3>2, <1>l DEF Elems
      <4>5. Distinct(head')
        BY <4>1, <4>2, <4>4, <1>l, <1>t DEF HeadInv, Distinct
      <4> QED
        BY <4>1, <4>2, <4>3, <4>5, <1>l
    <3> QED
      BY <2>h, <3>1, <3>2
  <2>1. TypeOK'
    BY <2>f, <2>m, <2>d, <2>s, <1>t DEF TypeOK
  <2>2. CountInv'
    BY <2>a, <2>f, <1>t DEF CountInv
  <2>3. PhaseInv'
    BY <2>f, <2>m, <1>t, <1>l, LogAssumption DEF PhaseInv, OpPCs, CommitPCs
  <2>4. HeldInv'
    <3>1. \A q \in Procs : wrote[q] \subseteq Elems(head') \cup {held'[q]}
      BY <2>b, <2>m, <2>s, <1>t DEF HeldInv
    <3> QED
      BY <3>1, <2>f, <2>m, <1>t DEF HeldInv, OpPCs
  <2>5. HeadInv'
    BY <2>f, <2>m, <2>n, <2>s, <1>t DEF HeadInv, Distinct, OpPCs, CommitPCs
  <2>6. RoomInv'
    <3>1. Used \in [Procs -> Nat] /\ Used' \in [Procs -> Nat]
      BY <1>t, <2>4, UsedTyped, UsedTypedNext
    <3>2. /\ Cardinality(RoomOf(Active, Used')) \in Nat
          /\ Cardinality(RoomOf(Active, Used)) \in Nat
      BY <1>a, RoomBound
    <3>3. \A q \in Procs : /\ IsFiniteSet(wrote[q] \cap Elems(head'))
                           /\ Used'[q] = Cardinality(wrote[q] \cap Elems(head'))
                           /\ IsFiniteSet(wrote[q] \cap Elems(head))
                           /\ Used[q] = Cardinality(wrote[q] \cap Elems(head))
      BY <2>f, <1>t, <2>4, UsedTyped, UsedTypedNext
    <3>4. CASE b \in Elems(head) /\ head' = head
      <4>1. \A q \in Procs : Used[q] <= Used'[q]
        <5> SUFFICES ASSUME NEW q \in Procs PROVE Used[q] <= Used'[q]
          OBVIOUS
        <5>1. Used[q] = Used'[q] /\ Used[q] \in Nat
          BY <3>1, <3>3, <3>4
        <5> QED
          BY <5>1
      <4>2. Cardinality(RoomOf(Active, Used')) <= Cardinality(RoomOf(Active, Used))
        BY <3>1, <4>1, <1>a, RoomShrinks
      <4> QED
        BY <3>2, <3>4, <4>2, <2>a, <1>l, <1>t DEF RoomInv
    <3>5. CASE b \notin Elems(head) /\ head' = Append(head, b)
      <4>1. \A q \in Procs \ {p} : Used'[q] = Used[q]
        <5> SUFFICES ASSUME NEW q \in Procs \ {p} PROVE Used'[q] = Used[q]
          OBVIOUS
        <5>1. b \notin wrote[q]
          BY <3>5, <2>b, <1>t, LogAssumption DEF HeldInv
        <5>2. wrote[q] \cap Elems(head') = wrote[q] \cap Elems(head)
          BY <5>1, <2>s
        <5> QED
          BY <5>2, <3>3
      <4>2. Used'[p] = Used[p] + 1 /\ Used[p] < MAXOPBLOCKS
        <5>1. b \in wrote[p]
          BY <2>b, <1>t, LogAssumption DEF HeldInv
        <5>2. /\ wrote[p] \cap Elems(head') = (wrote[p] \cap Elems(head)) \cup {b}
              /\ b \notin wrote[p] \cap Elems(head)
          BY <5>1, <2>s, <3>5
        <5>3. Used'[p] = Used[p] + 1
          <6>1. Cardinality((wrote[p] \cap Elems(head)) \cup {b}) = Cardinality(wrote[p] \cap Elems(head)) + 1
            BY <5>2, <3>3, OneMore, Zenon
          <6> QED
            BY <6>1, <5>2, <3>3
        <5>4. wrote[p] \cap Elems(head') \in SUBSET wrote[p]
          OBVIOUS
        <5>5. IsFiniteSet(wrote[p]) /\ Cardinality(wrote[p]) <= MAXOPBLOCKS /\ Cardinality(wrote[p]) \in Nat
          BY <1>t, FS_CardinalityType DEF HeldInv
        <5>6. Used'[p] <= Cardinality(wrote[p])
          <6>1. Cardinality(wrote[p] \cap Elems(head')) <= Cardinality(wrote[p])
            BY <5>4, <5>5, FS_Subset, Zenon
          <6> QED
            BY <6>1, <3>3
        <5> QED
          BY <5>3, <5>5, <5>6, <3>1, LogAssumption
      <4>3. Cardinality(RoomOf(Active, Used')) + 1 = Cardinality(RoomOf(Active, Used))
        BY <3>1, <4>1, <4>2, <2>a, <1>a, RoomTaken
      <4>4. Len(head') = Len(head) + 1
        BY <3>5, <1>t, AppendProperties DEF TypeOK
      <4> QED
        BY <3>2, <4>3, <4>4, <2>a, <1>l, <1>t DEF RoomInv
    <3> QED
      BY <2>h, <3>4, <3>5
  <2>7. TailInv'
    BY <2>f, <2>n DEF TailInv, CommitPCs
  <2>8. DirtyInv'
    <3>1. dirty = Elems(head)
      BY <2>f, <2>n, <1>t DEF DirtyInv, CommitPCs
    <3>2. dirty' = Elems(head')
      BY <3>1, <2>d, <2>s
    <3>3. \A c \in dirty' : cache[c] # NoVal
      BY <2>b, <2>d, <1>t, LogAssumption DEF DirtyInv
    <3>4. \A q \in Procs : held'[q] # NoBlock => cache[held'[q]] # NoVal
      BY <2>m, <1>t DEF DirtyInv
    <3> QED
      BY <3>2, <3>3, <3>4, <2>f, <2>n DEF DirtyInv, CommitPCs
  <2>9. CleanInv'
    BY <2>f, <2>m, <2>b, <2>d, <1>t DEF CleanInv
  <2>10. LogInv'
    BY <2>f, <2>n DEF LogInv, CommitPCs
  <2> QED
    BY <2>1, <2>2, <2>3, <2>4, <2>5, <2>6, <2>7, <2>8, <2>9, <2>10 DEF IInv
<1>6. ASSUME NEW p \in Procs, EndOp(p) PROVE IInv'
  <2>f. /\ pc[p] = "op" /\ boot = "up" /\ ~ committing
        /\ UNCHANGED <<cache, dirty, head, held, disk, dlog, dhead, boot, panicked, crashes>>
    BY <1>6, <1>t DEF EndOp, Running, diskVars, sysVars, PhaseInv, OpPCs
  <2>a. Cardinality(Active \ {p}) = outstanding - 1 /\ outstanding \in Nat \ {0} /\ p \in Active
    <3>1. p \in Active
      BY <2>f DEF Active, OpPCs
    <3>2. Active # {}
      BY <3>1
    <3>3. Cardinality(Active) # 0
      BY <3>2, <1>a, FS_EmptySet
    <3> QED
      BY <3>1, <3>3, <1>a, <1>t, FS_RemoveElement DEF CountInv
  <2>w. /\ wrote' \in [Procs -> SUBSET Blocks] /\ outstanding' = outstanding - 1
        /\ \A q \in Procs : wrote'[q] = IF q = p THEN {} ELSE wrote[q]
    BY <1>6, <1>t DEF EndOp, TypeOK
  <2>m. \/ /\ outstanding' = 0 /\ committing' = TRUE /\ tail' = 1
           /\ pc' = [pc EXCEPT ![p] = IF head = <<>> THEN "done" ELSE "wlog"]
        \/ /\ outstanding' # 0 /\ committing' = committing /\ tail' = tail
           /\ pc' = Awake([pc EXCEPT ![p] = "idle"])
    BY <1>6 DEF EndOp
  <2>p. /\ pc' \in [Procs -> PCs]
        /\ \/ /\ outstanding' = 0 /\ committing' = TRUE /\ tail' = 1
              /\ \A q \in Procs : pc'[q] = IF q # p THEN pc[q] ELSE IF head = <<>> THEN "done" ELSE "wlog"
           \/ /\ outstanding' # 0 /\ committing' = committing /\ tail' = tail
              /\ \A q \in Procs : pc'[q] = IF q = p \/ pc[q] = "asleep" THEN "idle" ELSE pc[q]
    <3>1. CASE pc' = [pc EXCEPT ![p] = IF head = <<>> THEN "done" ELSE "wlog"] /\ outstanding' = 0 /\ committing' = TRUE /\ tail' = 1
      BY <3>1, <1>t DEF TypeOK, PCs
    <3>2. CASE outstanding' # 0 /\ committing' = committing /\ tail' = tail /\ pc' = Awake([pc EXCEPT ![p] = "idle"])
      <4>1. [pc EXCEPT ![p] = "idle"] \in [Procs -> PCs]
        BY <1>t DEF TypeOK, PCs
      <4>2. \A q \in Procs : [pc EXCEPT ![p] = "idle"][q] = IF q = p THEN "idle" ELSE pc[q]
        BY <1>t DEF TypeOK
      <4> QED
        BY <3>2, <4>1, <4>2, AwakeTyped
    <3> QED
      BY <2>m, <3>1, <3>2
  <2>c. Active' = Active \ {p}
    BY <2>p, <2>f DEF Active, OpPCs
  <2>n. /\ \A q \in Procs : pc[q] \notin CommitPCs
        /\ \A q \in Procs : pc'[q] \notin {"whead", "install", "erase"}
        /\ \A q \in Procs : pc'[q] \in CommitPCs => q = p /\ outstanding' = 0
    BY <2>f, <2>p, <1>t DEF PhaseInv, OpPCs, CommitPCs
  <2>e. IF outstanding' = 0 THEN \A q \in Procs : pc'[q] \notin OpPCs
                            ELSE \E q \in Procs : pc'[q] \in OpPCs
    <3>1. CASE outstanding' = 0
      <4>1. Active' = {}
        BY <3>1, <2>a, <2>c, <2>w, <1>a, FS_RemoveElement, FS_EmptySet
      <4> QED
        BY <3>1, <4>1 DEF Active
    <3>2. CASE outstanding' # 0
      <4>1. Active' # {}
        BY <3>2, <2>a, <2>c, <2>w, NoRoom
      <4> QED
        BY <3>2, <4>1 DEF Active
    <3> QED
      BY <3>1, <3>2
  <2>1. TypeOK'
    <3>1. outstanding' \in Nat
      BY <2>a, <2>w
    <3>2. (tail' = 1 \/ tail' = tail) /\ committing' \in BOOLEAN
      BY <2>p, <1>t DEF TypeOK
    <3>3. tail' \in 1 .. LOGSIZE + 1
      BY <3>2, <1>t, LogAssumption DEF TypeOK
    <3> QED
      BY <3>1, <3>2, <3>3, <2>f, <2>w, <2>p, <1>t DEF TypeOK
  <2>2. CountInv'
    BY <2>a, <2>c, <2>w DEF CountInv
  <2>3. PhaseInv'
    <3>1. \A q \in Procs : pc'[q] \in CommitPCs => committing'
      BY <2>n, <2>p
    <3>2. \A q \in Procs : pc'[q] \in OpPCs => ~ committing'
      BY <2>e, <2>p, <2>f
    <3>3. \A q, r \in Procs : pc'[q] \in CommitPCs /\ pc'[r] \in CommitPCs => q = r
      BY <2>n
    <3>4. \A q \in Procs : pc'[q] = "asleep" => committing' \/ \E r \in Procs : pc'[r] \in OpPCs
      BY <2>e, <2>p
    <3> QED
      BY <3>1, <3>2, <3>3, <3>4, <2>f DEF PhaseInv
  <2>4. HeldInv'
    <3>1. \A q \in Procs : held[q] # NoBlock <=> pc'[q] \in {"changed", "append"}
      BY <2>f, <2>p, <1>t DEF HeldInv
    <3>2. held[p] = NoBlock
      BY <2>f, <1>t DEF HeldInv
    <3>3. \A q \in Procs : held[q] # NoBlock => held[q] \in wrote'[q]
      BY <3>2, <2>w, <1>t DEF HeldInv
    <3>4. \A q \in Procs : wrote'[q] \subseteq Elems(head) \cup {held[q]}
      BY <2>w, <1>t DEF HeldInv
    <3>5. \A q \in Procs : pc'[q] \notin OpPCs => wrote'[q] = {}
      BY <2>w, <2>p, <1>t DEF HeldInv, OpPCs
    <3>6. \A q \in Procs : IsFiniteSet(wrote'[q]) /\ Cardinality(wrote'[q]) <= MAXOPBLOCKS
      <4>1. IsFiniteSet({}) /\ Cardinality({}) <= MAXOPBLOCKS
        BY FS_EmptySet, LogAssumption
      <4> QED
        BY <4>1, <2>w, <1>t DEF HeldInv
    <3>7. \A q, r \in Procs : held[q] = held[r] => q = r \/ held[q] = NoBlock
      BY <1>t DEF HeldInv
    <3> QED
      BY <3>1, <3>3, <3>4, <3>5, <3>6, <3>7, <2>f DEF HeldInv, Elems
  <2>5. HeadInv'
    <3>1. committing' \/ \E q \in Procs : pc'[q] \in OpPCs
      BY <2>e, <2>p
    <3>2. \A q \in Procs : pc'[q] = "done" => head = <<>>
      BY <2>n, <2>p DEF CommitPCs
    <3>3. dhead = <<>>
      BY <2>n, <2>f, <1>t DEF HeadInv, CommitPCs
    <3> QED
      BY <3>1, <3>2, <3>3, <2>n, <2>f, <1>t DEF HeadInv, Distinct
  <2>6. RoomInv'
    <3>1. Used \in [Procs -> Nat] /\ Used' \in [Procs -> Nat]
      BY <1>t, <2>4, UsedTyped, UsedTypedNext
    <3>2. \A q \in Active \ {p} : Used[q] <= Used'[q]
      <4>1. \A q \in Active \ {p} : Used'[q] = Used[q]
        BY <2>f, <2>w DEF Used, Active, Elems
      <4> QED
        BY <3>1, <4>1 DEF Active
    <3>3. Cardinality(RoomOf(Active \ {p}, Used')) <= Cardinality(RoomOf(Active, Used))
      BY <3>1, <3>2, <1>a, RoomShrinks
    <3>4. Cardinality(RoomOf(Active \ {p}, Used')) \in Nat /\ Cardinality(RoomOf(Active, Used)) \in Nat
      BY <1>a, RoomBound
    <3> QED
      BY <3>3, <3>4, <2>c, <2>f, <1>l, <1>t DEF RoomInv
  <2>7. TailInv'
    <3>1. CASE head = <<>>
      <4>1. \A q \in Procs : pc'[q] # "wlog"
        BY <3>1, <2>n, <2>p DEF CommitPCs
      <4> QED
        BY <4>1, <2>n, <2>f DEF TailInv
    <3>2. CASE head # <<>>
      <4>1. Len(head) \in Nat \ {0}
        BY <3>2, <1>t, EmptySeq DEF TypeOK
      <4>2. \A q \in Procs : pc'[q] = "wlog" => tail' = 1
        BY <2>n, <2>p DEF CommitPCs
      <4> QED
        BY <4>1, <4>2, <2>n, <2>f DEF TailInv
    <3> QED
      BY <3>1, <3>2
  <2>8. DirtyInv'
    BY <2>f, <2>n, <1>t DEF DirtyInv, CommitPCs, Elems
  <2>9. CleanInv'
    BY <2>f, <2>p, <1>t, <1>l, LogAssumption DEF CleanInv
  <2>10. LogInv'
    <3>1. \A q \in Procs : pc'[q] = "wlog" => tail' = 1
      BY <2>n, <2>p DEF CommitPCs
    <3> QED
      BY <3>1, <2>n, <2>f DEF LogInv, Logged
  <2> QED
    BY <2>1, <2>2, <2>3, <2>4, <2>5, <2>6, <2>7, <2>8, <2>9, <2>10 DEF IInv
<1>7. ASSUME NEW p \in Procs, WriteLog(p) PROVE IInv'
  <2>f. /\ pc[p] = "wlog" /\ boot = "up" /\ committing
        /\ UNCHANGED <<cache, dirty, head, outstanding, committing, held, wrote, disk, dhead, boot, panicked, crashes>>
    BY <1>7, <1>t DEF WriteLog, Running, memVars, procVars, diskVars, sysVars, PhaseInv, CommitPCs
  <2>o. /\ \A q \in Procs : pc[q] \notin OpPCs
        /\ \A q \in Procs \ {p} : pc[q] \notin CommitPCs
    BY <2>f, <1>t DEF PhaseInv, CommitPCs
  <2>x. /\ pc[p] \in CommitPCs
        /\ \A q \in Procs : pc[q] \in {"idle", "asleep"} \/ q = p
    BY <2>f, <2>o, <1>t DEF TypeOK, PCs, OpPCs, CommitPCs
  <2>h. \A q \in Procs : held[q] = NoBlock /\ wrote[q] = {}
    BY <2>o, <1>t DEF HeldInv, OpPCs
  <2>a. Active = {} /\ outstanding = 0
    BY <2>o, <1>t, NoRoom DEF Active, CountInv
  <2>t. tail \in 1 .. Len(head) /\ Len(head) \in 1 .. LOGSIZE
    BY <2>f, <1>t, <1>l DEF TailInv
  <2>u. /\ tail \in Nat /\ tail <= Len(head) /\ Len(head) \in Nat /\ Len(head) <= LOGSIZE
        /\ tail # Len(head) => tail < Len(head)
    <3>1. tail \in Nat /\ tail <= Len(head) /\ Len(head) \in Nat /\ Len(head) <= LOGSIZE
      BY <2>t, <1>l
    <3> QED
      BY <3>1
  <2>v. View(head[tail]) \in Vals
    BY <2>t, <1>t, <1>l DEF View, TypeOK
  <2>d. /\ dlog' \in [1 .. LOGSIZE -> Vals]
        /\ \A i \in 1 .. LOGSIZE : dlog'[i] = IF i = tail THEN View(head[tail]) ELSE dlog[i]
    BY <1>7, <2>t, <2>v, <1>t DEF WriteLog, TypeOK
  <2>m. /\ pc' \in [Procs -> PCs]
        /\ \A q \in Procs : pc'[q] = IF q # p THEN pc[q] ELSE IF tail = Len(head) THEN "whead" ELSE "wlog"
        /\ tail' = IF tail = Len(head) THEN 1 ELSE tail + 1
    BY <1>7, <1>t DEF WriteLog, TypeOK, PCs
  <2>c. Active' = {}
    BY <2>m, <2>o DEF Active, OpPCs
  <2>1. TypeOK'
    <3>1. tail' \in 1 .. LOGSIZE + 1
      <4>1. tail' = 1 \/ tail' = tail + 1
        BY <2>m
      <4> QED
        BY <4>1, <2>u, LogAssumption
    <3> QED
      BY <3>1, <2>f, <2>d, <2>m, <1>t DEF TypeOK
  <2>2. CountInv'
    BY <2>a, <2>c, <2>f, NoRoom DEF CountInv
  <2>3. PhaseInv'
    BY <2>f, <2>m, <2>x, <2>o, <1>t, <1>l, LogAssumption DEF PhaseInv, OpPCs, CommitPCs
  <2>4. HeldInv'
    BY <2>c, <2>f, <2>h, <1>t, FS_EmptySet, LogAssumption DEF HeldInv, OpPCs, Active
  <2>5. HeadInv'
    BY <2>f, <2>m, <2>x, <1>t DEF HeadInv, CommitPCs
  <2>6. RoomInv'
    <3>1. Cardinality(RoomOf(Active', Used')) = 0
      BY <2>c, NoRoom
    <3>2. Len(head') \in 0 .. LOGSIZE
      BY <2>f, <1>l
    <3> QED
      BY <3>1, <3>2, <1>l DEF RoomInv
  <2>7. TailInv'
    <3>1. \A q \in Procs : pc'[q] = "wlog" => tail < Len(head) /\ tail' = tail + 1
      <4>1. \A q \in Procs : pc'[q] = "wlog" => tail # Len(head) /\ tail' = tail + 1
        BY <2>m, <2>x
      <4> QED
        BY <4>1, <2>u
    <3>2. \A q \in Procs : pc'[q] = "whead" => tail' = 1
      BY <2>m, <2>x
    <3>3. \A q \in Procs : pc'[q] # "install"
      BY <2>m, <2>x
    <3>4. head # <<>>
      BY <2>t
    <3> QED
      BY <3>1, <3>2, <3>3, <3>4, <2>f, <2>t, <1>l DEF TailInv
  <2>8. DirtyInv'
    <3>1. dirty = Elems(head)
      BY <2>f, <2>x, <1>t DEF DirtyInv
    <3>2. \A q \in Procs : pc'[q] \notin {"install", "erase"}
      BY <2>m, <2>x
    <3> QED
      BY <3>1, <3>2, <2>f, <2>h, <1>t DEF DirtyInv, Elems
  <2>9. CleanInv'
    BY <2>f, <2>m, <2>x, <2>o, <1>t, <1>l, LogAssumption DEF CleanInv
  <2>10. LogInv'
    <3>1. \A b : View(b)' = View(b)
      BY <2>f DEF View
    <3>2. \A i \in 1 .. tail : dlog'[i] = View(head[i])
      <4>1. \A i \in 1 .. tail - 1 : dlog[i] = View(head[i])
        BY <2>f, <1>t DEF LogInv, Logged
      <4> QED
        BY <4>1, <2>t, <2>d, <1>l
    <3>3. \A q \in Procs : pc'[q] = "wlog" => tail' - 1 = tail
      BY <2>m, <2>x, <2>t
    <3>4. \A q \in Procs : pc'[q] = "whead" => tail = Len(head)
      BY <2>m, <2>x
    <3>5. \A q \in Procs : pc'[q] \notin {"install", "erase"}
      BY <2>m, <2>x
    <3>6. \A q \in Procs : pc'[q] = "wlog" => \A i \in 1 .. tail' - 1 : dlog'[i] = View(head[i])
      BY <3>2, <3>3
    <3>7. \A q \in Procs : pc'[q] = "whead" => \A i \in 1 .. Len(head) : dlog'[i] = View(head[i])
      BY <3>2, <3>4
    <3> QED
      BY <3>5, <3>6, <3>7, <2>f DEF LogInv, Logged, View
  <2> QED
    BY <2>1, <2>2, <2>3, <2>4, <2>5, <2>6, <2>7, <2>8, <2>9, <2>10 DEF IInv
<1>8. ASSUME NEW p \in Procs, Commit(p) PROVE IInv'
  <2>f. /\ pc[p] = "whead" /\ boot = "up" /\ committing
        /\ UNCHANGED <<cache, dirty, head, outstanding, committing, held, wrote, tail, disk, dlog, boot, panicked, crashes>>
    BY <1>8, <1>t DEF Commit, Running, memVars, procVars, diskVars, sysVars, PhaseInv, CommitPCs
  <2>o. /\ \A q \in Procs : pc[q] \notin OpPCs
        /\ \A q \in Procs \ {p} : pc[q] \notin CommitPCs
    BY <2>f, <1>t DEF PhaseInv, CommitPCs
  <2>x. /\ pc[p] \in CommitPCs
        /\ \A q \in Procs : pc[q] \in {"idle", "asleep"} \/ q = p
    BY <2>f, <2>o, <1>t DEF TypeOK, PCs, OpPCs, CommitPCs
  <2>h. \A q \in Procs : held[q] = NoBlock /\ wrote[q] = {}
    BY <2>o, <1>t DEF HeldInv, OpPCs
  <2>a. Active = {} /\ outstanding = 0
    BY <2>o, <1>t, NoRoom DEF Active, CountInv
  <2>t. tail = 1 /\ Len(head) \in 1 .. LOGSIZE
    BY <2>f, <1>t, <1>l, EmptySeq DEF TailInv, TypeOK
  <2>m. /\ pc' \in [Procs -> PCs] /\ dhead' = head
        /\ \A q \in Procs : pc'[q] = IF q # p THEN pc[q] ELSE "install"
    BY <1>8, <1>t DEF Commit, TypeOK, PCs
  <2>c. Active' = {}
    BY <2>m, <2>o DEF Active, OpPCs
  <2>1. TypeOK'
    BY <2>f, <2>m, <2>x, <2>o, <1>t, <1>l, LogAssumption DEF TypeOK, PCs
  <2>2. CountInv'
    BY <2>a, <2>c, <2>f, NoRoom DEF CountInv
  <2>3. PhaseInv'
    BY <2>f, <2>m, <2>x, <2>o, <1>t, <1>l, LogAssumption DEF PhaseInv, OpPCs, CommitPCs
  <2>4. HeldInv'
    BY <2>c, <2>f, <2>h, <1>t, FS_EmptySet, LogAssumption DEF HeldInv, OpPCs, Active
  <2>5. HeadInv'
    BY <2>f, <2>m, <2>x, <1>t, <1>l DEF HeadInv, Distinct, CommitPCs
  <2>6. RoomInv'
    <3>1. Cardinality(RoomOf(Active', Used')) = 0
      BY <2>c, NoRoom
    <3>2. Len(head') \in 0 .. LOGSIZE
      BY <2>f, <1>l
    <3> QED
      BY <3>1, <3>2, <1>l DEF RoomInv
  <2>7. TailInv'
    BY <2>f, <2>m, <2>x, <2>t DEF TailInv
  <2>8. DirtyInv'
    <3>1. dirty = Elems(head)
      BY <2>f, <2>x, <1>t DEF DirtyInv
    <3>2. dirty = {head[i] : i \in tail .. Len(head)}
      BY <3>1, <2>t, <1>l DEF Elems
    <3>3. \A q \in Procs : pc'[q] # "erase"
      BY <2>m, <2>x
    <3>4. pc'[p] = "install"
      BY <2>m
    <3> QED
      BY <3>2, <3>3, <3>4, <2>f, <2>h, <1>t DEF DirtyInv
  <2>9. CleanInv'
    BY <2>f, <2>m, <2>x, <2>o, <1>t, <1>l, LogAssumption DEF CleanInv
  <2>10. LogInv'
    <3>1. Logged(Len(head)) /\ tail - 1 = 0
      BY <2>f, <2>t, <1>t DEF LogInv
    <3>2. \A q \in Procs : pc'[q] \notin {"wlog", "whead", "erase"}
      BY <2>m, <2>x
    <3> QED
      BY <3>1, <3>2, <2>f DEF LogInv, Logged, Installed, View
  <2> QED
    BY <2>1, <2>2, <2>3, <2>4, <2>5, <2>6, <2>7, <2>8, <2>9, <2>10 DEF IInv
<1>9. ASSUME NEW p \in Procs, InstallTrans(p) PROVE IInv'
  <2>f. /\ pc[p] = "install" /\ boot = "up" /\ committing
        /\ UNCHANGED <<head, outstanding, committing, held, wrote, dlog, dhead, boot, panicked, crashes>>
    BY <1>9, <1>t DEF InstallTrans, Running, memVars, procVars, diskVars, sysVars, PhaseInv, CommitPCs
  <2>o. /\ \A q \in Procs : pc[q] \notin OpPCs
        /\ \A q \in Procs \ {p} : pc[q] \notin CommitPCs
    BY <2>f, <1>t DEF PhaseInv, CommitPCs
  <2>x. /\ pc[p] \in CommitPCs
        /\ \A q \in Procs : pc[q] \in {"idle", "asleep"} \/ q = p
    BY <2>f, <2>o, <1>t DEF TypeOK, PCs, OpPCs, CommitPCs
  <2>h. \A q \in Procs : held[q] = NoBlock /\ wrote[q] = {}
    BY <2>o, <1>t DEF HeldInv, OpPCs
  <2>a. Active = {} /\ outstanding = 0
    BY <2>o, <1>t, NoRoom DEF Active, CountInv
  <2>t. tail \in 1 .. Len(head) /\ Len(head) \in 1 .. LOGSIZE /\ tail \in 1 .. LOGSIZE
    BY <2>f, <1>t, <1>l DEF TailInv
  <2>u. /\ tail \in Nat /\ tail <= Len(head) /\ Len(head) \in Nat /\ Len(head) <= LOGSIZE
        /\ tail # Len(head) => tail < Len(head)
    <3>1. tail \in Nat /\ tail <= Len(head) /\ Len(head) \in Nat /\ Len(head) <= LOGSIZE
      BY <2>t, <1>l
    <3> QED
      BY <3>1
  <2>b. PICK b \in Blocks, v \in Vals : b = head[tail] /\ v = dlog[tail]
    BY <2>t, <1>t, <1>l DEF TypeOK
  <2>d. /\ disk' = [disk EXCEPT ![b] = v] /\ cache' = [cache EXCEPT ![b] = v] /\ dirty' = dirty \ {b}
    BY <1>9, <2>b DEF InstallTrans, InstallBlock
  <2>e. /\ \A c \in Blocks : disk'[c] = IF c = b THEN v ELSE disk[c]
        /\ \A c \in Blocks : cache'[c] = IF c = b THEN v ELSE cache[c]
    BY <2>d, <1>t DEF TypeOK
  <2>m. /\ pc' \in [Procs -> PCs]
        /\ \A q \in Procs : pc'[q] = IF q # p THEN pc[q] ELSE IF tail = Len(head) THEN "erase" ELSE "install"
        /\ tail' = IF tail = Len(head) THEN 1 ELSE tail + 1
    BY <1>9, <1>t DEF InstallTrans, TypeOK, PCs
  <2>n. /\ \A q \in Procs : pc'[q] \notin {"wlog", "whead"}
        /\ \A q \in Procs : pc'[q] = "install" => tail < Len(head) /\ tail' = tail + 1
        /\ \A q \in Procs : pc'[q] = "erase" => tail = Len(head)
    <3>1. /\ \A q \in Procs : pc'[q] \notin {"wlog", "whead"}
          /\ \A q \in Procs : pc'[q] = "install" => tail # Len(head) /\ tail' = tail + 1
          /\ \A q \in Procs : pc'[q] = "erase" => tail = Len(head)
      BY <2>m, <2>x
    <3> QED
      BY <3>1, <2>u
  <2>i. \A i \in 1 .. Len(head) : head[i] \in Blocks /\ (head[i] = b <=> i = tail)
    BY <2>b, <2>t, <1>l, <1>t DEF HeadInv, Distinct, TypeOK
  <2>c. Active' = {}
    BY <2>m, <2>o DEF Active, OpPCs
  <2>1. TypeOK'
    <3>1. tail' \in 1 .. LOGSIZE + 1
      <4>1. tail' = 1 \/ tail' = tail + 1
        BY <2>m
      <4> QED
        BY <4>1, <2>u, LogAssumption
    <3> QED
      BY <3>1, <2>f, <2>d, <2>m, <1>t DEF TypeOK
  <2>2. CountInv'
    BY <2>a, <2>c, <2>f, NoRoom DEF CountInv
  <2>3. PhaseInv'
    BY <2>f, <2>m, <2>x, <2>o, <1>t, <1>l, LogAssumption DEF PhaseInv, OpPCs, CommitPCs
  <2>4. HeldInv'
    BY <2>c, <2>f, <2>h, <1>t, FS_EmptySet, LogAssumption DEF HeldInv, OpPCs, Active
  <2>5. HeadInv'
    <3>1. head = dhead /\ pc'[p] \in {"install", "erase"} /\ committing'
      BY <2>f, <2>m, <1>t DEF HeadInv
    <3>2. \A q \in Procs : pc'[q] # "done"
      BY <2>m, <2>x
    <3> QED
      BY <3>1, <3>2, <2>f, <1>t DEF HeadInv, Distinct
  <2>6. RoomInv'
    <3>1. Cardinality(RoomOf(Active', Used')) = 0
      BY <2>c, NoRoom
    <3>2. Len(head') \in 0 .. LOGSIZE
      BY <2>f, <1>l
    <3> QED
      BY <3>1, <3>2, <1>l DEF RoomInv
  <2>7. TailInv'
    <3>1. \A q \in Procs : pc'[q] = "install" => tail' \in 1 .. Len(head)
      BY <2>n, <2>u
    <3> QED
      BY <3>1, <2>n, <2>f DEF TailInv
  <2>8. DirtyInv'
    <3>1. dirty = {head[i] : i \in tail .. Len(head)}
      BY <2>f, <1>t DEF DirtyInv
    <3>2. dirty' = {head[i] : i \in tail + 1 .. Len(head)}
      BY <3>1, <2>d, <2>i, <2>t, <1>l
    <3>3. tail = Len(head) => dirty' = {}
      BY <3>2, <2>t, <1>l
    <3>4. \A c \in dirty' : cache'[c] # NoVal
      BY <2>d, <2>e, <1>t DEF DirtyInv, TypeOK
    <3>5. pc'[p] \in {"install", "erase"}
      BY <2>m
    <3>6. \A q \in Procs : held'[q] = NoBlock
      BY <2>f, <2>h
    <3>7. \A q \in Procs : pc'[q] = "install" => dirty' = {head[i] : i \in tail' .. Len(head)}
      BY <3>2, <2>n
    <3>8. \A q \in Procs : pc'[q] = "erase" => dirty' = {}
      BY <3>3, <2>n
    <3> QED
      BY <3>4, <3>5, <3>6, <3>7, <3>8, <2>f DEF DirtyInv
  <2>9. CleanInv'
    BY <2>f, <2>d, <2>e, <2>h, <1>t DEF CleanInv
  <2>10. LogInv'
    <3>1. /\ \A i \in 1 .. Len(head) : dlog[i] = View(head[i])
          /\ \A i \in 1 .. tail - 1 : disk[head[i]] = dlog[i]
      BY <2>f, <1>t DEF LogInv, Logged, Installed
    <3>2. \A i \in 1 .. Len(head) : dlog[i] = View(head[i])'
      <4> SUFFICES ASSUME NEW i \in 1 .. Len(head) PROVE dlog[i] = View(head[i])'
        OBVIOUS
      <4>1. CASE i = tail
        BY <4>1, <2>b, <2>e, <2>f, <2>i DEF View
      <4>2. CASE i # tail
        <5>1. head[i] \in Blocks /\ head[i] # b
          BY <4>2, <2>i
        <5>2. View(head[i])' = View(head[i])
          BY <5>1, <2>e, <2>f DEF View
        <5> QED
          BY <5>2, <3>1
      <4> QED
        BY <4>1, <4>2
    <3>3. \A i \in 1 .. tail : disk'[head[i]] = dlog[i]
      BY <3>1, <2>b, <2>e, <2>i, <2>t, <1>l
    <3>4. \A q \in Procs : pc'[q] = "install" => \A i \in 1 .. tail' - 1 : disk'[head[i]] = dlog[i]
      BY <3>3, <2>n, <2>t
    <3>5. \A q \in Procs : pc'[q] = "erase" => \A i \in 1 .. Len(head) : disk'[head[i]] = dlog[i]
      BY <3>3, <2>n
    <3> QED
      BY <3>2, <3>4, <3>5, <2>n, <2>f DEF LogInv, Logged, Installed, View
  <2> QED
    BY <2>1, <2>2, <2>3, <2>4, <2>5, <2>6, <2>7, <2>8, <2>9, <2>10 DEF IInv
<1>10. ASSUME NEW p \in Procs, Erase(p) PROVE IInv'
  <2>f. /\ pc[p] = "erase" /\ boot = "up" /\ committing
        /\ UNCHANGED <<cache, dirty, outstanding, committing, held, wrote, tail, disk, dlog, boot, panicked, crashes>>
    BY <1>10, <1>t DEF Erase, Running, memVars, procVars, diskVars, sysVars, PhaseInv, CommitPCs
  <2>o. /\ \A q \in Procs : pc[q] \notin OpPCs
        /\ \A q \in Procs \ {p} : pc[q] \notin CommitPCs
    BY <2>f, <1>t DEF PhaseInv, CommitPCs
  <2>x. /\ pc[p] \in CommitPCs
        /\ \A q \in Procs : pc[q] \in {"idle", "asleep"} \/ q = p
    BY <2>f, <2>o, <1>t DEF TypeOK, PCs, OpPCs, CommitPCs
  <2>h. \A q \in Procs : held[q] = NoBlock /\ wrote[q] = {}
    BY <2>o, <1>t DEF HeldInv, OpPCs
  <2>a. Active = {} /\ outstanding = 0
    BY <2>o, <1>t, NoRoom DEF Active, CountInv
  <2>m. /\ pc' \in [Procs -> PCs] /\ head' = <<>> /\ dhead' = <<>>
        /\ \A q \in Procs : pc'[q] = IF q # p THEN pc[q] ELSE "done"
    BY <1>10, <1>t DEF Erase, TypeOK, PCs
  <2>n. \A q \in Procs : pc'[q] \notin {"wlog", "whead", "install", "erase"}
    BY <2>m, <2>x
  <2>s. head' \in Seq(Blocks) /\ dhead' \in Seq(Blocks) /\ Len(head') = 0 /\ Len(dhead') = 0
    BY <2>m
  <2>c. Active' = {}
    BY <2>m, <2>o DEF Active, OpPCs
  <2>1. TypeOK'
    BY <2>f, <2>m, <2>s, <1>t DEF TypeOK
  <2>2. CountInv'
    BY <2>a, <2>c, <2>f, NoRoom DEF CountInv
  <2>3. PhaseInv'
    BY <2>f, <2>m, <2>x, <2>o, <1>t, <1>l, LogAssumption DEF PhaseInv, OpPCs, CommitPCs
  <2>4. HeldInv'
    BY <2>c, <2>f, <2>h, <1>t, FS_EmptySet, LogAssumption DEF HeldInv, OpPCs, Active
  <2>5. HeadInv'
    BY <2>f, <2>m, <2>n, <2>s, <1>l DEF HeadInv, Distinct
  <2>6. RoomInv'
    <3>1. Cardinality(RoomOf(Active', Used')) = 0
      BY <2>c, NoRoom
    <3>2. Len(head') \in 0 .. LOGSIZE
      BY <2>s, <1>l
    <3> QED
      BY <3>1, <3>2, <1>l DEF RoomInv
  <2>7. TailInv'
    BY <2>n, <2>f DEF TailInv
  <2>8. DirtyInv'
    <3>1. dirty = {} /\ Elems(<<>>) = {}
      BY <2>f, <1>t DEF DirtyInv, Elems
    <3> QED
      BY <3>1, <2>f, <2>m, <2>n, <2>h DEF DirtyInv, Elems
  <2>9. CleanInv'
    BY <2>f, <2>m, <2>x, <2>o, <1>t, <1>l, LogAssumption DEF CleanInv
  <2>10. LogInv'
    BY <2>n, <2>f DEF LogInv
  <2> QED
    BY <2>1, <2>2, <2>3, <2>4, <2>5, <2>6, <2>7, <2>8, <2>9, <2>10 DEF IInv
<1>11. ASSUME NEW p \in Procs, EndCommit(p) PROVE IInv'
  <2>f. /\ pc[p] = "done" /\ boot = "up" /\ committing
        /\ UNCHANGED <<cache, dirty, head, outstanding, held, wrote, tail, disk, dlog, dhead, boot, panicked, crashes>>
    BY <1>11, <1>t DEF EndCommit, Running, memVars, procVars, diskVars, sysVars, PhaseInv, CommitPCs
  <2>o. /\ \A q \in Procs : pc[q] \notin OpPCs
        /\ \A q \in Procs \ {p} : pc[q] \notin CommitPCs
    BY <2>f, <1>t DEF PhaseInv, CommitPCs
  <2>x. /\ pc[p] \in CommitPCs
        /\ \A q \in Procs : pc[q] \in {"idle", "asleep"} \/ q = p
    BY <2>f, <2>o, <1>t DEF TypeOK, PCs, OpPCs, CommitPCs
  <2>h. \A q \in Procs : held[q] = NoBlock /\ wrote[q] = {}
    BY <2>o, <1>t DEF HeldInv, OpPCs
  <2>a. Active = {} /\ outstanding = 0
    BY <2>o, <1>t, NoRoom DEF Active, CountInv
  <2>m. /\ pc' \in [Procs -> PCs] /\ committing' = FALSE
        /\ \A q \in Procs : pc'[q] = "idle"
    <3>1. /\ [pc EXCEPT ![p] = "idle"] \in [Procs -> PCs]
          /\ \A q \in Procs : [pc EXCEPT ![p] = "idle"][q] \in {"idle", "asleep"}
      BY <2>x, <1>t DEF TypeOK, PCs
    <3> QED
      BY <1>11, <3>1, AwakeTyped DEF EndCommit
  <2>n. head = <<>> /\ dhead = <<>>
    BY <2>f, <2>x, <1>t DEF HeadInv
  <2>c. Active' = {}
    BY <2>m, <2>o DEF Active, OpPCs
  <2>1. TypeOK'
    BY <2>f, <2>m, <2>x, <2>o, <2>n, <1>t, <1>l, LogAssumption DEF TypeOK, PCs
  <2>2. CountInv'
    BY <2>a, <2>c, <2>f, NoRoom DEF CountInv
  <2>3. PhaseInv'
    BY <2>f, <2>m, <2>x, <2>o, <2>n, <1>t, <1>l, LogAssumption DEF PhaseInv, OpPCs, CommitPCs
  <2>4. HeldInv'
    BY <2>c, <2>f, <2>h, <1>t, FS_EmptySet, LogAssumption DEF HeldInv, OpPCs, Active
  <2>5. HeadInv'
    BY <2>f, <2>m, <2>x, <2>o, <2>n, <1>t, <1>l, LogAssumption DEF HeadInv, Distinct, OpPCs, CommitPCs
  <2>6. RoomInv'
    <3>1. Cardinality(RoomOf(Active', Used')) = 0
      BY <2>c, NoRoom
    <3>2. Len(head') \in 0 .. LOGSIZE
      BY <2>f, <1>l
    <3> QED
      BY <3>1, <3>2, <1>l DEF RoomInv
  <2>7. TailInv'
    BY <2>f, <2>m, <2>x, <2>o, <2>n, <1>t, <1>l, LogAssumption DEF TailInv
  <2>8. DirtyInv'
    <3>1. dirty = Elems(head)
      BY <2>f, <2>x, <1>t DEF DirtyInv
    <3> QED
      BY <3>1, <2>f, <2>m, <2>h, <1>t DEF DirtyInv, Elems
  <2>9. CleanInv'
    BY <2>f, <2>m, <2>x, <2>o, <2>n, <1>t, <1>l, LogAssumption DEF CleanInv
  <2>10. LogInv'
    BY <2>m, <2>f DEF LogInv
  <2> QED
    BY <2>1, <2>2, <2>3, <2>4, <2>5, <2>6, <2>7, <2>8, <2>9, <2>10 DEF IInv
<1>12. ASSUME NEW b \in Blocks, Evict(b) PROVE IInv'
  <2>f. /\ boot = "up" /\ cache[b] # NoVal /\ b \notin dirty /\ (\A q \in Procs : held[q] # b)
        /\ cache' = [cache EXCEPT ![b] = NoVal]
        /\ UNCHANGED <<dirty, head, outstanding, committing, pc, held, wrote, tail, disk, dlog, dhead, boot, panicked, crashes>>
    BY <1>12 DEF Evict, Running, Unpinned, procVars, diskVars, sysVars
  <2>e. \A c \in Blocks : cache'[c] = IF c = b THEN NoVal ELSE cache[c]
    BY <2>f, <1>t DEF TypeOK
  <2>a. Active' = Active /\ Used' = Used
    BY <2>f DEF Active, Used, Elems
  <2>v. \A c \in Blocks : View(c)' = View(c)
    BY <2>f, <2>e, <1>t, LogAssumption DEF View, CleanInv, TypeOK
  <2>i. \A j \in 1 .. Len(head) : head[j] \in Blocks
    BY <1>l, <1>t DEF TypeOK
  <2>w. \A j \in 1 .. Len(head) : View(head[j])' = View(head[j])
    BY <2>f, <2>v, <2>i DEF View
  <2>n. Len(head) \in Nat /\ ((\E q \in Procs : pc[q] = "wlog") => tail - 1 \in 0 .. Len(head))
    BY <1>l, <1>t DEF TailInv
  <2>1. TypeOK'
    BY <2>f, <1>t DEF TypeOK
  <2>2. CountInv'
    BY <2>a, <2>f, <1>t DEF CountInv
  <2>3. PhaseInv'
    BY <2>f, <2>e, <1>t, <1>l, LogAssumption DEF PhaseInv, OpPCs, CommitPCs
  <2>4. HeldInv'
    BY <2>f, <2>e, <1>t, <1>l, LogAssumption DEF HeldInv, OpPCs, Elems
  <2>5. HeadInv'
    BY <2>f, <2>e, <1>t, <1>l, LogAssumption DEF HeadInv, Distinct, OpPCs, CommitPCs
  <2>6. RoomInv'
    BY <2>a, <2>f, <1>t DEF RoomInv
  <2>7. TailInv'
    BY <2>f, <2>e, <1>t, <1>l, LogAssumption DEF TailInv
  <2>8. DirtyInv'
    <3>1. \A c \in dirty : c \in Blocks /\ cache'[c] # NoVal
      BY <2>f, <2>e, <1>t, LogAssumption DEF DirtyInv, TypeOK
    <3>2. \A q \in Procs : held[q] # NoBlock => cache'[held[q]] # NoVal
      BY <2>f, <2>e, <1>t, LogAssumption DEF DirtyInv, TypeOK
    <3> QED
      BY <3>1, <3>2, <2>f, <1>t DEF DirtyInv, Elems
  <2>9. CleanInv'
    BY <2>f, <2>e, <1>t, <1>l, LogAssumption DEF CleanInv
  <2>10. LogInv'
    <3>1. \A q \in Procs : pc[q] = "wlog" => \A j \in 1 .. tail - 1 : dlog[j] = View(head[j])'
      <4>1. (\E q \in Procs : pc[q] = "wlog") => \A j \in 1 .. tail - 1 : j \in 1 .. Len(head)
        BY <2>n, <1>t DEF TypeOK
      <4> QED
        BY <4>1, <2>w, <1>t DEF LogInv, Logged
    <3>2. \A q \in Procs : pc[q] \in {"whead", "install", "erase"} => \A j \in 1 .. Len(head) : dlog[j] = View(head[j])'
      BY <2>w, <1>t DEF LogInv, Logged
    <3> QED
      BY <3>1, <3>2, <2>f, <1>t DEF LogInv, Logged, Installed, View
  <2> QED
    BY <2>1, <2>2, <2>3, <2>4, <2>5, <2>6, <2>7, <2>8, <2>9, <2>10 DEF IInv
<1>13. ASSUME NEW b \in Blocks, ReadBlock(b) PROVE IInv'
  <2>f. /\ boot = "up" /\ cache[b] = NoVal
        /\ cache' = [cache EXCEPT ![b] = disk[b]]
        /\ UNCHANGED <<dirty, head, outstanding, committing, pc, held, wrote, tail, disk, dlog, dhead, boot, panicked, crashes>>
    BY <1>13 DEF ReadBlock, Running, Unpinned, procVars, diskVars, sysVars
  <2>e. \A c \in Blocks : cache'[c] = IF c = b THEN disk[b] ELSE cache[c]
    BY <2>f, <1>t DEF TypeOK
  <2>a. Active' = Active /\ Used' = Used
    BY <2>f DEF Active, Used, Elems
  <2>v. \A c \in Blocks : View(c)' = View(c)
    BY <2>f, <2>e, <1>t, LogAssumption DEF View, CleanInv, TypeOK
  <2>i. \A j \in 1 .. Len(head) : head[j] \in Blocks
    BY <1>l, <1>t DEF TypeOK
  <2>w. \A j \in 1 .. Len(head) : View(head[j])' = View(head[j])
    BY <2>f, <2>v, <2>i DEF View
  <2>n. Len(head) \in Nat /\ ((\E q \in Procs : pc[q] = "wlog") => tail - 1 \in 0 .. Len(head))
    BY <1>l, <1>t DEF TailInv
  <2>1. TypeOK'
    BY <2>f, <1>t DEF TypeOK
  <2>2. CountInv'
    BY <2>a, <2>f, <1>t DEF CountInv
  <2>3. PhaseInv'
    BY <2>f, <2>e, <1>t, <1>l, LogAssumption DEF PhaseInv, OpPCs, CommitPCs
  <2>4. HeldInv'
    BY <2>f, <2>e, <1>t, <1>l, LogAssumption DEF HeldInv, OpPCs, Elems
  <2>5. HeadInv'
    BY <2>f, <2>e, <1>t, <1>l, LogAssumption DEF HeadInv, Distinct, OpPCs, CommitPCs
  <2>6. RoomInv'
    BY <2>a, <2>f, <1>t DEF RoomInv
  <2>7. TailInv'
    BY <2>f, <2>e, <1>t, <1>l, LogAssumption DEF TailInv
  <2>8. DirtyInv'
    <3>1. \A c \in dirty : c \in Blocks /\ cache'[c] # NoVal
      BY <2>f, <2>e, <1>t, LogAssumption DEF DirtyInv, TypeOK
    <3>2. \A q \in Procs : held[q] # NoBlock => cache'[held[q]] # NoVal
      BY <2>f, <2>e, <1>t, LogAssumption DEF DirtyInv, TypeOK
    <3> QED
      BY <3>1, <3>2, <2>f, <1>t DEF DirtyInv, Elems
  <2>9. CleanInv'
    BY <2>f, <2>e, <1>t DEF CleanInv
  <2>10. LogInv'
    <3>1. \A q \in Procs : pc[q] = "wlog" => \A j \in 1 .. tail - 1 : dlog[j] = View(head[j])'
      <4>1. (\E q \in Procs : pc[q] = "wlog") => \A j \in 1 .. tail - 1 : j \in 1 .. Len(head)
        BY <2>n, <1>t DEF TypeOK
      <4> QED
        BY <4>1, <2>w, <1>t DEF LogInv, Logged
    <3>2. \A q \in Procs : pc[q] \in {"whead", "install", "erase"} => \A j \in 1 .. Len(head) : dlog[j] = View(head[j])'
      BY <2>w, <1>t DEF LogInv, Logged
    <3> QED
      BY <3>1, <3>2, <2>f, <1>t DEF LogInv, Logged, Installed, View
  <2> QED
    BY <2>1, <2>2, <2>3, <2>4, <2>5, <2>6, <2>7, <2>8, <2>9, <2>10 DEF IInv
<1>14. ASSUME Crash PROVE IInv'
  <2>f. /\ boot' = "rhead" /\ panicked' = FALSE /\ crashes < MaxCrashes /\ crashes' = crashes + 1
        /\ cache' = [b \in Blocks |-> NoVal] /\ dirty' = {} /\ head' = <<>>
        /\ outstanding' = 0 /\ committing' = FALSE /\ tail' = 1
        /\ pc' = [p \in Procs |-> "idle"] /\ held' = [p \in Procs |-> NoBlock] /\ wrote' = [p \in Procs |-> {}]
        /\ UNCHANGED <<disk, dlog, dhead>>
    BY <1>14 DEF Crash, Reset, diskVars
  <2>m. /\ \A q \in Procs : pc'[q] = "idle" /\ held'[q] = NoBlock /\ wrote'[q] = {}
        /\ \A b \in Blocks : cache'[b] = NoVal
    BY <2>f
  <2>s. Len(head') = 0
    BY <2>f
  <2>c. Active' = {}
    BY <2>m DEF Active, OpPCs
  <2>1. TypeOK'
    <3>1. tail' \in 1 .. LOGSIZE + 1 /\ crashes' \in 0 .. MaxCrashes /\ head' \in Seq(Blocks)
      BY <2>f, <1>t, LogAssumption DEF TypeOK
    <3> QED
      BY <3>1, <2>f, <1>t DEF TypeOK, PCs
  <2>2. CountInv'
    BY <2>f, <2>c, NoRoom DEF CountInv
  <2>3. PhaseInv'
    BY <2>f, <2>m, <2>s, <1>t, <1>l, LogAssumption DEF PhaseInv, OpPCs, CommitPCs
  <2>4. HeldInv'
    BY <2>m, FS_EmptySet, LogAssumption DEF HeldInv
  <2>5. HeadInv'
    BY <2>f, <2>m, <1>t DEF HeadInv, Distinct
  <2>6. RoomInv'
    <3>1. Cardinality(RoomOf(Active', Used')) = 0
      BY <2>c, NoRoom
    <3> QED
      BY <3>1, <2>s, <1>l DEF RoomInv
  <2>7. TailInv'
    BY <2>f, <2>m, <2>s, <1>t, <1>l, LogAssumption DEF TailInv
  <2>8. DirtyInv'
    BY <2>f, <2>m, <2>s, <1>t, <1>l, LogAssumption DEF DirtyInv, Elems
  <2>9. CleanInv'
    BY <2>f, <2>m, <2>s, <1>t, <1>l, LogAssumption DEF CleanInv
  <2>10. LogInv'
    BY <2>f, <2>m, <2>s, <1>t, <1>l, LogAssumption DEF LogInv, Logged, Installed, View, CommitPCs
  <2> QED
    BY <2>1, <2>2, <2>3, <2>4, <2>5, <2>6, <2>7, <2>8, <2>9, <2>10 DEF IInv
<1>15. ASSUME RecoverHead PROVE IInv'
  <2>b. boot = "rhead"
    BY <1>15 DEF RecoverHead
  <2>f. /\ head' = dhead /\ tail' = 1
        /\ boot' = IF dhead = <<>> THEN "rerase" ELSE "rinstall"
        /\ UNCHANGED <<cache, dirty, outstanding, committing, pc, held, wrote, disk, dlog, dhead, panicked, crashes>>
    BY <1>15 DEF RecoverHead, diskVars
  <2>i. ~ committing /\ (\A q \in Procs : pc[q] = "idle") /\ dirty = {}
    BY <2>b, <1>t DEF PhaseInv, DirtyInv
  <2>h. \A q \in Procs : held[q] = NoBlock /\ wrote[q] = {}
    BY <2>i, <1>t DEF HeldInv, OpPCs
  <2>c. Active = {} /\ Active' = {}
    BY <2>f, <2>i DEF Active, OpPCs
  <2>1. TypeOK'
    <3>1. tail' \in 1 .. LOGSIZE + 1
      BY <2>f, LogAssumption
    <3> QED
      BY <3>1, <2>f, <1>t DEF TypeOK
  <2>2. CountInv'
    BY <2>c, <2>f, <1>t DEF CountInv
  <2>3. PhaseInv'
    BY <2>f, <2>i DEF PhaseInv, OpPCs, CommitPCs
  <2>4. HeldInv'
    BY <2>f, <2>h, <2>i, <1>t, FS_EmptySet, LogAssumption DEF HeldInv
  <2>5. HeadInv'
    BY <2>f, <2>i, <2>h, <1>t, <1>l, LogAssumption DEF HeadInv, Distinct, OpPCs, CommitPCs
  <2>6. RoomInv'
    <3>1. Cardinality(RoomOf(Active', Used')) = 0
      BY <2>c, NoRoom
    <3>2. Len(head') \in 0 .. LOGSIZE
      BY <2>f, <1>l
    <3> QED
      BY <3>1, <3>2, <1>l DEF RoomInv
  <2>7. TailInv'
    <3>1. dhead # <<>> => Len(dhead) \in Nat \ {0}
      BY <1>t, EmptySeq DEF TypeOK
    <3> QED
      BY <3>1, <2>f, <2>i DEF TailInv
  <2>8. DirtyInv'
    BY <2>f, <2>i, <2>h DEF DirtyInv
  <2>9. CleanInv'
    BY <2>f, <2>i, <2>h, <1>t, <1>l, LogAssumption DEF CleanInv
  <2>10. LogInv'
    <3>1. dhead = <<>> => Len(dhead) = 0
      OBVIOUS
    <3> QED
      BY <3>1, <2>f, <2>i DEF LogInv, Installed
  <2> QED
    BY <2>1, <2>2, <2>3, <2>4, <2>5, <2>6, <2>7, <2>8, <2>9, <2>10 DEF IInv
<1>16. ASSUME RecoverInstall PROVE IInv'
  <2>b. boot = "rinstall"
    BY <1>16 DEF RecoverInstall
  <2>f. UNCHANGED <<head, outstanding, committing, pc, held, wrote, dlog, dhead, panicked, crashes>>
    BY <1>16 DEF RecoverInstall
  <2>i. ~ committing /\ (\A q \in Procs : pc[q] = "idle") /\ dirty = {}
    BY <2>b, <1>t DEF PhaseInv, DirtyInv
  <2>h. \A q \in Procs : held[q] = NoBlock /\ wrote[q] = {}
    BY <2>i, <1>t DEF HeldInv, OpPCs
  <2>c. Active = {} /\ Active' = {}
    BY <2>f, <2>i DEF Active, OpPCs
  <2>t. tail \in 1 .. Len(head) /\ Len(head) \in 1 .. LOGSIZE /\ tail \in 1 .. LOGSIZE
    BY <2>b, <1>t, <1>l DEF TailInv
  <2>u. /\ tail \in Nat /\ tail <= Len(head) /\ Len(head) \in Nat /\ Len(head) <= LOGSIZE
        /\ tail # Len(head) => tail < Len(head)
    <3>1. tail \in Nat /\ tail <= Len(head) /\ Len(head) \in Nat /\ Len(head) <= LOGSIZE
      BY <2>t, <1>l
    <3> QED
      BY <3>1
  <2>k. PICK b \in Blocks, v \in Vals : b = head[tail] /\ v = dlog[tail]
    BY <2>t, <1>t, <1>l DEF TypeOK
  <2>d. /\ disk' = [disk EXCEPT ![b] = v] /\ cache' = [cache EXCEPT ![b] = v] /\ dirty' = dirty \ {b}
    BY <1>16, <2>k DEF RecoverInstall, InstallBlock
  <2>e. /\ \A c \in Blocks : disk'[c] = IF c = b THEN v ELSE disk[c]
        /\ \A c \in Blocks : cache'[c] = IF c = b THEN v ELSE cache[c]
    BY <2>d, <1>t DEF TypeOK
  <2>m. /\ tail' = IF tail = Len(head) THEN 1 ELSE tail + 1
        /\ boot' = IF tail = Len(head) THEN "rerase" ELSE "rinstall"
    BY <1>16 DEF RecoverInstall
  <2>s. \A i \in 1 .. Len(head) : head[i] \in Blocks /\ (head[i] = b <=> i = tail)
    BY <2>k, <2>t, <1>l, <1>t DEF HeadInv, Distinct, TypeOK
  <2>1. TypeOK'
    <3>1. tail' \in 1 .. LOGSIZE + 1
      BY <2>m, <2>u, LogAssumption
    <3> QED
      BY <3>1, <2>f, <2>d, <2>m, <1>t DEF TypeOK
  <2>2. CountInv'
    BY <2>c, <2>f, <1>t DEF CountInv
  <2>3. PhaseInv'
    BY <2>f, <2>i, <2>m DEF PhaseInv, OpPCs, CommitPCs
  <2>4. HeldInv'
    BY <2>f, <2>h, <2>i, <1>t, FS_EmptySet, LogAssumption DEF HeldInv
  <2>5. HeadInv'
    BY <2>b, <2>f, <2>i, <2>m, <1>t DEF HeadInv, Distinct
  <2>6. RoomInv'
    <3>1. Cardinality(RoomOf(Active', Used')) = 0
      BY <2>c, NoRoom
    <3>2. Len(head') \in 0 .. LOGSIZE
      BY <2>f, <1>l
    <3> QED
      BY <3>1, <3>2, <1>l DEF RoomInv
  <2>7. TailInv'
    <3>1. boot' = "rinstall" => tail' \in 1 .. Len(head)
      BY <2>m, <2>u
    <3> QED
      BY <3>1, <2>f, <2>i DEF TailInv
  <2>8. DirtyInv'
    BY <2>d, <2>f, <2>i, <2>h, <2>m DEF DirtyInv
  <2>9. CleanInv'
    BY <2>f, <2>d, <2>e, <2>h, <2>i, <1>t DEF CleanInv
  <2>10. LogInv'
    <3>1. \A i \in 1 .. tail - 1 : disk[head[i]] = dlog[i]
      BY <2>b, <1>t DEF LogInv, Installed
    <3>2. \A i \in 1 .. tail : disk'[head[i]] = dlog[i]
      BY <3>1, <2>k, <2>e, <2>s, <2>t, <2>u
    <3>3. boot' = "rinstall" => \A i \in 1 .. tail' - 1 : disk'[head[i]] = dlog[i]
      BY <3>2, <2>m, <2>u
    <3>4. boot' = "rerase" => \A i \in 1 .. Len(head) : disk'[head[i]] = dlog[i]
      BY <3>2, <2>m
    <3> QED
      BY <3>3, <3>4, <2>f, <2>i DEF LogInv, Installed
  <2> QED
    BY <2>1, <2>2, <2>3, <2>4, <2>5, <2>6, <2>7, <2>8, <2>9, <2>10 DEF IInv
<1>17. ASSUME RecoverErase PROVE IInv'
  <2>b. boot = "rerase"
    BY <1>17 DEF RecoverErase
  <2>f. /\ head' = <<>> /\ dhead' = <<>> /\ boot' = "up"
        /\ UNCHANGED <<cache, dirty, outstanding, committing, pc, held, wrote, tail, disk, dlog, panicked, crashes>>
    BY <1>17 DEF RecoverErase, procVars
  <2>i. ~ committing /\ (\A q \in Procs : pc[q] = "idle") /\ dirty = {}
    BY <2>b, <1>t DEF PhaseInv, DirtyInv
  <2>h. \A q \in Procs : held[q] = NoBlock /\ wrote[q] = {}
    BY <2>i, <1>t DEF HeldInv, OpPCs
  <2>c. Active = {} /\ Active' = {}
    BY <2>f, <2>i DEF Active, OpPCs
  <2>s. /\ head' \in Seq(Blocks) /\ dhead' \in Seq(Blocks) /\ Len(head') = 0 /\ Len(dhead') = 0
        /\ Elems(head') = {}
    BY <2>f DEF Elems
  <2>1. TypeOK'
    BY <2>f, <2>s, <1>t DEF TypeOK
  <2>2. CountInv'
    BY <2>c, <2>f, <1>t DEF CountInv
  <2>3. PhaseInv'
    BY <2>f, <2>i DEF PhaseInv, OpPCs, CommitPCs
  <2>4. HeldInv'
    BY <2>f, <2>h, <2>i, <1>t, FS_EmptySet, LogAssumption DEF HeldInv
  <2>5. HeadInv'
    BY <2>f, <2>i, <2>s, <1>l DEF HeadInv, Distinct
  <2>6. RoomInv'
    <3>1. Cardinality(RoomOf(Active', Used')) = 0
      BY <2>c, NoRoom
    <3>2. Len(head') \in 0 .. LOGSIZE
      BY <2>s, <1>l
    <3> QED
      BY <3>1, <3>2, <1>l DEF RoomInv
  <2>7. TailInv'
    BY <2>f, <2>i, <2>h, <1>t, <1>l, LogAssumption DEF TailInv
  <2>8. DirtyInv'
    BY <2>f, <2>i, <2>h, <2>s DEF DirtyInv
  <2>9. CleanInv'
    BY <2>f, <2>i, <2>h, <1>t, <1>l, LogAssumption DEF CleanInv
  <2>10. LogInv'
    BY <2>f, <2>i DEF LogInv
  <2> QED
    BY <2>1, <2>2, <2>3, <2>4, <2>5, <2>6, <2>7, <2>8, <2>9, <2>10 DEF IInv
<1>18. CASE UNCHANGED vars
  <2>f. UNCHANGED <<cache, dirty, head, outstanding, committing, pc, held, wrote, tail, disk, dlog, dhead, boot, panicked, crashes>>
    BY <1>18 DEF vars, memVars, procVars, diskVars, sysVars
  <2>a. Active' = Active /\ Used' = Used
    BY <2>f DEF Active, Used, Elems
  <2> QED
    BY <2>f, <2>a, <1>t DEF IInv, TypeOK, CountInv, PhaseInv, HeldInv, HeadInv, RoomInv, TailInv, DirtyInv, CleanInv,
                            LogInv, Logged, Installed, View, Elems
<1> QED
  BY <1>1, <1>2, <1>3, <1>4, <1>5, <1>6, <1>7, <1>8, <1>9, <1>10, <1>11, <1>12, <1>13, <1>14, <1>15, <1>16, <1>17, <1>18 DEF Next, OpStep, CommitStep, Recover

-----------------------------------------------------------------------------
(* The invariant holds in every reachable state, of logs and calls of any  *)
(* size and after any number of crashes.                                   *)
THEOREM Invariant == Spec => []IInv
<1>1. Init => IInv
  BY InitIInv
<1>2. IInv /\ [Next]_vars => IInv'
  BY StepIInv
<1> QED
  BY <1>1, <1>2, PTL DEF Spec

(* log.lh never outgrows the log, although log_write() makes its check     *)
(* before it takes log.lock: the reservation of begin_op() is enough.  And *)
(* who sleeps in begin_op() has a call in progress or a commit to wake it. *)
THEOREM NoLostWakeup == Spec => [](SleepersHaveWaker /\ Len(head) <= LOGSIZE)
<1>1. IInv => SleepersHaveWaker /\ Len(head) <= LOGSIZE
  <2> SUFFICES ASSUME IInv PROVE SleepersHaveWaker /\ Len(head) <= LOGSIZE
    OBVIOUS
  <2>1. TypeOK /\ CountInv /\ PhaseInv
    BY DEF IInv
  <2>2. ASSUME NEW q \in Procs, pc[q] \in OpPCs PROVE outstanding > 0
    <3>1. Active # {} /\ Active \in SUBSET Procs
      BY <2>2 DEF Active
    <3>2. outstanding \in Nat /\ outstanding # 0
      BY <3>1, <2>1, SomeProcs, FS_EmptySet DEF CountInv
    <3> QED
      BY <3>2
  <2>3. SleepersHaveWaker
    BY <2>1, <2>2 DEF SleepersHaveWaker, PhaseInv
  <2>4. Len(head) <= LOGSIZE
    BY HeadFits DEF IInv
  <2> QED
    BY <2>3, <2>4
<1> QED
  BY <1>1, Invariant, PTL

(* The next transaction is written to the log only after the header on the *)
(* disk has been erased.                                                   *)
THEOREM NotReused == Spec => []LogNotReused
<1>1. IInv => LogNotReused
  BY DEF IInv, HeadInv, PhaseInv, CommitPCs, LogNotReused
<1> QED
  BY <1>1, Invariant, PTL

(* The write-ahead rule: commit() and recovery write a home location only  *)
(* while the header on the disk names it.                                  *)
THEOREM WritesAhead == Spec => WriteAhead
<1>1. ASSUME IInv, [Next]_vars
      PROVE  [\A b \in Blocks : disk'[b] # disk[b] => b \in Elems(dhead)]_vars
  <2>t. TypeOK /\ HeadInv /\ TailInv /\ RoomInv
    BY <1>1 DEF IInv
  <2>1. ASSUME InstallBlock(head[tail], dlog[tail]), head = dhead, tail \in 1 .. Len(head)
        PROVE  \A b \in Blocks : disk'[b] # disk[b] => b \in Elems(dhead)
    <3>1. tail \in DOMAIN head
      BY <2>1, <2>t, HeadFits
    <3> QED
      BY <2>1, <3>1, <2>t DEF InstallBlock, Elems, TypeOK
  <2>2. ASSUME NEW p \in Procs, InstallTrans(p)
        PROVE  \A b \in Blocks : disk'[b] # disk[b] => b \in Elems(dhead)
    BY <2>1, <2>2, <2>t DEF InstallTrans, HeadInv, TailInv
  <2>3. ASSUME RecoverInstall
        PROVE  \A b \in Blocks : disk'[b] # disk[b] => b \in Elems(dhead)
    BY <2>1, <2>3, <2>t DEF RecoverInstall, HeadInv, TailInv
  <2>4. ASSUME \/ \E p \in Procs :
                    \/ BeginOp(p) \/ BeginSleep(p) \/ OpStep(p) \/ WriteLog(p) \/ Commit(p) \/ Erase(p) \/ EndCommit(p)
                    \/ \E b \in Blocks, v \in Vals : Change(p, b, v)
               \/ \E b \in Blocks : Evict(b) \/ ReadBlock(b)
               \/ RecoverHead \/ RecoverErase \/ Crash
        PROVE  disk' = disk
    BY <2>4 DEF BeginOp, BeginSleep, OpStep, LogWriteCheck, LogWrite, EndOp, WriteLog, Commit, Erase, EndCommit,
                Change, Evict, ReadBlock, RecoverHead, RecoverErase, Crash, diskVars
  <2> QED
    BY <1>1, <2>2, <2>3, <2>4 DEF Next, CommitStep, Recover
<1> QED
  BY <1>1, Invariant, PTL DEF Spec, WriteAhead

-----------------------------------------------------------------------------
(* Refinement.  What is read while the system runs, and after a crash.     *)
Mem(b) == IF boot = "up" THEN View(b) ELSE AfterReboot(b)

SameMem == \A b \in Blocks : Mem(b)' = Mem(b)
SameDisk == \A b \in Blocks : AfterReboot(b)' = AfterReboot(b)

RebootAt(H, L, D, b) ==
  IF b \in Elems(H) THEN L[CHOOSE i \in DOMAIN H : H[i] = b] ELSE D[b]

LEMMA RebootOf ==
  ASSUME NEW H, Distinct(H), NEW L, NEW D, NEW b
  PROVE  /\ \A i \in DOMAIN H : H[i] = b => RebootAt(H, L, D, b) = L[i]
         /\ b \notin Elems(H) => RebootAt(H, L, D, b) = D[b]
<1>1. ASSUME NEW i \in DOMAIN H, H[i] = b PROVE RebootAt(H, L, D, b) = L[i]
  <2>1. (CHOOSE j \in DOMAIN H : H[j] = b) = i
    BY <1>1 DEF Distinct
  <2>2. b \in Elems(H)
    BY <1>1 DEF Elems
  <2> QED
    BY <2>1, <2>2 DEF RebootAt
<1>2. b \notin Elems(H) => RebootAt(H, L, D, b) = D[b]
  BY DEF RebootAt
<1> QED
  BY <1>1, <1>2

(* Recovery takes the contents of the log for the blocks the header names, *)
(* before a step ...                                                       *)
LEMMA RebootRead ==
  ASSUME IInv
  PROVE  /\ DOMAIN dhead = 1 .. Len(dhead)
         /\ \A i \in 1 .. Len(dhead) : dhead[i] \in Blocks /\ AfterReboot(dhead[i]) = dlog[i]
         /\ \A b \in Blocks : b \in Elems(dhead) => \E i \in 1 .. Len(dhead) : b = dhead[i]
         /\ \A b \in Blocks : b \notin Elems(dhead) => AfterReboot(b) = disk[b]
<1>0. Distinct(dhead) /\ DOMAIN dhead = 1 .. Len(dhead) /\ dhead \in Seq(Blocks)
  BY DEF IInv, HeadInv, TypeOK
<1>1. \A b : AfterReboot(b) = RebootAt(dhead, dlog, disk, b)
  BY DEF AfterReboot, RebootAt
<1>2. \A i \in 1 .. Len(dhead) : AfterReboot(dhead[i]) = dlog[i]
  BY <1>0, <1>1, RebootOf
<1>3. \A b \in Blocks : b \notin Elems(dhead) => AfterReboot(b) = disk[b]
  BY <1>0, <1>1, RebootOf
<1> QED
  BY <1>0, <1>2, <1>3 DEF Elems

(* ... and after it.                                                       *)
LEMMA RebootReadNext ==
  ASSUME IInv'
  PROVE  /\ \A b \in Blocks, i \in 1 .. Len(dhead') : dhead'[i] = b => AfterReboot(b)' = dlog'[i]
         /\ \A b \in Blocks : b \notin Elems(dhead') => AfterReboot(b)' = disk'[b]
<1>0. Distinct(dhead') /\ DOMAIN dhead' = 1 .. Len(dhead')
  BY DEF IInv, HeadInv, TypeOK, Distinct
<1>1. \A b : AfterReboot(b)' = RebootAt(dhead', dlog', disk', b)
  BY DEF AfterReboot, RebootAt, Elems
<1> QED
  BY <1>0, <1>1, RebootOf

LEMMA Stutters ==
  ASSUME SameMem, SameDisk, Active' = Active
  PROVE  UNCHANGED Atomic!avars
BY DEF SameMem, SameDisk, Mem, Atomic!avars, Active, OpPCs

(* Steps that touch neither the disk nor the cache.                        *)
LEMMA SameBoth ==
  ASSUME UNCHANGED <<cache, disk, dlog, dhead, boot>>
  PROVE  SameMem /\ SameDisk
BY DEF SameMem, SameDisk, Mem, View, AfterReboot, Elems

LEMMA BeginsCall ==
  ASSUME IInv, NEW p \in Procs, BeginOp(p)
  PROVE  Atomic!ABegin(p)
<1>1. UNCHANGED <<cache, disk, dlog, dhead, boot>> /\ pc[p] = "idle"
  BY DEF BeginOp, diskVars, sysVars
<1>2. \A q \in Procs : pc'[q] = IF q = p THEN "op" ELSE pc[q]
  BY DEF BeginOp, IInv, TypeOK
<1>3. /\ p \notin {q \in Procs : pc[q] \in {"op", "changed", "append"}}
      /\ {q \in Procs : pc'[q] \in {"op", "changed", "append"}}
           = {q \in Procs : pc[q] \in {"op", "changed", "append"}} \cup {p}
  BY <1>1, <1>2
<1> QED
  BY <1>1, <1>3, SameBoth DEF Atomic!ABegin, SameMem, SameDisk, Mem

LEMMA EndsCall ==
  ASSUME IInv, NEW p \in Procs, EndOp(p)
  PROVE  Atomic!AEnd(p)
<1>1. UNCHANGED <<cache, disk, dlog, dhead, boot>> /\ pc[p] = "op"
  BY DEF EndOp, diskVars, sysVars
<1>2. pc \in [Procs -> PCs]
  BY DEF IInv, TypeOK
<1>3. /\ pc'[p] \in {"done", "wlog", "idle"}
      /\ \A q \in Procs \ {p} : pc'[q] = pc[q] \/ (pc[q] = "asleep" /\ pc'[q] = "idle")
  <2>1. CASE pc' = [pc EXCEPT ![p] = IF head = <<>> THEN "done" ELSE "wlog"]
    BY <2>1, <1>2
  <2>2. CASE pc' = Awake([pc EXCEPT ![p] = "idle"])
    <3>1. /\ [pc EXCEPT ![p] = "idle"] \in [Procs -> PCs]
          /\ \A q \in Procs : [pc EXCEPT ![p] = "idle"][q] = IF q = p THEN "idle" ELSE pc[q]
      BY <1>2 DEF PCs
    <3> QED
      BY <2>2, <3>1, AwakeTyped
  <2> QED
    BY <2>1, <2>2 DEF EndOp
<1>4. /\ p \in {q \in Procs : pc[q] \in {"op", "changed", "append"}}
      /\ {q \in Procs : pc'[q] \in {"op", "changed", "append"}}
           = {q \in Procs : pc[q] \in {"op", "changed", "append"}} \ {p}
  BY <1>1, <1>3
<1> QED
  BY <1>1, <1>4, SameBoth DEF Atomic!AEnd, SameMem, SameDisk, Mem

(* A call changes what the others read, and nothing a crash would restore. *)
LEMMA ChangeWrites ==
  ASSUME IInv, NEW p \in Procs, NEW b \in Blocks, NEW v \in Vals, Change(p, b, v)
  PROVE  Atomic!AWrite(p, b, v)
<1>1. UNCHANGED <<disk, dlog, dhead, boot>> /\ pc[p] = "op" /\ boot = "up"
  BY DEF Change, Running, diskVars, sysVars
<1>2. /\ \A q \in Procs : pc'[q] = IF q = p THEN "changed" ELSE pc[q]
      /\ \A c \in Blocks : cache'[c] = IF c = b THEN v ELSE cache[c]
  BY DEF Change, IInv, TypeOK
<1>3. /\ p \in {q \in Procs : pc[q] \in {"op", "changed", "append"}}
      /\ {q \in Procs : pc'[q] \in {"op", "changed", "append"}}
           = {q \in Procs : pc[q] \in {"op", "changed", "append"}}
  BY <1>1, <1>2
<1>4. SameDisk
  BY <1>1 DEF SameDisk, AfterReboot, Elems
<1>5. \A c \in Blocks : Mem(c)' = IF c = b THEN v ELSE Mem(c)
  BY <1>1, <1>2, LogAssumption DEF Mem, View
<1> QED
  BY <1>3, <1>4, <1>5 DEF Atomic!AWrite, SameDisk, Mem

(* write_log() writes what no header names.                                *)
LEMMA WriteLogStutters ==
  ASSUME IInv, NEW p \in Procs, WriteLog(p)
  PROVE  SameMem /\ SameDisk
<1>1. UNCHANGED <<cache, disk, dhead, boot>> /\ pc[p] = "wlog" /\ boot = "up"
  BY DEF WriteLog, Running, memVars, sysVars
<1>2. dhead = <<>>
  BY <1>1 DEF IInv, HeadInv, PhaseInv, CommitPCs
<1>3. \A b : b \notin Elems(dhead)
  BY <1>2 DEF Elems
<1> QED
  BY <1>1, <1>3 DEF SameMem, SameDisk, Mem, View, AfterReboot, Elems

(* The first write_head() of commit(): from now on a crash restores what   *)
(* is read at this moment.                                                 *)
LEMMA CommitCommits ==
  ASSUME IInv, IInv', NEW p \in Procs, Commit(p)
  PROVE  Atomic!ACommit
<1>t. TypeOK /\ PhaseInv /\ HeldInv /\ HeadInv /\ DirtyInv /\ CleanInv /\ LogInv /\ RoomInv
  BY DEF IInv
<1>1. /\ UNCHANGED <<cache, disk, dlog, boot, head>> /\ dhead' = head
      /\ pc[p] = "whead" /\ boot = "up" /\ pc' = [pc EXCEPT ![p] = "install"]
  BY DEF Commit, Running, memVars, sysVars
<1>2. \A q \in Procs : pc[q] \notin {"op", "changed", "append"}
  BY <1>1, <1>t DEF PhaseInv, CommitPCs, OpPCs
<1>3. \A q \in Procs : pc'[q] = IF q = p THEN "install" ELSE pc[q]
  BY <1>1, <1>t DEF TypeOK
<1>4. /\ {q \in Procs : pc[q] \in {"op", "changed", "append"}} = {}
      /\ {q \in Procs : pc'[q] \in {"op", "changed", "append"}} = {}
  BY <1>2, <1>3
<1>5. SameMem
  BY <1>1 DEF SameMem, Mem, View
<1>6. dirty = Elems(head)
  <2>1. \A q \in Procs : pc[q] \notin {"install", "erase"}
    BY <1>1, <1>t DEF PhaseInv, CommitPCs
  <2> QED
    BY <2>1, <1>1, <1>t DEF DirtyInv
<1>7. \A q \in Procs : held[q] = NoBlock
  BY <1>2, <1>t DEF HeldInv
<1>8. DOMAIN head = 1 .. Len(head)
  BY <1>t, HeadFits
<1>9. \A b \in Blocks : AfterReboot(b)' = View(b)
  <2> SUFFICES ASSUME NEW b \in Blocks PROVE AfterReboot(b)' = View(b)
    OBVIOUS
  <2>1. CASE b \in Elems(head)
    <3>1. PICK i \in 1 .. Len(head) : head[i] = b
      BY <2>1, <1>8 DEF Elems
    <3>2. dlog[i] = View(b)
      BY <3>1, <1>1, <1>t DEF LogInv, Logged
    <3> QED
      BY <3>1, <3>2, <1>1, RebootReadNext
  <2>2. CASE b \notin Elems(head)
    <3>1. AfterReboot(b)' = disk[b]
      BY <2>2, <1>1, RebootReadNext
    <3>2. View(b) = disk[b]
      BY <2>2, <1>6, <1>7, <1>t, LogAssumption DEF View, CleanInv
    <3> QED
      BY <3>1, <3>2
  <2> QED
    BY <2>1, <2>2
<1>10. \A b \in Blocks : Mem(b) = View(b)
  BY <1>1 DEF Mem
<1> QED
  BY <1>4, <1>5, <1>9, <1>10 DEF Atomic!ACommit, SameMem, Mem

(* install_trans() writes the contents that are read anyway, to locations  *)
(* the header names.                                                       *)
LEMMA InstallSameDisk ==
  ASSUME IInv, IInv', InstallBlock(head[tail], dlog[tail]), head = dhead, tail \in 1 .. Len(head),
         UNCHANGED <<dhead, dlog>>
  PROVE  SameDisk
<1>t. TypeOK
  BY DEF IInv
<1> SUFFICES ASSUME NEW b \in Blocks PROVE AfterReboot(b)' = AfterReboot(b)
  BY DEF SameDisk
<1>1. CASE b \in Elems(dhead)
  <2>1. PICK i \in 1 .. Len(dhead) : b = dhead[i]
    BY <1>1, RebootRead
  <2>2. AfterReboot(b) = dlog[i]
    BY <2>1, RebootRead
  <2>3. AfterReboot(b)' = dlog'[i]
    BY <2>1, RebootReadNext
  <2> QED
    BY <2>2, <2>3
<1>2. CASE b \notin Elems(dhead)
  <2>1. tail \in DOMAIN dhead
    BY RebootRead
  <2>2. b # head[tail]
    BY <2>1, <1>2 DEF Elems
  <2>3. disk'[b] = disk[b]
    BY <2>2, <1>t DEF InstallBlock, TypeOK
  <2>4. Elems(dhead') = Elems(dhead)
    BY DEF Elems
  <2> QED
    BY <1>2, <2>3, <2>4, RebootRead, RebootReadNext
<1> QED
  BY <1>1, <1>2

LEMMA InstallStutters ==
  ASSUME IInv, IInv', NEW p \in Procs, InstallTrans(p)
  PROVE  SameMem /\ SameDisk
<1>t. TypeOK /\ HeadInv /\ TailInv /\ LogInv
  BY DEF IInv
<1>1. /\ UNCHANGED <<head, dlog, dhead, boot>> /\ boot = "up"
      /\ InstallBlock(head[tail], dlog[tail])
      /\ head = dhead /\ tail \in 1 .. Len(head)
  BY <1>t DEF InstallTrans, Running, sysVars, HeadInv, TailInv
<1>2. SameDisk
  BY <1>1, InstallSameDisk
<1>3. PICK b \in Blocks, v \in Vals : b = head[tail] /\ v = dlog[tail]
  <2>1. tail \in 1 .. LOGSIZE /\ tail \in DOMAIN head
    BY <1>1, <1>t, RebootRead, HeadFits DEF IInv
  <2> QED
    BY <2>1, <1>1, <1>t DEF TypeOK
<1>4. v = View(b)
  BY <1>1, <1>3, <1>t DEF LogInv, Logged, InstallTrans
<1>5. SameMem
  <2>1. \A c \in Blocks : cache'[c] = (IF c = b THEN v ELSE cache[c]) /\ disk'[c] = IF c = b THEN v ELSE disk[c]
    BY <1>1, <1>3, <1>t DEF InstallBlock, TypeOK
  <2> QED
    BY <2>1, <1>1, <1>4, LogAssumption DEF SameMem, Mem, View
<1> QED
  BY <1>2, <1>5

(* When the header is erased, the home locations have the contents of the  *)
(* log.                                                                    *)
LEMMA EraseSameDisk ==
  ASSUME IInv, IInv', head = dhead, Installed(Len(head)), disk' = disk, dhead' = <<>>
  PROVE  SameDisk /\ \A b \in Blocks : AfterReboot(b)' = disk[b]
<1>1. \A b : b \notin Elems(dhead')
  BY DEF Elems
<1>2. \A b \in Blocks : AfterReboot(b)' = disk[b]
  BY <1>1, RebootReadNext
<1>3. \A b \in Blocks : AfterReboot(b) = disk[b]
  <2> SUFFICES ASSUME NEW b \in Blocks PROVE AfterReboot(b) = disk[b]
    OBVIOUS
  <2>1. CASE b \in Elems(dhead)
    <3>1. PICK i \in 1 .. Len(dhead) : b = dhead[i]
      BY <2>1, RebootRead
    <3>2. disk[b] = dlog[i]
      BY <3>1 DEF Installed
    <3> QED
      BY <3>1, <3>2, RebootRead
  <2>2. CASE b \notin Elems(dhead)
    BY <2>2, RebootRead
  <2> QED
    BY <2>1, <2>2
<1> QED
  BY <1>2, <1>3 DEF SameDisk

LEMMA EraseStutters ==
  ASSUME IInv, IInv', NEW p \in Procs, Erase(p)
  PROVE  SameMem /\ SameDisk
<1>1. UNCHANGED <<cache, disk, boot>> /\ boot = "up" /\ dhead' = <<>> /\ pc[p] = "erase"
  BY DEF Erase, Running, sysVars
<1>2. head = dhead /\ Installed(Len(head))
  BY <1>1 DEF IInv, HeadInv, LogInv
<1>3. SameDisk
  BY <1>1, <1>2, EraseSameDisk
<1> QED
  BY <1>1, <1>3 DEF SameMem, Mem, View

(* Recovery does not change what it restores; ...                          *)
LEMMA RecoverStutters ==
  ASSUME IInv, IInv', Recover
  PROVE  SameMem /\ SameDisk
<1>t. /\ HeadInv /\ TailInv /\ LogInv /\ PhaseInv /\ HeldInv /\ DirtyInv /\ CleanInv
  BY DEF IInv
<1>1. CASE RecoverHead
  <2>1. UNCHANGED <<disk, dlog, dhead>> /\ boot # "up" /\ boot' # "up"
    BY <1>1 DEF RecoverHead, diskVars
  <2>2. SameDisk
    BY <2>1 DEF SameDisk, AfterReboot, Elems
  <2> QED
    BY <2>1, <2>2 DEF SameMem, SameDisk, Mem
<1>2. CASE RecoverInstall
  <2>1. boot # "up" /\ boot' # "up" /\ UNCHANGED <<dlog, dhead>>
    BY <1>2 DEF RecoverInstall
  <2>2. InstallBlock(head[tail], dlog[tail]) /\ head = dhead /\ tail \in 1 .. Len(head)
    BY <1>2, <1>t DEF RecoverInstall, HeadInv, TailInv
  <2>3. SameDisk
    BY <2>1, <2>2, InstallSameDisk
  <2> QED
    BY <2>1, <2>3 DEF SameMem, SameDisk, Mem
<1>3. CASE RecoverErase
  <2>1. boot = "rerase" /\ boot' = "up" /\ UNCHANGED <<cache, disk>> /\ dhead' = <<>>
    BY <1>3 DEF RecoverErase
  <2>2. head = dhead /\ Installed(Len(head))
    BY <2>1, <1>t DEF HeadInv, LogInv
  <2>3. SameDisk /\ \A b \in Blocks : AfterReboot(b)' = disk[b]
    BY <2>1, <2>2, EraseSameDisk
  <2>4. \A b \in Blocks : View(b)' = disk[b]
    <3>1. dirty = {} /\ \A q \in Procs : pc[q] = "idle"
      BY <2>1, <1>t DEF DirtyInv, PhaseInv
    <3>2. \A q \in Procs : held[q] = NoBlock
      BY <3>1, <1>t DEF HeldInv
    <3>3. \A b \in Blocks : cache[b] # NoVal => cache[b] = disk[b]
      BY <3>1, <3>2, <1>t, LogAssumption DEF CleanInv
    <3> QED
      BY <3>3, <2>1 DEF View
  <2> QED
    BY <2>1, <2>3, <2>4 DEF SameMem, SameDisk, Mem
<1> QED
  BY <1>1, <1>2, <1>3 DEF Recover

(* ... a crash takes memory back to it.                                    *)
LEMMA CrashCrashes ==
  ASSUME Crash
  PROVE  Atomic!ACrash
<1>1. UNCHANGED <<disk, dlog, dhead>> /\ boot' = "rhead" /\ pc' = [p \in Procs |-> "idle"]
  BY DEF Crash, Reset, diskVars
<1>2. SameDisk
  BY <1>1 DEF SameDisk, AfterReboot, Elems
<1>3. \A b \in Blocks : Mem(b)' = AfterReboot(b)
  BY <1>1, <1>2 DEF SameDisk, Mem
<1>4. {q \in Procs : pc'[q] \in {"op", "changed", "append"}} = {}
  BY <1>1
<1> QED
  BY <1>2, <1>3, <1>4 DEF Atomic!ACrash, SameDisk, Mem

(* The block cache drops and reads only what the disk has.                 *)
LEMMA CacheStutters ==
  ASSUME IInv, NEW b \in Blocks, Evict(b) \/ ReadBlock(b)
  PROVE  SameMem /\ SameDisk
<1>1. /\ UNCHANGED <<disk, dlog, dhead, boot>> /\ boot = "up"
      /\ \/ /\ cache' = [cache EXCEPT ![b] = NoVal] /\ cache[b] = disk[b]
         \/ /\ cache' = [cache EXCEPT ![b] = disk[b]] /\ cache[b] = NoVal
  BY DEF Evict, ReadBlock, Running, Unpinned, diskVars, sysVars, IInv, CleanInv
<1>2. \A c \in Blocks : View(c)' = View(c)
  BY <1>1, LogAssumption DEF View, IInv, TypeOK
<1>3. SameDisk
  BY <1>1 DEF SameDisk, AfterReboot, Elems
<1> QED
  BY <1>1, <1>2, <1>3 DEF SameMem, Mem

LEMMA OthersStutter ==
  ASSUME IInv, NEW p \in Procs, BeginSleep(p) \/ LogWriteCheck(p) \/ LogWrite(p) \/ EndCommit(p)
  PROVE  UNCHANGED Atomic!avars
<1>1. UNCHANGED <<cache, disk, dlog, dhead, boot>> /\ pc \in [Procs -> PCs]
  BY DEF BeginSleep, LogWriteCheck, LogWrite, EndCommit, memVars, diskVars, sysVars, IInv, TypeOK
<1>2. \A q \in Procs : pc'[q] \in OpPCs <=> pc[q] \in OpPCs
  <2>1. CASE BeginSleep(p) \/ LogWriteCheck(p) \/ LogWrite(p)
    BY <2>1, <1>1 DEF BeginSleep, LogWriteCheck, LogWrite, OpPCs
  <2>2. CASE EndCommit(p)
    <3>1. /\ [pc EXCEPT ![p] = "idle"] \in [Procs -> PCs]
          /\ \A q \in Procs : [pc EXCEPT ![p] = "idle"][q] = IF q = p THEN "idle" ELSE pc[q]
      BY <1>1 DEF PCs
    <3>2. pc[p] = "done" /\ pc' = Awake([pc EXCEPT ![p] = "idle"])
      BY <2>2 DEF EndCommit
    <3> QED
      BY <3>1, <3>2, AwakeTyped DEF OpPCs
  <2> QED
    BY <2>1, <2>2
<1> QED
  BY <1>1, <1>2, SameBoth, Stutters DEF Active

(* begin_op() to end_op(), by any number of processes, with the commits,   *)
(* the block cache, crashes at any step and recovery, are the steps of a   *)
(* disk on which groups of calls take effect all or none.                  *)
THEOREM DiskRefinement == Spec => ImplementsAtomicDisk
<1>1. Init => Atomic!AInit
  <2> SUFFICES ASSUME Init PROVE Atomic!AInit
    OBVIOUS
  <2>1. \A b \in Blocks : AfterReboot(b) = InitVal
    BY DEF Init, AfterReboot, Elems
  <2>2. boot = "rhead" /\ {p \in Procs : pc[p] \in {"op", "changed", "append"}} = {}
    BY DEF Init
  <2> QED
    BY <2>1, <2>2 DEF Atomic!AInit
<1>2. ASSUME IInv, [Next]_vars PROVE [Atomic!ANext]_(Atomic!avars)
  <2>0. IInv'
    BY <1>2, StepIInv
  <2>1. ASSUME NEW p \in Procs, BeginOp(p) \/ EndOp(p) PROVE Atomic!ANext
    BY <1>2, <2>1, BeginsCall, EndsCall DEF Atomic!ANext
  <2>2. ASSUME NEW p \in Procs, NEW b \in Blocks, NEW v \in Vals, Change(p, b, v) PROVE Atomic!ANext
    BY <1>2, <2>2, ChangeWrites DEF Atomic!ANext
  <2>3. ASSUME NEW p \in Procs, BeginSleep(p) \/ LogWriteCheck(p) \/ LogWrite(p) \/ EndCommit(p)
        PROVE  UNCHANGED Atomic!avars
    BY <1>2, <2>3, OthersStutter
  <2>4. ASSUME NEW p \in Procs, Commit(p) PROVE Atomic!ANext
    BY <1>2, <2>0, <2>4, CommitCommits DEF Atomic!ANext
  <2>5. ASSUME NEW p \in Procs, WriteLog(p) \/ InstallTrans(p) \/ Erase(p) PROVE UNCHANGED Atomic!avars
    <3>1. SameMem /\ SameDisk
      BY <1>2, <2>0, <2>5, WriteLogStutters, InstallStutters, EraseStutters
    <3>2. \A q \in Procs : pc'[q] \in OpPCs <=> pc[q] \in OpPCs
      BY <1>2, <2>5 DEF WriteLog, InstallTrans, Erase, OpPCs, IInv, TypeOK
    <3> QED
      BY <3>1, <3>2, Stutters DEF Active
  <2>6. ASSUME NEW b \in Blocks, Evict(b) \/ ReadBlock(b) PROVE UNCHANGED Atomic!avars
    <3>1. pc' = pc
      BY <2>6 DEF Evict, ReadBlock, procVars
    <3> QED
      BY <1>2, <2>6, <3>1, CacheStutters, Stutters DEF Active
  <2>7. ASSUME Recover PROVE UNCHANGED Atomic!avars
    <3>1. pc' = pc
      BY <2>7 DEF Recover, RecoverHead, RecoverInstall, RecoverErase, procVars
    <3> QED
      BY <1>2, <2>0, <2>7, <3>1, RecoverStutters, Stutters DEF Active
  <2>8. ASSUME Crash PROVE Atomic!ANext
    BY <2>8, CrashCrashes DEF Atomic!ANext
  <2>9. CASE UNCHANGED vars
    <3>1. UNCHANGED <<cache, disk, dlog, dhead, boot, pc>>
      BY <2>9 DEF vars, memVars, procVars, diskVars, sysVars
    <3> QED
      BY <3>1, SameBoth, Stutters DEF Active
  <2> QED
    BY <1>2, <2>1, <2>2, <2>3, <2>4, <2>5, <2>6, <2>7, <2>8, <2>9 DEF Next, OpStep, CommitStep
<1> QED
  BY Invariant, <1>1, <1>2, PTL DEF Spec, ImplementsAtomicDisk, Atomic!ASpec
=============================================================================
