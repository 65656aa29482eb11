---------------------------- MODULE LotteryProofs ----------------------------
(***************************************************************************)
(* For any numbers of CPUs, processes and tickets: the draw is even; the   *)
(* winner holds the ticket that was drawn; and after the winner a pass of  *)
(* the lottery scheduler leaves out nobody who is RUNNABLE.                *)
(*                                                                         *)
(* IInv says how a CPU comes to its winner: what it counts fits the range  *)
(* of the generator (CountInv); in its pass it has ptable.lock, so nobody  *)
(* it has passed comes, goes or changes tickets (LockInv, RunInv); the     *)
(* tickets it has passed are those of the RUNNABLE processes in front of   *)
(* its slot (PassedInv); and the draw is forgotten when the winner gives   *)
(* back the CPU (Forgotten).                                               *)
(***************************************************************************)
EXTENDS Lottery, FiniteSetTheorems, TLAPS

(* lottery_total_tickets and passed_tickets, as far as the loops have come. *)
CountInv ==
  \A c \in CPUs :
    /\ pc[c] \in {"count", "run"} => slot[c] \in Slots
    /\ pc[c] \in {"draw", "acquire"} => slot[c] = 1
    /\ pc[c] = "count" => chance[c] = 0 /\ total[c] <= (slot[c] - 1) * MaxTicket
    /\ pc[c] \in {"count", "draw", "acquire"} => passed[c] = 0
    /\ pc[c] = "pass" => passed[c] <= (slot[c] - 1) * MaxTicket

LockInv == \A c \in CPUs : pc[c] = "pass" => lock = c

(* Each CPU runs a process of its own.                                     *)
RunInv ==
  /\ \A c \in CPUs : pc[c] = "run" => state[slot[c]] = "RUNNING"
  /\ \A c, d \in CPUs : pc[c] = "run" /\ pc[d] = "run" /\ slot[c] = slot[d] => c = d

PassedInv ==
  \A c \in CPUs :
    pc[c] = "pass" /\ ran[c] = FALSE =>
      /\ passed[c] = TicketsBefore(slot[c])
      /\ passed[c] < chance[c] \/ passed[c] = 0

(* A CPU draws only at the start of a pass, and has no draw left in the    *)
(* rest.                                                                   *)
Forgotten ==
  \A c \in CPUs :
    /\ pc[c] \in {"count", "draw", "acquire"} => ran[c] = FALSE
    /\ pc[c] = "run" => ran[c] = TRUE
    /\ pc[c] = "pass" /\ ran[c] = TRUE => chance[c] = 0

IInv ==
  /\ TypeOK /\ chance \in [CPUs -> Nat]
  /\ CountInv
  /\ LockInv
  /\ RunInv
  /\ PassedInv
  /\ Forgotten

-----------------------------------------------------------------------------
(* random_at_most().                                                       *)

LEMMA Division ==
  ASSUME NEW a \in Nat, NEW b \in Nat \ {0}
  PROVE  /\ a \div b \in Nat /\ a % b \in 0 .. b - 1
         /\ a = b * (a \div b) + (a % b)
OBVIOUS

LEMMA Products ==
  ASSUME NEW b \in Nat, NEW x \in Nat, NEW y \in Nat, x < y
  PROVE  b * x \in Nat /\ b * y \in Nat /\ b * x + b <= b * y
<1>1. PICK d \in Nat : y = x + 1 + d
  <2>1. y - x - 1 \in Nat /\ y = x + 1 + (y - x - 1)
    OBVIOUS
  <2> QED
    BY <2>1
<1>2. b * (x + 1 + d) = b * x + b + b * d
  OBVIOUS
<1>3. b * d \in Nat /\ b * x \in Nat
  OBVIOUS
<1> QED
  BY <1>1, <1>2, <1>3

LEMMA Quotient ==
  ASSUME NEW x \in Nat, NEW b \in Nat \ {0}, NEW v \in Nat
  PROVE  x \div b = v <=> x \in b * v .. b * v + b - 1
<1> DEFINE q == x \div b
           s == x % b
<1>1. q \in Nat /\ s \in 0 .. b - 1 /\ x = b * q + s
  BY Division
<1> HIDE DEF q, s
<1>2. b * v \in Nat /\ b * q \in Nat
  BY <1>1
<1>3. CASE q = v
  BY <1>1, <1>2, <1>3 DEF q
<1>4. CASE q < v
  <2>1. b * q + b <= b * v
    BY <1>1, <1>4, Products
  <2> QED
    BY <1>1, <1>2, <1>4, <2>1 DEF q
<1>5. CASE q > v
  <2>1. b * v + b <= b * q
    BY <1>1, <1>5, Products
  <2> QED
    BY <1>1, <1>2, <1>5, <2>1 DEF q
<1> QED
  BY <1>1, <1>3, <1>4, <1>5

(* Each value of 0 .. max has a bin of BinSize(max) values of genrand(),   *)
(* and the bins are all that is accepted.                                  *)
LEMMA Bins ==
  ASSUME NEW max \in Nat, max <= RAND_MAX, NEW v \in Nat
  PROVE  /\ v <= max => Cardinality(Giving(v, max)) = NumRand \div (max + 1)
         /\ v > max => Giving(v, max) = {}
<1> DEFINE b == NumRand \div (max + 1)
<1>1. NumRand \in Nat /\ max + 1 \in Nat \ {0} /\ NumRand >= max + 1 /\ NumRand = RAND_MAX + 1
  BY LotteryAssumption DEF NumRand
<1>2. /\ b \in Nat /\ NumRand % (max + 1) \in 0 .. max
      /\ NumRand = (max + 1) * b + (NumRand % (max + 1))
  <2>1. PICK m \in Nat \ {0} : m = max + 1
    BY <1>1
  <2>2. /\ NumRand \div m \in Nat /\ NumRand % m \in 0 .. m - 1
        /\ NumRand = m * (NumRand \div m) + (NumRand % m)
    BY <1>1, Division, Zenon
  <2>3. m - 1 = max
    BY <2>1
  <2> QED
    BY <2>1, <2>2, <2>3
<1>3. BinSize(max) = b /\ Defect(max) = NumRand % (max + 1)
  BY DEF BinSize, Defect
<1> HIDE DEF b
<1>4. b # 0
  BY <1>1, <1>2
<1>5. (max + 1) * b = b * (max + 1) /\ b * (max + 1) \in Nat /\ b * v \in Nat
  BY <1>1, <1>2
<1>6. NumRand - Defect(max) = b * (max + 1) /\ b * (max + 1) <= RAND_MAX + 1
  BY <1>1, <1>2, <1>3, <1>5
<1>7. Giving(v, max) = {x \in 0 .. RAND_MAX : b * (max + 1) > x /\ x \in b * v .. b * v + b - 1}
  BY <1>2, <1>3, <1>4, <1>6, Quotient, LotteryAssumption DEF Giving, Accepted
<1>8. CASE v <= max
  <2>1. b * v + b <= b * (max + 1)
    BY <1>1, <1>2, <1>8, Products
  <2>2. Giving(v, max) = b * v .. b * v + b - 1
    BY <1>2, <1>5, <1>6, <1>7, <2>1, LotteryAssumption
  <2>3. Cardinality(b * v .. b * v + b - 1) = b
    BY <1>2, <1>4, <1>5, FS_Interval
  <2> QED
    BY <1>8, <2>2, <2>3 DEF b
<1>9. CASE v > max
  <2>1. b * (max + 1) <= b * v
    <3>1. max + 1 = v \/ max + 1 < v
      BY <1>9
    <3>2. max + 1 < v => b * (max + 1) + b <= b * v
      BY <1>1, <1>2, Products
    <3> QED
      BY <1>2, <1>5, <3>1, <3>2
  <2> QED
    BY <1>2, <1>5, <1>7, <1>9, <2>1
<1> QED
  BY <1>8, <1>9

-----------------------------------------------------------------------------
(* Counting tickets.                                                       *)

LEMMA TicketsFinite ==
  ASSUME NEW s
  PROVE  IsFiniteSet(Tickets(s))
<1>1. IsFiniteSet(Slots) /\ IsFiniteSet(1 .. MaxTicket)
  BY FS_Interval, LotteryAssumption DEF Slots
<1>2. IsFiniteSet(Slots \X (1 .. MaxTicket))
  BY <1>1, FS_Product
<1>3. Tickets(s) \in SUBSET (Slots \X (1 .. MaxTicket))
  BY DEF Tickets
<1> QED
  BY <1>2, <1>3, FS_Subset

LEMMA NoTickets == TicketsBefore(1) = 0
<1>1. Tickets(1) = {}
  BY LotteryAssumption DEF Tickets, Slots
<1> QED
  BY <1>1, FS_EmptySet DEF TicketsBefore

LEMMA RowOfTickets ==
  ASSUME NEW p, NEW k \in Nat
  PROVE  IsFiniteSet({p} \X (1 .. k)) /\ Cardinality({p} \X (1 .. k)) = k
<1> DEFINE f == [i \in 1 .. k |-> <<p, i>>]
<1>1. f \in [1 .. k -> {p} \X (1 .. k)]
  OBVIOUS
<1>2. \A i, j \in 1 .. k : f[i] = f[j] => i = j
  OBVIOUS
<1>3. \A t \in {p} \X (1 .. k) : t[2] \in 1 .. k /\ f[t[2]] = t
  OBVIOUS
<1> HIDE DEF f
<1>4. f \in Bijection(1 .. k, {p} \X (1 .. k))
  <2>1. f \in Injection(1 .. k, {p} \X (1 .. k))
    BY <1>1, <1>2 DEF Injection, IsInjective
  <2>2. f \in Surjection(1 .. k, {p} \X (1 .. k))
    BY <1>1, <1>3 DEF Surjection
  <2> QED
    BY <2>1, <2>2 DEF Bijection
<1>5. IsFiniteSet(1 .. k) /\ Cardinality(1 .. k) = k
  BY FS_Interval
<1> QED
  BY <1>4, <1>5, FS_Bijection DEF ExistsBijection

(* passed_tickets + p->ticket                                              *)
LEMMA MoreTickets ==
  ASSUME TypeOK, NEW p \in Slots
  PROVE  TicketsBefore(p + 1) =
           TicketsBefore(p) + (IF state[p] = "RUNNABLE" THEN ticket[p] ELSE 0)
<1>1. p \in Nat /\ ticket[p] \in Nat /\ ticket[p] <= MaxTicket /\ MaxTicket \in Nat
  BY LotteryAssumption DEF TypeOK, Slots
<1>2. CASE state[p] = "RUNNABLE"
  <2> DEFINE row == {p} \X (1 .. ticket[p])
  <2>1. Tickets(p + 1) = Tickets(p) \cup row
    BY <1>1, <1>2, LotteryAssumption DEF Tickets, Slots
  <2>2. Tickets(p) \cap row = {}
    BY <1>1 DEF Tickets
  <2>3. IsFiniteSet(row) /\ Cardinality(row) = ticket[p]
    BY <1>1, RowOfTickets
  <2>4. IsFiniteSet(Tickets(p)) /\ Cardinality(Tickets(p)) \in Nat
    BY TicketsFinite, FS_CardinalityType
  <2>5. Cardinality(Tickets(p) \cup row) =
          Cardinality(Tickets(p)) + Cardinality(row) - Cardinality(Tickets(p) \cap row)
    <3> HIDE DEF row
    <3> QED
      BY <2>3, <2>4, FS_Union
  <2>6. Cardinality(Tickets(p) \cap row) = 0
    BY <2>2, FS_EmptySet
  <2> HIDE DEF row
  <2>7. Cardinality(Tickets(p) \cup row) = Cardinality(Tickets(p)) + ticket[p]
    BY <1>1, <2>3, <2>4, <2>5, <2>6
  <2> QED
    BY <1>2, <2>1, <2>7 DEF TicketsBefore
<1>3. CASE state[p] # "RUNNABLE"
  <2>1. Tickets(p + 1) = Tickets(p)
    BY <1>1, <1>3, LotteryAssumption DEF Tickets, Slots
  <2>2. Cardinality(Tickets(p)) \in Nat
    BY TicketsFinite, FS_CardinalityType
  <2> QED
    BY <1>3, <2>1, <2>2 DEF TicketsBefore
<1> QED
  BY <1>2, <1>3

(* Those who run may change: they are not counted.                         *)
LEMMA SameTickets ==
  ASSUME \A p \in Slots :
           /\ state'[p] = "RUNNABLE" <=> state[p] = "RUNNABLE"
           /\ state[p] = "RUNNABLE" => ticket'[p] = ticket[p]
  PROVE  \A s : TicketsBefore(s)' = TicketsBefore(s)
<1> SUFFICES ASSUME NEW s PROVE Tickets(s)' = Tickets(s)
  BY DEF TicketsBefore
<1> QED
  BY DEF Tickets

-----------------------------------------------------------------------------
(* The invariant.                                                          *)

(* scheduler() starts with a lottery.                                      *)
LEMMA InitIInv == Init => IInv
<1> SUFFICES ASSUME Init PROVE IInv
  OBVIOUS
<1> USE LotteryAssumption DEF Init
<1>1. NPROC * MaxTicket \in Nat
  OBVIOUS
<1>2. TypeOK /\ chance \in [CPUs -> Nat]
  BY <1>1 DEF TypeOK, Slots
<1>3. CountInv
  BY DEF CountInv, Slots
<1>4. LockInv /\ RunInv /\ PassedInv /\ Forgotten
  BY DEF LockInv, RunInv, PassedInv, Forgotten
<1> QED
  BY <1>2, <1>3, <1>4 DEF IInv

(* The tickets of all processes in front of a slot fit the generator.      *)
LEMMA Room ==
  ASSUME NEW s \in Slots
  PROVE  /\ (s - 1) * MaxTicket \in Nat
         /\ (s + 1 - 1) * MaxTicket = (s - 1) * MaxTicket + MaxTicket
         /\ (s - 1) * MaxTicket + MaxTicket <= NPROC * MaxTicket
<1>1. PICK i \in Nat : i = s - 1 /\ s + 1 - 1 = i + 1 /\ (i + 1 = NPROC \/ i + 1 < NPROC)
  <2>1. s - 1 \in Nat /\ s + 1 - 1 = (s - 1) + 1 /\ (s - 1 + 1 = NPROC \/ s - 1 + 1 < NPROC)
    BY LotteryAssumption DEF Slots
  <2> QED
    BY <2>1
<1>2. (i + 1) * MaxTicket = i * MaxTicket + MaxTicket /\ i * MaxTicket \in Nat
  BY LotteryAssumption
<1>3. i + 1 < NPROC => MaxTicket * (i + 1) + MaxTicket <= MaxTicket * NPROC
  BY LotteryAssumption, Products
<1>4. MaxTicket * (i + 1) = (i + 1) * MaxTicket /\ MaxTicket * NPROC = NPROC * MaxTicket
  BY LotteryAssumption
<1> QED
  BY <1>1, <1>2, <1>3, <1>4, LotteryAssumption

LEMMA CountStep ==
  ASSUME IInv, NEW c \in CPUs, Count(c)
  PROVE  IInv'
<1> DEFINE s == slot[c]
           k == IF state[s] = "RUNNABLE" THEN ticket[s] ELSE 0
<1>t. TypeOK /\ chance \in [CPUs -> Nat]
  BY DEF IInv
<1>1. s \in Slots /\ k \in 0 .. MaxTicket /\ total[c] \in Nat /\ total[c] <= (s - 1) * MaxTicket
  BY <1>t, LotteryAssumption DEF IInv, CountInv, Count, TypeOK, Slots
<1>2. total' = [total EXCEPT ![c] = total[c] + k]
  BY DEF Count
<1>3. total[c] + k \in 0 .. (s - 1) * MaxTicket + MaxTicket
  <2> HIDE DEF s, k
  <2> QED
    BY <1>1, Room, LotteryAssumption
<1>4. total[c] + k \in 0 .. NPROC * MaxTicket
  <2> HIDE DEF s, k
  <2> QED
    BY <1>1, <1>3, Room, LotteryAssumption
<1>5. chance[c] = 0 /\ passed[c] = 0
  BY DEF IInv, CountInv, Count
<1>r. {1, s + 1} \subseteq 1 .. NPROC + 1 /\ (s # NPROC => s + 1 \in Slots)
  <2> HIDE DEF s
  <2> QED
    BY <1>1, LotteryAssumption DEF Slots
<1>s. /\ slot' = [slot EXCEPT ![c] = IF s = NPROC THEN 1 ELSE s + 1]
      /\ pc' = [pc EXCEPT ![c] = IF s = NPROC THEN "draw" ELSE "count"]
  BY DEF Count
<1>6. TypeOK' /\ chance' \in [CPUs -> Nat]
  <2>1. total' \in [CPUs -> 0 .. NPROC * MaxTicket]
    <3> HIDE DEF s, k
    <3> QED
      BY <1>t, <1>2, <1>4 DEF TypeOK
  <2>2. \A d \in CPUs : chance'[d] \in 0 .. total'[d]
    <3> HIDE DEF s, k
    <3> QED
      BY <1>t, <1>2, <1>4, <1>5 DEF TypeOK, Count
  <2>3. slot' \in [CPUs -> 1 .. NPROC + 1] /\ pc' \in [CPUs -> {"count", "draw", "acquire", "pass", "run"}]
    <3> HIDE DEF s
    <3> QED
      BY <1>t, <1>r, <1>s DEF TypeOK
  <2> QED
    BY <1>t, <2>1, <2>2, <2>3 DEF TypeOK, Count
<1>7. CountInv'
  <2> SUFFICES ASSUME NEW d \in CPUs
               PROVE  /\ pc'[d] \in {"count", "run"} => slot'[d] \in Slots
                      /\ pc'[d] \in {"draw", "acquire"} => slot'[d] = 1
                      /\ pc'[d] = "count" => chance'[d] = 0 /\ total'[d] <= (slot'[d] - 1) * MaxTicket
                      /\ pc'[d] \in {"count", "draw", "acquire"} => passed'[d] = 0
                      /\ pc'[d] = "pass" => passed'[d] <= (slot'[d] - 1) * MaxTicket
    BY DEF CountInv
  <2>1. CASE d = c
    <3>1. CASE s = NPROC
      BY <1>t, <1>5, <2>1, <3>1 DEF IInv, CountInv, Count, TypeOK
    <3>2. CASE s # NPROC
      <4>1. pc'[c] = "count" /\ slot'[c] = s + 1 /\ s + 1 \in Slots /\ chance'[c] = 0 /\ passed'[c] = 0
        <5>1. chance' = chance /\ passed' = passed
          BY DEF Count
        <5> HIDE DEF s
        <5> QED
          BY <1>t, <1>5, <1>r, <1>s, <3>2, <5>1 DEF TypeOK
      <4>2. total'[c] = total[c] + k
        BY <1>t, <1>2 DEF TypeOK
      <4>3. total[c] + k <= (s + 1 - 1) * MaxTicket
        <5> HIDE DEF s, k
        <5> QED
          BY <1>1, <1>3, Room, LotteryAssumption
      <4>4. (slot'[c] - 1) * MaxTicket = (s + 1 - 1) * MaxTicket
        <5>1. PICK x \in Nat : x = s + 1 /\ x = slot'[c]
          BY <1>1, <4>1 DEF Slots
        <5>2. x - 1 = s + 1 - 1
          BY <1>1, <5>1 DEF Slots
        <5>3. (x - 1) * MaxTicket = (s + 1 - 1) * MaxTicket
          BY <5>2, Zenon
        <5> QED
          BY <5>1, <5>3, Zenon
      <4>5. total'[c] <= (slot'[c] - 1) * MaxTicket
        BY <4>2, <4>3, <4>4, Zenon
      <4> HIDE DEF s, k
      <4> QED
        BY <2>1, <4>1, <4>5
    <3> QED
      BY <3>1, <3>2
  <2>2. CASE d # c
    <3>1. /\ pc'[d] = pc[d] /\ slot'[d] = slot[d] /\ total'[d] = total[d]
          /\ chance'[d] = chance[d] /\ passed'[d] = passed[d]
      BY <1>t, <2>2 DEF Count, TypeOK
    <3> QED
      BY <3>1 DEF IInv, CountInv
  <2> QED
    BY <2>1, <2>2
<1>8. LockInv'
  BY <1>t DEF IInv, LockInv, Count, TypeOK
<1>9. RunInv'
  BY <1>t DEF IInv, RunInv, Count, TypeOK
<1>10. PassedInv'
  <2>1. \A x : TicketsBefore(x)' = TicketsBefore(x)
    BY SameTickets DEF Count
  <2> QED
    BY <1>t, <2>1 DEF IInv, PassedInv, Count, TypeOK
<1>11. Forgotten'
  BY <1>t DEF IInv, Forgotten, Count, TypeOK
<1> QED
  BY <1>6, <1>7, <1>8, <1>9, <1>10, <1>11 DEF IInv

(* A draw is at most what was counted.                                     *)
LEMMA DrawStep ==
  ASSUME IInv, NEW c \in CPUs, Draw(c)
  PROVE  IInv'
<1>t. TypeOK /\ chance \in [CPUs -> Nat]
  BY DEF IInv
<1>0. PICK v \in 0 .. RAND_MAX : DrawValue(c, v)
  BY DEF Draw
<1>1. v \in 0 .. total[c]
  <2>1. total[c] \in Nat /\ total[c] <= RAND_MAX /\ v \in Nat
    BY <1>t, LotteryAssumption DEF TypeOK
  <2>2. v > total[c] => Giving(v, total[c]) = {}
    BY <2>1, Bins
  <2> QED
    BY <1>0, <2>1, <2>2 DEF DrawValue
<1>2. TypeOK' /\ chance' \in [CPUs -> Nat]
  BY <1>t, <1>0, <1>1 DEF TypeOK, DrawValue
<1>3. CountInv'
  BY <1>t, <1>0 DEF IInv, CountInv, DrawValue, TypeOK
<1>4. LockInv' /\ RunInv' /\ Forgotten'
  BY <1>t, <1>0 DEF IInv, LockInv, RunInv, Forgotten, DrawValue, TypeOK
<1>5. PassedInv'
  <2>1. \A x : TicketsBefore(x)' = TicketsBefore(x)
    BY <1>0, SameTickets DEF DrawValue
  <2> QED
    BY <1>t, <1>0, <2>1 DEF IInv, PassedInv, DrawValue, TypeOK
<1> QED
  BY <1>2, <1>3, <1>4, <1>5 DEF IInv

LEMMA AcquireStep ==
  ASSUME IInv, NEW c \in CPUs, AcquireTable(c)
  PROVE  IInv'
<1>t. TypeOK /\ chance \in [CPUs -> Nat]
  BY DEF IInv
<1>1. TypeOK' /\ chance' \in [CPUs -> Nat]
  BY <1>t DEF TypeOK, AcquireTable, drawVars
<1>2. CountInv'
  <2>1. slot[c] = 1 /\ passed[c] = 0 /\ (1 - 1) * MaxTicket = 0
    BY LotteryAssumption DEF IInv, CountInv, AcquireTable
  <2> QED
    BY <1>t, <2>1 DEF IInv, CountInv, AcquireTable, TypeOK, drawVars
<1>3. LockInv' /\ RunInv' /\ Forgotten'
  BY <1>t, LotteryAssumption DEF IInv, LockInv, RunInv, Forgotten, AcquireTable, TypeOK, drawVars
<1>4. PassedInv'
  <2>1. \A x : TicketsBefore(x)' = TicketsBefore(x)
    BY SameTickets DEF AcquireTable
  <2>2. slot[c] = 1 /\ passed[c] = 0
    BY DEF IInv, CountInv, AcquireTable
  <2>3. \A d \in CPUs : d # c => pc[d] # "pass"
    BY LotteryAssumption DEF IInv, LockInv, AcquireTable
  <2> QED
    BY <1>t, <2>1, <2>2, <2>3, NoTickets DEF IInv, PassedInv, AcquireTable, TypeOK, drawVars
<1> QED
  BY <1>1, <1>2, <1>3, <1>4 DEF IInv

LEMMA SkipStep ==
  ASSUME IInv, NEW c \in CPUs, Skip(c)
  PROVE  IInv'
<1> DEFINE s == slot[c]
           k == IF state[s] = "RUNNABLE" THEN ticket[s] ELSE 0
<1>t. TypeOK /\ chance \in [CPUs -> Nat]
  BY DEF IInv
<1>1. s \in Slots /\ pc[c] = "pass" /\ lock = c
  BY <1>t, LotteryAssumption DEF IInv, LockInv, Skip, TypeOK, Slots
<1>2. passed[c] \in Nat /\ passed[c] <= (s - 1) * MaxTicket /\ k \in 0 .. MaxTicket
  BY <1>t, <1>1, LotteryAssumption DEF IInv, CountInv, TypeOK
<1>3. passed' = [passed EXCEPT ![c] = passed[c] + k]
  <2>1. CASE state[s] = "RUNNABLE"
    BY <2>1 DEF Skip
  <2>2. CASE state[s] # "RUNNABLE"
    <3>1. passed' = passed /\ passed[c] + 0 = passed[c]
      BY <1>2, <2>2 DEF Skip
    <3> QED
      BY <1>t, <2>2, <3>1 DEF TypeOK
  <2> QED
    BY <2>1, <2>2
<1>4. /\ passed[c] + k \in 0 .. NPROC * MaxTicket
      /\ passed[c] + k <= (s + 1 - 1) * MaxTicket
      /\ s + 1 \in 1 .. NPROC + 1
  <2>1. s \in Nat
    BY <1>1 DEF Slots
  <2> HIDE DEF s, k
  <2>2. s + 1 \in 1 .. NPROC + 1
    BY <1>1, LotteryAssumption DEF Slots
  <2> QED
    BY <1>1, <1>2, <2>2, Room, LotteryAssumption
<1>5. slot' = [slot EXCEPT ![c] = s + 1] /\ UNCHANGED <<state, ticket, pc, total, chance, ran, lock>>
  BY DEF Skip
<1>6. TypeOK' /\ chance' \in [CPUs -> Nat]
  <2> HIDE DEF s, k
  <2> QED
    BY <1>t, <1>3, <1>4, <1>5 DEF TypeOK
<1>7. CountInv'
  <2>1. slot'[c] = s + 1 /\ passed'[c] = passed[c] + k /\ pc'[c] = "pass"
    <3> HIDE DEF s, k
    <3> QED
      BY <1>t, <1>1, <1>3, <1>5 DEF TypeOK
  <2>2. (slot'[c] - 1) * MaxTicket = (s + 1 - 1) * MaxTicket
    <3>1. PICK x \in Nat : x = s + 1 /\ x = slot'[c]
      BY <1>1, <2>1 DEF Slots
    <3>2. x - 1 = s + 1 - 1
      BY <1>1, <3>1 DEF Slots
    <3>3. (x - 1) * MaxTicket = (s + 1 - 1) * MaxTicket
      BY <3>2, Zenon
    <3> QED
      BY <3>1, <3>3, Zenon
  <2>3. passed'[c] <= (slot'[c] - 1) * MaxTicket
    BY <1>4, <2>1, <2>2, Zenon
  <2>4. \A d \in CPUs : d # c => slot'[d] = slot[d] /\ passed'[d] = passed[d]
    <3> HIDE DEF s, k
    <3> QED
      BY <1>t, <1>3, <1>5 DEF TypeOK
  <2> HIDE DEF s, k
  <2> QED
    BY <1>5, <2>1, <2>3, <2>4 DEF IInv, CountInv
<1>8. LockInv' /\ Forgotten'
  BY <1>t, <1>5 DEF IInv, LockInv, Forgotten, TypeOK
<1>9. RunInv'
  <2>1. \A d \in CPUs : pc[d] = "run" => slot'[d] = slot[d]
    BY <1>t, <1>1, <1>5 DEF TypeOK
  <2> QED
    BY <1>5, <2>1 DEF IInv, RunInv
<1>10. PassedInv'
  <2>1. \A x : TicketsBefore(x)' = TicketsBefore(x)
    BY <1>5, SameTickets
  <2>2. TicketsBefore(s + 1) = TicketsBefore(s) + k
    <3> HIDE DEF s
    <3> QED
      BY <1>t, <1>1, MoreTickets
  <2>3. k = 0 \/ passed[c] + k < chance[c]
    BY DEF Skip, Loses
  <2>4. \A d \in CPUs : d # c => pc[d] # "pass"
    BY <1>1 DEF IInv, LockInv
  <2>5. ASSUME ran[c] = FALSE
        PROVE  /\ passed[c] = TicketsBefore(s)
               /\ passed[c] < chance[c] \/ passed[c] = 0
    BY <1>1, <2>5 DEF IInv, PassedInv
  <2>6. passed'[c] = passed[c] + k /\ slot'[c] = s + 1
    <3> HIDE DEF s, k
    <3> QED
      BY <1>t, <1>3, <1>5 DEF TypeOK
  <2> HIDE DEF s, k
  <2>7. ASSUME ran[c] = FALSE
        PROVE  /\ passed'[c] = TicketsBefore(s + 1)
               /\ passed'[c] < chance[c] \/ passed'[c] = 0
    <3>1. chance[c] \in Nat
      BY <1>t
    <3>2. passed'[c] = TicketsBefore(s + 1)
      BY <2>2, <2>5, <2>6, <2>7, Zenon
    <3>3. CASE k = 0
      <4>1. passed'[c] = passed[c]
        BY <1>2, <2>6, <3>3
      <4> QED
        BY <2>5, <2>7, <3>2, <4>1
    <3>4. CASE passed[c] + k < chance[c]
      BY <2>6, <3>2, <3>4
    <3> QED
      BY <2>3, <3>3, <3>4
  <2> QED
    BY <1>5, <2>1, <2>4, <2>6, <2>7 DEF PassedInv
<1> QED
  BY <1>6, <1>7, <1>8, <1>9, <1>10 DEF IInv

LEMMA DispatchStep ==
  ASSUME IInv, NEW c \in CPUs, Dispatch(c)
  PROVE  IInv'
<1>t. TypeOK /\ chance \in [CPUs -> Nat]
  BY DEF IInv
<1>1. slot[c] \in Slots /\ lock = c /\ state[slot[c]] = "RUNNABLE"
  BY <1>t, LotteryAssumption DEF IInv, LockInv, Dispatch, TypeOK, Slots
<1>2. \A d \in CPUs : d # c => pc[d] # "pass"
  BY <1>1 DEF IInv, LockInv
<1>3. TypeOK' /\ chance' \in [CPUs -> Nat]
  BY <1>t DEF TypeOK, Dispatch, drawVars
<1>4. CountInv'
  BY <1>t, <1>1 DEF IInv, CountInv, Dispatch, TypeOK, drawVars
<1>5. LockInv' /\ PassedInv' /\ Forgotten'
  BY <1>t, <1>2 DEF IInv, LockInv, PassedInv, Forgotten, Dispatch, TypeOK, drawVars
<1>6. RunInv'
  BY <1>t, <1>1 DEF IInv, RunInv, Dispatch, TypeOK, drawVars
<1> QED
  BY <1>3, <1>4, <1>5, <1>6 DEF IInv

LEMMA SwitchBackStep ==
  ASSUME IInv, NEW c \in CPUs, SwitchBack(c)
  PROVE  IInv'
<1>t. TypeOK /\ chance \in [CPUs -> Nat]
  BY DEF IInv
<1>0. PICK st \in {"RUNNABLE", "SLEEPING"} : state' = [state EXCEPT ![slot[c]] = st]
  BY DEF SwitchBack
<1>1. slot[c] \in Slots /\ lock = NoCpu /\ slot[c] + 1 \in 1 .. NPROC + 1
  BY <1>t, LotteryAssumption DEF IInv, CountInv, SwitchBack, TypeOK, Slots
<1>2. \A d \in CPUs : pc[d] # "pass"
  BY <1>1, LotteryAssumption DEF IInv, LockInv
<1>3. slot' = [slot EXCEPT ![c] = slot[c] + 1]
  BY DEF SwitchBack, Onward
<1>4. TypeOK' /\ chance' \in [CPUs -> Nat]
  <2>1. state' \in [Slots -> {"RUNNABLE", "RUNNING", "SLEEPING"}]
    BY <1>t, <1>0 DEF TypeOK
  <2>2. slot' \in [CPUs -> 1 .. NPROC + 1]
    BY <1>t, <1>1, <1>3 DEF TypeOK
  <2>3. NPROC * MaxTicket \in Nat
    BY LotteryAssumption
  <2> QED
    BY <1>t, <2>1, <2>2, <2>3 DEF TypeOK, SwitchBack, ResetDraw
<1>5. CountInv'
  <2>1. (slot[c] + 1 - 1) * MaxTicket >= 0
    BY <1>1, Room, LotteryAssumption
  <2> QED
    BY <1>t, <1>3, <2>1 DEF IInv, CountInv, SwitchBack, ResetDraw, TypeOK
<1>6. LockInv'
  BY <1>t, <1>2 DEF LockInv, SwitchBack, TypeOK
<1>7. RunInv'
  BY <1>t, <1>0, <1>3 DEF IInv, RunInv, CountInv, SwitchBack, TypeOK
<1>8. ran[c] = TRUE
  BY DEF IInv, Forgotten, SwitchBack
<1>9. PassedInv' /\ Forgotten'
  BY <1>t, <1>2, <1>8 DEF IInv, PassedInv, Forgotten, SwitchBack, ResetDraw, TypeOK
<1> QED
  BY <1>4, <1>5, <1>6, <1>7, <1>9 DEF IInv

LEMMA EndPassStep ==
  ASSUME IInv, NEW c \in CPUs, EndPass(c)
  PROVE  IInv'
<1>t. TypeOK /\ chance \in [CPUs -> Nat]
  BY DEF IInv
<1>1. lock = c /\ NPROC * MaxTicket \in Nat /\ (1 - 1) * MaxTicket = 0
  BY LotteryAssumption DEF IInv, LockInv, EndPass
<1>2. \A d \in CPUs : d # c => pc[d] # "pass"
  BY <1>1 DEF IInv, LockInv
<1>3. TypeOK' /\ chance' \in [CPUs -> Nat]
  BY <1>t, <1>1, LotteryAssumption DEF TypeOK, EndPass, ResetDraw
<1>4. CountInv'
  BY <1>t, <1>1, LotteryAssumption DEF IInv, CountInv, EndPass, ResetDraw, TypeOK, Slots
<1>5. LockInv' /\ RunInv' /\ PassedInv' /\ Forgotten'
  BY <1>t, <1>2 DEF IInv, LockInv, RunInv, PassedInv, Forgotten, EndPass, ResetDraw, TypeOK
<1> QED
  BY <1>3, <1>4, <1>5 DEF IInv

(* Only a process that runs gains a ticket.                                *)
LEMMA GainStep ==
  ASSUME IInv, NEW c \in CPUs, GainTicket(c)
  PROVE  IInv'
<1>t. TypeOK /\ chance \in [CPUs -> Nat]
  BY DEF IInv
<1>1. /\ slot[c] \in Slots /\ state[slot[c]] = "RUNNING"
      /\ ticket' = [ticket EXCEPT ![slot[c]] = ticket[slot[c]] + 1]
      /\ UNCHANGED <<state, pc, slot, total, chance, passed, ran, lock>>
  BY DEF IInv, CountInv, RunInv, GainTicket, drawVars
<1>2. ticket[slot[c]] + 1 \in TICKETS .. MaxTicket
  BY <1>t, <1>1, LotteryAssumption DEF TypeOK, GainTicket
<1>3. TypeOK' /\ chance' \in [CPUs -> Nat]
  BY <1>t, <1>1, <1>2 DEF TypeOK
<1>4. CountInv' /\ LockInv' /\ RunInv' /\ Forgotten'
  BY <1>1 DEF IInv, CountInv, LockInv, RunInv, Forgotten
<1>5. PassedInv'
  <2>1. \A x : TicketsBefore(x)' = TicketsBefore(x)
    BY <1>t, <1>1, SameTickets DEF TypeOK
  <2> QED
    BY <1>1, <2>1 DEF IInv, PassedInv
<1> QED
  BY <1>3, <1>4, <1>5 DEF IInv

LEMMA WakeupStep ==
  ASSUME IInv, NEW p \in Slots, Wakeup(p)
  PROVE  IInv'
<1>t. TypeOK /\ chance \in [CPUs -> Nat]
  BY DEF IInv
<1>1. \A d \in CPUs : pc[d] # "pass"
  BY LotteryAssumption DEF IInv, LockInv, Wakeup
<1>2. TypeOK' /\ chance' \in [CPUs -> Nat]
  BY <1>t DEF TypeOK, Wakeup, drawVars
<1>3. CountInv' /\ LockInv' /\ Forgotten'
  BY DEF IInv, CountInv, LockInv, Forgotten, Wakeup, drawVars
<1>4. RunInv' /\ PassedInv'
  BY <1>t, <1>1 DEF IInv, RunInv, PassedInv, Wakeup, drawVars, TypeOK
<1> QED
  BY <1>2, <1>3, <1>4 DEF IInv

LEMMA StepIInv == IInv /\ [Next]_vars => IInv'
<1> SUFFICES ASSUME IInv, [Next]_vars PROVE IInv'
  OBVIOUS
<1>1. CASE UNCHANGED vars
  <2>1. \A x : TicketsBefore(x)' = TicketsBefore(x)
    BY <1>1, SameTickets DEF vars
  <2> QED
    BY <1>1, <2>1 DEF vars, drawVars, IInv, TypeOK, CountInv, LockInv, RunInv, PassedInv, Forgotten
<1> QED
  BY <1>1, CountStep, DrawStep, AcquireStep, SkipStep, DispatchStep, SwitchBackStep, EndPassStep,
     GainStep, WakeupStep DEF Next, Step

(* Everything the theorems below lean on holds of scheduler() always.      *)
THEOREM Invariant == Spec => []IInv
BY InitIInv, StepIInv, PTL DEF Spec

-----------------------------------------------------------------------------
(* What a lottery promises.                                                *)

(* random_at_most() (Lottery/rand.c) gives every number up to the total    *)
(* that was counted for equally many values of genrand(), and no other     *)
(* number.                                                                 *)
THEOREM EvenDraw == Spec => []DrawUniform
<1>1. IInv => DrawUniform
  <2> SUFFICES ASSUME IInv PROVE DrawUniform
    OBVIOUS
  <2>1. ASSUME NEW c \in CPUs PROVE total[c] \in Nat /\ total[c] <= RAND_MAX
    BY LotteryAssumption DEF IInv, TypeOK
  <2>2. ASSUME NEW c \in CPUs, NEW v \in 0 .. total[c]
        PROVE  Cardinality(Giving(v, total[c])) = NumRand \div (total[c] + 1)
    BY <2>1, Bins
  <2>3. ASSUME NEW c \in CPUs, NEW v \in total[c] + 1 .. RAND_MAX
        PROVE  Giving(v, total[c]) = {}
    <3>1. v \in Nat /\ v > total[c] /\ total[c] \in Nat /\ total[c] <= RAND_MAX
      BY <2>1, <2>3, LotteryAssumption
    <3> QED
      BY <3>1, Bins
  <2> QED
    BY <2>2, <2>3 DEF DrawUniform, IInv
<1> QED
  BY <1>1, Invariant, PTL

(* The first process of a pass (scheduler() of Lottery/proc.c) holds the   *)
(* ticket that was drawn, by the numbering of the tickets at the moment    *)
(* the CPU has ptable.lock, although they were counted without it; nobody  *)
(* runs only if fewer tickets are left than were drawn.                    *)
THEOREM WinnerIsHolder == Spec => WinnerHoldsTicket
<1>1. IInv /\ [Next]_vars => [WinnerAction]_vars
  <2> SUFFICES ASSUME IInv, Next, NEW c \in CPUs, pc[c] = "pass", ~ ran[c]
               PROVE  /\ pc'[c] = "run" =>
                           /\ TicketsBefore(slot[c]) < chance[c] \/ TicketsBefore(slot[c]) = 0
                           /\ chance[c] <= TicketsBefore(slot[c] + 1)
                      /\ pc'[c] = "count" =>
                           TicketsBefore(NPROC + 1) < chance[c] \/ TicketsBefore(NPROC + 1) = 0
    BY DEF WinnerAction
  <2>t. TypeOK /\ chance[c] \in Nat /\ ran[c] = FALSE
    BY DEF IInv, TypeOK
  <2>1. passed[c] = TicketsBefore(slot[c]) /\ (passed[c] < chance[c] \/ passed[c] = 0)
    BY <2>t DEF IInv, PassedInv
  <2>2. CASE Dispatch(c)
    <3>1. slot[c] \in Slots /\ passed[c] \in Nat /\ ticket[slot[c]] \in Nat
      BY <2>t, <2>2, LotteryAssumption DEF Dispatch, TypeOK, Slots
    <3>2. TicketsBefore(slot[c] + 1) = passed[c] + ticket[slot[c]]
      BY <2>t, <2>1, <2>2, <3>1, MoreTickets DEF Dispatch
    <3>3. chance[c] <= passed[c] + ticket[slot[c]]
      BY <2>t, <2>2, <3>1 DEF Dispatch, Loses
    <3>4. pc'[c] = "run"
      BY <2>t, <2>2 DEF Dispatch, TypeOK
    <3> QED
      BY <2>1, <3>2, <3>3, <3>4
  <2>3. CASE EndPass(c)
    <3>1. slot[c] = NPROC + 1 /\ pc'[c] = "count"
      BY <2>t, <2>3, LotteryAssumption DEF EndPass, TypeOK
    <3> QED
      BY <2>1, <3>1
  <2>4. ASSUME ~ Dispatch(c), ~ EndPass(c) PROVE pc'[c] = "pass"
    BY <2>t, <2>4 DEF Next, Step, Count, Draw, DrawValue, AcquireTable, Skip, Dispatch, SwitchBack,
       EndPass, GainTicket, Wakeup, TypeOK
  <2> QED
    BY <2>2, <2>3, <2>4
<1> QED
  BY <1>1, Invariant, PTL DEF Spec, WinnerHoldsTicket

(* After the winner everybody who is RUNNABLE gets a turn in the same pass *)
(* (the loop of scheduler() in Lottery/proc.c): with chance = 0 nobody     *)
(* loses.                                                                  *)
THEOREM RestRuns == Spec => RestOfPassRuns
<1>1. IInv /\ [Next]_vars => [RestAction]_vars
  <2> SUFFICES ASSUME IInv, Next, NEW c \in CPUs, pc[c] = "pass", ran[c], pc'[c] = "pass",
                      slot'[c] # slot[c]
               PROVE  state[slot[c]] # "RUNNABLE"
    BY DEF RestAction
  <2>t. TypeOK
    BY DEF IInv
  <2>1. Skip(c)
    BY <2>t DEF Next, Step, Count, Draw, DrawValue, AcquireTable, Skip, Dispatch, SwitchBack,
       EndPass, GainTicket, Wakeup, TypeOK
  <2>2. chance[c] = 0 /\ passed[c] \in Nat
    BY <2>t, LotteryAssumption DEF IInv, Forgotten, TypeOK
  <2>3. ticket[slot[c]] \in Nat
    BY <2>t, <2>1, LotteryAssumption DEF Skip, TypeOK, Slots
  <2>4. ~ Loses(c, slot[c])
    BY <2>2, <2>3 DEF Loses
  <2> QED
    BY <2>1, <2>4 DEF Skip
<1> QED
  BY <1>1, Invariant, PTL DEF Spec, RestOfPassRuns
=============================================================================
