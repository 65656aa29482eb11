---------------------------- MODULE BcacheProofs ----------------------------
(***************************************************************************)
(* For any numbers of processes, buffers and blocks: a buffer keeps its    *)
(* block and its holder, no sleeper and no disk request is lost, and the   *)
(* buffer cache implements the block store.                                *)
(*                                                                         *)
(* IInv adds to what the run checks why it stays so: refcnt counts the     *)
(* processes that work on a buffer (RefInv); a buffer is locked by the     *)
(* process that has gone through acquiresleep() (OwnInv); the requests are *)
(* those of processes that wait for them (QueueInv); and a buffer without  *)
(* B_DIRTY that nobody is changing has the contents of the disk            *)
(* (CleanInv).                                                             *)
(***************************************************************************)
EXTENDS Bcache, FiniteSetTheorems, SequenceTheorems, TLAPS

HeldPCs == {"iderw", "iosleep", "iowake", "use", "changed"}

Users(k) == {p \in Procs : buf[p] = k}

(* b->refcnt                                                               *)
RefInv == \A k \in Bufs : ref[k] = Cardinality(Users(k))

(* A process works on the buffer of the block it wants, from bget() to the *)
(* end of brelse().                                                        *)
BufInv ==
  \A p \in Procs :
    /\ buf[p] = NoBuf <=> pc[p] = "idle"
    /\ buf[p] # NoBuf => want[p] \in Blocks /\ blk[buf[p]] = want[p]

OneBuffer ==
  \A j, k \in Bufs : blk[j] = blk[k] => j = k \/ blk[j] = NoBlock

(* b->lock                                                                 *)
OwnInv ==
  \A p \in Procs, k \in Bufs :
    owner[k] = p <=> buf[p] = k /\ pc[p] \in HeldPCs

(* B_VALID and B_DIRTY.                                                    *)
FlagInv ==
  /\ \A k \in Bufs : valid[k] => blk[k] # NoBlock
  /\ \A k \in Bufs : dirty[k] => valid[k]
  /\ \A p \in Procs : pc[p] \in {"use", "changed"} => valid[buf[p]]
  /\ \A p \in Procs : pc[p] = "iderw" => ~ Synced(buf[p])

Waiting(p) == pc[p] \in {"iosleep", "iowake"}

Queued(k) == \E j \in DOMAIN idequeue : idequeue[j] = k

QueueInv ==
  /\ \A k \in Bufs : Queued(k) =>
       ~ Synced(k) /\ \E p \in Procs : buf[p] = k /\ Waiting(p)
  /\ \A j, m \in DOMAIN idequeue : idequeue[j] = idequeue[m] => j = m
  /\ \A p \in Procs : pc[p] = "iosleep" => Queued(buf[p])
  /\ \A p \in Procs : pc[p] = "iowake" => Queued(buf[p]) \/ Synced(buf[p])
  /\ active = IF idequeue = <<>> THEN NoBuf ELSE Head(idequeue)

SleepInv == \A p \in Procs : pc[p] = "locksleep" => owner[buf[p]] # NoProc

CleanInv ==
  \A k \in Bufs :
    valid[k] /\ ~ dirty[k] =>
      \/ data[k] = disk[blk[k]]
      \/ \E p \in Procs : buf[p] = k /\ pc[p] = "changed"

IInv ==
  /\ TypeOK
  /\ RefInv
  /\ BufInv
  /\ OneBuffer
  /\ OwnInv
  /\ FlagInv
  /\ QueueInv
  /\ SleepInv
  /\ CleanInv
-----------------------------------------------------------------------------
(* Reference counts.                                                       *)
LEMMA SomeProcs ==
  ASSUME NEW S \in SUBSET Procs
  PROVE  /\ IsFiniteSet(S) /\ Cardinality(S) \in 0 .. Cardinality(Procs)
         /\ Cardinality(S) = 0 <=> S = {}
<1>1. IsFiniteSet(S) /\ Cardinality(S) <= Cardinality(Procs)
  BY BcacheAssumption, FS_Subset
<1>2. Cardinality(S) \in Nat /\ Cardinality(Procs) \in Nat
  BY <1>1, BcacheAssumption, FS_CardinalityType
<1> QED
  BY <1>1, <1>2, FS_EmptySet

LEMMA UsersSub == \A k : Users(k) \in SUBSET Procs
BY DEF Users

(* Nobody works on a buffer that bget() recycles.                          *)
LEMMA UnusedFree ==
  ASSUME TypeOK, RefInv, NEW k \in Unused
  PROVE  k \in Bufs /\ ~ dirty[k] /\ \A p \in Procs : buf[p] # k
<1>1. k \in Bufs /\ ~ dirty[k] /\ ref[k] = 0
  BY DEF Unused
<1>2. Users(k) = {}
  BY <1>1, UsersSub, SomeProcs DEF RefInv
<1> QED
  BY <1>1, <1>2 DEF Users

(* A process takes up a buffer, ...                                        *)
LEMMA OneMore ==
  ASSUME TypeOK, RefInv, NEW p \in Procs, NEW k \in Bufs, buf[p] = NoBuf,
         buf' = [buf EXCEPT ![p] = k],
         ref' = [ref EXCEPT ![k] = ref[k] + 1]
  PROVE  RefInv' /\ ref' \in [Bufs -> 0 .. Cardinality(Procs)]
<1>1. \A q \in Procs : buf'[q] = IF q = p THEN k ELSE buf[q]
  BY DEF TypeOK
<1>2. Users(k)' = Users(k) \cup {p} /\ p \notin Users(k)
  BY <1>1, BcacheAssumption DEF Users
<1>3. Cardinality(Users(k)') = Cardinality(Users(k)) + 1
  BY <1>2, UsersSub, SomeProcs, FS_AddElement
<1>4. \A j \in Bufs \ {k} : Users(j)' = Users(j)
  BY <1>1, BcacheAssumption DEF Users
<1>5. \A j \in Bufs : ref'[j] = IF j = k THEN ref[k] + 1 ELSE ref[j]
  BY DEF TypeOK
<1>6. RefInv'
  BY <1>3, <1>4, <1>5 DEF RefInv
<1>7. Users(k)' \in SUBSET Procs
  BY DEF Users
<1>8. ref[k] + 1 \in 0 .. Cardinality(Procs)
  BY <1>3, <1>7, SomeProcs DEF RefInv
<1> QED
  BY <1>6, <1>8 DEF TypeOK

(* ... or drops it.                                                        *)
LEMMA OneLess ==
  ASSUME TypeOK, RefInv, NEW p \in Procs, NEW k \in Bufs, buf[p] = k,
         buf' = [buf EXCEPT ![p] = NoBuf],
         ref' = [ref EXCEPT ![k] = ref[k] - 1]
  PROVE  RefInv' /\ ref' \in [Bufs -> 0 .. Cardinality(Procs)]
<1>1. \A q \in Procs : buf'[q] = IF q = p THEN NoBuf ELSE buf[q]
  BY DEF TypeOK
<1>2. Users(k)' = Users(k) \ {p} /\ p \in Users(k)
  BY <1>1, BcacheAssumption DEF Users
<1>3. Cardinality(Users(k)') = Cardinality(Users(k)) - 1
  BY <1>2, UsersSub, SomeProcs, FS_RemoveElement
<1>4. \A j \in Bufs \ {k} : Users(j)' = Users(j)
  BY <1>1, BcacheAssumption DEF Users
<1>5. \A j \in Bufs : ref'[j] = IF j = k THEN ref[k] - 1 ELSE ref[j]
  BY DEF TypeOK
<1>6. RefInv'
  BY <1>3, <1>4, <1>5 DEF RefInv
<1>7. Users(k)' \in SUBSET Procs
  BY DEF Users
<1>8. Cardinality(Users(k)') \in 0 .. Cardinality(Procs)
  BY <1>7, SomeProcs
<1>9. ref[k] - 1 \in 0 .. Cardinality(Procs)
  BY <1>3, <1>8 DEF RefInv
<1> QED
  BY <1>6, <1>9 DEF TypeOK

LEMMA SameUsers ==
  ASSUME RefInv, UNCHANGED <<ref, buf>>
  PROVE  RefInv'
BY DEF RefInv, Users

(* wakeup()                                                                *)
LEMMA AwakeTyped ==
  ASSUME TypeOK, NEW S
  PROVE  /\ Awake(pc, S) \in [Procs -> PCs]
         /\ \A q \in Procs :
              Awake(pc, S)[q] = IF q \notin S THEN pc[q]
                                ELSE IF pc[q] = "locksleep" THEN "lock"
                                ELSE IF pc[q] = "iosleep" THEN "iowake" ELSE pc[q]
BY DEF TypeOK, PCs, Awake

(* The process that has the lock of a buffer is the only one at work on    *)
(* it.                                                                     *)
LEMMA OneHolder ==
  ASSUME TypeOK, OwnInv, BufInv, NEW p \in Procs, NEW q \in Procs,
         pc[p] \in HeldPCs, pc[q] \in HeldPCs, buf[p] = buf[q]
  PROVE  p = q
<1>1. buf[p] \in Bufs
  BY DEF BufInv, TypeOK, HeldPCs
<1>2. owner[buf[p]] = p /\ owner[buf[p]] = q
  BY <1>1 DEF OwnInv
<1> QED
  BY <1>2

-----------------------------------------------------------------------------
(* binit() and ideinit(): nothing is cached.                               *)
LEMMA InitIInv == Init => IInv
<1> SUFFICES ASSUME Init PROVE IInv
  OBVIOUS
<1>1. \A k \in Bufs : Users(k) = {}
  BY BcacheAssumption DEF Init, Users
<1>2. Cardinality(Procs) \in Nat /\ Cardinality({}) = 0
  BY BcacheAssumption, FS_CardinalityType, FS_EmptySet
<1>3. TypeOK
  <2>1. PICK v \in Vals : /\ data = [k \in Bufs |-> v]
                         /\ disk = [b \in Blocks |-> v]
    BY DEF Init
  <2>2. data \in [Bufs -> Vals] /\ disk \in [Blocks -> Vals]
    BY <2>1
  <2>3. ref \in [Bufs -> 0 .. Cardinality(Procs)] /\ idequeue \in Seq(Bufs)
    BY <1>2 DEF Init
  <2> QED
    BY <2>2, <2>3 DEF Init, TypeOK, PCs
<1>4. RefInv
  BY <1>1, <1>2 DEF RefInv, Init
<1>5. BufInv /\ OneBuffer /\ FlagInv /\ SleepInv /\ CleanInv
  BY DEF Init, BufInv, OneBuffer, FlagInv, SleepInv, CleanInv, Synced
<1>6. OwnInv
  BY BcacheAssumption DEF Init, OwnInv, HeldPCs
<1>7. QueueInv
  BY DEF Init, QueueInv, Queued
<1> QED
  BY <1>3, <1>4, <1>5, <1>6, <1>7 DEF IInv

(* One step per action, and under it one per part of IInv.                 *)
LEMMA StepIInv ==
  ASSUME IInv, [Next]_vars
  PROVE  IInv'
<1>t. TypeOK /\ RefInv /\ BufInv /\ OneBuffer /\ OwnInv /\ FlagInv /\ QueueInv /\ SleepInv /\ CleanInv
  BY DEF IInv
<1>b. \A p \in Procs : pc[p] # "idle" => buf[p] \in Bufs
  BY <1>t DEF BufInv, TypeOK
<1>1. ASSUME NEW p \in Procs, NEW b \in Blocks, BgetHit(p, b) PROVE IInv'
  <2>k. PICK k \in Cached(b) : ref' = [ref EXCEPT ![k] = @ + 1] /\ Take(p, k, b)
    BY <1>1 DEF BgetHit
  <2>f. pc[p] = "idle" /\ UNCHANGED <<blk, valid, dirty, data, owner, disk, idequeue, active, panicked>>
    BY <1>1 DEF BgetHit, ideVars
  <2>m. /\ k \in Bufs /\ blk[k] = b
        /\ \A q \in Procs : pc'[q] = IF q = p THEN "lock" ELSE pc[q]
        /\ \A q \in Procs : buf'[q] = IF q = p THEN k ELSE buf[q]
        /\ \A q \in Procs : want'[q] = IF q = p THEN b ELSE want[q]
    BY <2>k, <1>t DEF Take, Goto, Cached, TypeOK
  <2>r. RefInv' /\ ref' \in [Bufs -> 0 .. Cardinality(Procs)]
    BY <2>f, <2>k, <2>m, <1>t, OneMore DEF Take, BufInv
  <2>1. TypeOK'
    BY <2>f, <2>k, <2>m, <2>r, <1>t DEF TypeOK, PCs, Take, Goto
  <2>2. RefInv'
    BY <2>r
  <2>3. BufInv'
    BY <2>f, <2>m, <1>t, <1>b, BcacheAssumption DEF BufInv
  <2>4. OneBuffer'
    BY <2>f, <2>m, <1>t, <1>b, BcacheAssumption DEF OneBuffer
  <2>5. OwnInv'
    BY <2>f, <2>m, <1>t, <1>b, BcacheAssumption DEF OwnInv, HeldPCs
  <2>6. FlagInv'
    BY <2>f, <2>m, <1>t, <1>b, BcacheAssumption DEF FlagInv, Synced
  <2>7. QueueInv'
    BY <2>f, <2>m, <1>t, <1>b, BcacheAssumption DEF QueueInv, Queued, Waiting, Synced
  <2>8. SleepInv'
    BY <2>f, <2>m, <1>t, <1>b, BcacheAssumption DEF SleepInv
  <2>9. CleanInv'
    BY <2>f, <2>m, <1>t, <1>b, BcacheAssumption DEF CleanInv
  <2> QED
    BY <2>1, <2>2, <2>3, <2>4, <2>5, <2>6, <2>7, <2>8, <2>9 DEF IInv
<1>2. ASSUME NEW p \in Procs, NEW b \in Blocks, BgetRecycle(p, b) PROVE IInv'
  <2>k. PICK k \in Unused :
          /\ blk' = [blk EXCEPT ![k] = b]
          /\ valid' = [valid EXCEPT ![k] = FALSE] /\ dirty' = [dirty EXCEPT ![k] = FALSE]
          /\ ref' = [ref EXCEPT ![k] = 1] /\ Take(p, k, b)
    BY <1>2 DEF BgetRecycle
  <2>f. pc[p] = "idle" /\ (\A j \in Bufs : blk[j] # b) /\ UNCHANGED <<data, owner, disk, idequeue, active, panicked>>
    BY <1>2 DEF BgetRecycle, ideVars, Cached
  <2>u. k \in Bufs /\ ~ dirty[k] /\ \A q \in Procs : buf[q] # k
    BY <2>k, <1>t, UnusedFree
  <2>m. /\ \A q \in Procs : pc'[q] = IF q = p THEN "lock" ELSE pc[q]
        /\ \A q \in Procs : buf'[q] = IF q = p THEN k ELSE buf[q]
        /\ \A q \in Procs : want'[q] = IF q = p THEN b ELSE want[q]
    BY <2>k, <1>t DEF Take, Goto, TypeOK
  <2>n. /\ \A j \in Bufs : blk'[j] = IF j = k THEN b ELSE blk[j]
        /\ \A j \in Bufs : valid'[j] = IF j = k THEN FALSE ELSE valid[j]
        /\ \A j \in Bufs : dirty'[j] = IF j = k THEN FALSE ELSE dirty[j]
    BY <2>k, <2>u, <1>t DEF TypeOK
  <2>z. ref[k] = 0
    BY <2>k DEF Unused
  <2>e. ref' = [ref EXCEPT ![k] = ref[k] + 1] /\ buf' = [buf EXCEPT ![p] = k] /\ buf[p] = NoBuf
    BY <2>f, <2>k, <2>z, <1>t DEF Take, BufInv
  <2>r. RefInv' /\ ref' \in [Bufs -> 0 .. Cardinality(Procs)]
    BY <2>e, <2>u, <1>t, OneMore
  <2>x. \A q \in Procs \ {p} :
          /\ pc'[q] = pc[q] /\ buf'[q] = buf[q]
          /\ pc[q] # "idle" => valid'[buf[q]] = valid[buf[q]] /\ dirty'[buf[q]] = dirty[buf[q]]
    BY <2>u, <2>m, <2>n, <1>b
  <2>s. /\ \A j \in Bufs \ {k} : Synced(j)' <=> Synced(j)
        /\ \A j : Queued(j)' <=> Queued(j)
        /\ \A q \in Procs \ {p} : Waiting(q)' <=> Waiting(q)
        /\ ~ Waiting(p)
    BY <2>f, <2>n, <2>m DEF Synced, Queued, Waiting
  <2>d. /\ ~ Queued(k)
        /\ \A j : Queued(j) => j \in Bufs
    BY <2>u, <1>t DEF QueueInv, TypeOK, Queued
  <2>1. TypeOK'
    BY <2>f, <2>k, <2>u, <2>r, <1>t DEF TypeOK, PCs, Take, Goto
  <2>2. RefInv'
    BY <2>r
  <2>3. BufInv'
    BY <2>f, <2>u, <2>m, <2>n, <1>t, <1>b, BcacheAssumption DEF BufInv
  <2>4. OneBuffer'
    BY <2>f, <2>u, <2>m, <2>n, <1>t, <1>b, BcacheAssumption DEF OneBuffer
  <2>5. OwnInv'
    BY <2>f, <2>u, <2>m, <2>n, <1>t, <1>b, BcacheAssumption DEF OwnInv, HeldPCs
  <2>6. FlagInv'
    <3>1. /\ \A j \in Bufs : valid'[j] => blk'[j] # NoBlock
          /\ \A j \in Bufs : dirty'[j] => valid'[j]
      BY <2>f, <2>u, <2>n, <1>t, BcacheAssumption DEF FlagInv
    <3>2. \A q \in Procs : pc'[q] \in {"use", "changed"} => valid'[buf'[q]]
      BY <2>x, <2>m, <1>t DEF FlagInv
    <3>3. \A q \in Procs : pc'[q] = "iderw" => ~ (valid'[buf'[q]] /\ ~ dirty'[buf'[q]])
      BY <2>x, <2>m, <1>t DEF FlagInv, Synced
    <3> QED
      BY <3>1, <3>2, <3>3 DEF FlagInv, Synced
  <2>7. QueueInv'
    <3>2. \A j \in Bufs : Queued(j)' => ~ Synced(j)' /\ \E q \in Procs : buf'[q] = j /\ Waiting(q)'
      BY <2>d, <2>f, <2>m, <2>s, <1>t DEF QueueInv
    <3>3. \A q \in Procs : pc'[q] = "iosleep" => \E i \in DOMAIN idequeue' : idequeue'[i] = buf'[q]
      BY <2>f, <2>x, <2>m, <1>t DEF QueueInv, Queued
    <3>4. \A q \in Procs : pc'[q] = "iowake" =>
            (\E i \in DOMAIN idequeue' : idequeue'[i] = buf'[q]) \/ (valid'[buf'[q]] /\ ~ dirty'[buf'[q]])
      BY <2>f, <2>x, <2>m, <1>t DEF QueueInv, Queued, Synced
    <3>5. /\ \A j, m \in DOMAIN idequeue' : idequeue'[j] = idequeue'[m] => j = m
          /\ active' = IF idequeue' = <<>> THEN NoBuf ELSE Head(idequeue')
      BY <2>f, <1>t DEF QueueInv
    <3> QED
      BY <3>2, <3>3, <3>4, <3>5 DEF QueueInv, Queued, Synced
  <2>8. SleepInv'
    BY <2>f, <2>u, <2>m, <2>n, <1>t, <1>b, BcacheAssumption DEF SleepInv
  <2>9. CleanInv'
    <3>1. \A j \in Bufs : valid'[j] /\ ~ dirty'[j] => j # k /\ valid[j] /\ ~ dirty[j]
      BY <2>n
    <3> QED
      BY <3>1, <2>f, <2>u, <2>m, <2>n, <1>t DEF CleanInv
  <2> QED
    BY <2>1, <2>2, <2>3, <2>4, <2>5, <2>6, <2>7, <2>8, <2>9 DEF IInv
<1>3. ASSUME NEW p \in Procs, NEW b \in Blocks, BgetPanic(p, b) PROVE IInv'
  <2>f. panicked' = TRUE /\ UNCHANGED <<blk, ref, valid, dirty, data, owner, disk, idequeue, active, pc, buf, want>>
    BY <1>3 DEF BgetPanic, bufVars, ideVars
  <2>1. TypeOK'
    BY <2>f, <1>t, <1>b, BcacheAssumption DEF TypeOK, PCs
  <2>2. RefInv'
    BY <2>f, <1>t, SameUsers
  <2>3. BufInv'
    BY <2>f, <1>t, <1>b, BcacheAssumption DEF BufInv
  <2>4. OneBuffer'
    BY <2>f, <1>t, <1>b, BcacheAssumption DEF OneBuffer
  <2>5. OwnInv'
    BY <2>f, <1>t, <1>b, BcacheAssumption DEF OwnInv, HeldPCs
  <2>6. FlagInv'
    BY <2>f, <1>t, <1>b, BcacheAssumption DEF FlagInv, Synced
  <2>7. QueueInv'
    BY <2>f, <1>t, <1>b, BcacheAssumption DEF QueueInv, Queued, Waiting, Synced
  <2>8. SleepInv'
    BY <2>f, <1>t, <1>b, BcacheAssumption DEF SleepInv
  <2>9. CleanInv'
    BY <2>f, <1>t, <1>b, BcacheAssumption DEF CleanInv
  <2> QED
    BY <2>1, <2>2, <2>3, <2>4, <2>5, <2>6, <2>7, <2>8, <2>9 DEF IInv
<1>4. ASSUME NEW p \in Procs, AcquireSleep(p) PROVE IInv'
  <2>f. pc[p] = "lock" /\ UNCHANGED <<blk, ref, valid, dirty, data, disk, idequeue, active, buf, want, panicked>>
    BY <1>4 DEF AcquireSleep, bufVars, ideVars
  <2>k. buf[p] \in Bufs
    BY <2>f, <1>b
  <2>m. \/ /\ owner[buf[p]] = NoProc
           /\ owner' = [owner EXCEPT ![buf[p]] = p]
           /\ pc' = [pc EXCEPT ![p] = IF valid[buf[p]] THEN "use" ELSE "iderw"]
        \/ /\ owner[buf[p]] # NoProc
           /\ owner' = owner
           /\ pc' = [pc EXCEPT ![p] = "locksleep"]
    BY <1>4 DEF AcquireSleep, Goto
  <2>n. \/ /\ owner[buf[p]] = NoProc
           /\ \A j \in Bufs : owner'[j] = IF j = buf[p] THEN p ELSE owner[j]
           /\ \A q \in Procs : pc'[q] = IF q # p THEN pc[q] ELSE IF valid[buf[p]] THEN "use" ELSE "iderw"
        \/ /\ owner[buf[p]] # NoProc
           /\ owner' = owner
           /\ \A q \in Procs : pc'[q] = IF q = p THEN "locksleep" ELSE pc[q]
    BY <2>k, <2>m, <1>t DEF TypeOK
  <2>1. TypeOK'
    BY <2>f, <2>k, <2>m, <1>t DEF TypeOK, PCs
  <2>2. RefInv'
    BY <2>f, <1>t, SameUsers
  <2>3. BufInv'
    BY <2>f, <2>k, <2>n, <1>t, <1>b, BcacheAssumption DEF BufInv
  <2>4. OneBuffer'
    BY <2>f, <2>k, <2>n, <1>t, <1>b, BcacheAssumption DEF OneBuffer
  <2>5. OwnInv'
    BY <2>f, <2>k, <2>n, <1>t, <1>b, BcacheAssumption DEF OwnInv, HeldPCs
  <2>6. FlagInv'
    BY <2>f, <2>k, <2>n, <1>t, <1>b, BcacheAssumption DEF FlagInv, Synced
  <2>7. QueueInv'
    BY <2>f, <2>k, <2>n, <1>t, <1>b, BcacheAssumption DEF QueueInv, Queued, Waiting, Synced
  <2>8. SleepInv'
    BY <2>f, <2>k, <2>n, <1>t, <1>b, BcacheAssumption DEF SleepInv
  <2>9. CleanInv'
    BY <2>f, <2>k, <2>n, <1>t, <1>b, BcacheAssumption DEF CleanInv
  <2> QED
    BY <2>1, <2>2, <2>3, <2>4, <2>5, <2>6, <2>7, <2>8, <2>9 DEF IInv
<1>5. ASSUME NEW p \in Procs, ReleaseSleep(p) PROVE IInv'
  <2>f. pc[p] = "use" /\ UNCHANGED <<blk, ref, valid, dirty, data, disk, idequeue, active, buf, want, panicked>>
    BY <1>5 DEF ReleaseSleep, bufVars, ideVars
  <2>k. buf[p] \in Bufs
    BY <2>f, <1>b
  <2>a. Awake(pc, LockSleepers(buf[p])) \in [Procs -> PCs]
    BY <1>t, AwakeTyped
  <2>m. \A q \in Procs : pc'[q] = IF q = p THEN "brelse"
                                  ELSE IF buf[q] = buf[p] /\ pc[q] = "locksleep" THEN "lock" ELSE pc[q]
    BY <1>5, <2>a, <1>t, AwakeTyped DEF ReleaseSleep, LockSleepers
  <2>n. \A j \in Bufs : owner'[j] = IF j = buf[p] THEN NoProc ELSE owner[j]
    BY <1>5, <2>k, <1>t DEF ReleaseSleep, TypeOK
  <2>1. TypeOK'
    BY <1>5, <2>f, <2>k, <2>a, <1>t DEF ReleaseSleep, TypeOK, PCs
  <2>2. RefInv'
    BY <2>f, <1>t, SameUsers
  <2>3. BufInv'
    BY <2>f, <2>k, <2>m, <2>n, <1>t, <1>b, BcacheAssumption DEF BufInv
  <2>4. OneBuffer'
    BY <2>f, <2>k, <2>m, <2>n, <1>t, <1>b, BcacheAssumption DEF OneBuffer
  <2>5. OwnInv'
    BY <2>f, <2>k, <2>m, <2>n, <1>t, <1>b, BcacheAssumption DEF OwnInv, HeldPCs
  <2>6. FlagInv'
    BY <2>f, <2>k, <2>m, <2>n, <1>t, <1>b, BcacheAssumption DEF FlagInv, Synced
  <2>7. QueueInv'
    BY <2>f, <2>k, <2>m, <2>n, <1>t, <1>b, BcacheAssumption DEF QueueInv, Queued, Waiting, Synced
  <2>8. SleepInv'
    BY <2>f, <2>k, <2>m, <2>n, <1>t, <1>b, BcacheAssumption DEF SleepInv
  <2>9. CleanInv'
    BY <2>f, <2>k, <2>m, <2>n, <1>t, <1>b, BcacheAssumption DEF CleanInv
  <2> QED
    BY <2>1, <2>2, <2>3, <2>4, <2>5, <2>6, <2>7, <2>8, <2>9 DEF IInv
<1>6. ASSUME NEW p \in Procs, Brelse(p) PROVE IInv'
  <2>f. pc[p] = "brelse" /\ UNCHANGED <<blk, valid, dirty, data, owner, disk, idequeue, active, panicked>>
    BY <1>6 DEF Brelse, ideVars
  <2>k. buf[p] \in Bufs
    BY <2>f, <1>b
  <2>m. /\ \A q \in Procs : pc'[q] = IF q = p THEN "idle" ELSE pc[q]
        /\ \A q \in Procs : buf'[q] = IF q = p THEN NoBuf ELSE buf[q]
        /\ \A q \in Procs : want'[q] = IF q = p THEN NoBlock ELSE want[q]
    BY <1>6, <1>t DEF Brelse, Goto, TypeOK
  <2>r. RefInv' /\ ref' \in [Bufs -> 0 .. Cardinality(Procs)]
    BY <1>6, <2>k, <1>t, OneLess DEF Brelse, Unref
  <2>1. TypeOK'
    BY <1>6, <2>f, <2>r, <1>t DEF Brelse, Goto, TypeOK, PCs
  <2>2. RefInv'
    BY <2>r
  <2>3. BufInv'
    BY <2>f, <2>k, <2>m, <1>t, <1>b, BcacheAssumption DEF BufInv
  <2>4. OneBuffer'
    BY <2>f, <2>k, <2>m, <1>t, <1>b, BcacheAssumption DEF OneBuffer
  <2>5. OwnInv'
    BY <2>f, <2>k, <2>m, <1>t, <1>b, BcacheAssumption DEF OwnInv, HeldPCs
  <2>6. FlagInv'
    BY <2>f, <2>k, <2>m, <1>t, <1>b, BcacheAssumption DEF FlagInv, Synced
  <2>7. QueueInv'
    BY <2>f, <2>k, <2>m, <1>t, <1>b, BcacheAssumption DEF QueueInv, Queued, Waiting, Synced
  <2>8. SleepInv'
    BY <2>f, <2>k, <2>m, <1>t, <1>b, BcacheAssumption DEF SleepInv
  <2>9. CleanInv'
    BY <2>f, <2>k, <2>m, <1>t, <1>b, BcacheAssumption DEF CleanInv
  <2> QED
    BY <2>1, <2>2, <2>3, <2>4, <2>5, <2>6, <2>7, <2>8, <2>9 DEF IInv
<1>7. ASSUME NEW p \in Procs, NEW v \in Vals, Change(p, v) PROVE IInv'
  <2>f. pc[p] = "use" /\ UNCHANGED <<blk, ref, valid, dirty, owner, disk, idequeue, active, buf, want, panicked>>
    BY <1>7 DEF Change, ideVars
  <2>k. buf[p] \in Bufs
    BY <2>f, <1>b
  <2>m. \A q \in Procs : pc'[q] = IF q = p THEN "changed" ELSE pc[q]
    BY <1>7, <1>t DEF Change, Goto, TypeOK
  <2>n. \A j \in Bufs : data'[j] = IF j = buf[p] THEN v ELSE data[j]
    BY <1>7, <2>k, <1>t DEF Change, TypeOK
  <2>1. TypeOK'
    BY <1>7, <2>f, <2>k, <1>t DEF Change, Goto, TypeOK, PCs
  <2>2. RefInv'
    BY <2>f, <1>t, SameUsers
  <2>3. BufInv'
    BY <2>f, <2>k, <2>m, <2>n, <1>t, <1>b, BcacheAssumption DEF BufInv
  <2>4. OneBuffer'
    BY <2>f, <2>k, <2>m, <2>n, <1>t, <1>b, BcacheAssumption DEF OneBuffer
  <2>5. OwnInv'
    BY <2>f, <2>k, <2>m, <2>n, <1>t, <1>b, BcacheAssumption DEF OwnInv, HeldPCs
  <2>6. FlagInv'
    BY <2>f, <2>k, <2>m, <2>n, <1>t, <1>b, BcacheAssumption DEF FlagInv, Synced
  <2>7. QueueInv'
    BY <2>f, <2>k, <2>m, <2>n, <1>t, <1>b, BcacheAssumption DEF QueueInv, Queued, Waiting, Synced
  <2>8. SleepInv'
    BY <2>f, <2>k, <2>m, <2>n, <1>t, <1>b, BcacheAssumption DEF SleepInv
  <2>9. CleanInv'
    BY <2>f, <2>k, <2>m, <2>n, <1>t, <1>b, BcacheAssumption DEF CleanInv
  <2> QED
    BY <2>1, <2>2, <2>3, <2>4, <2>5, <2>6, <2>7, <2>8, <2>9 DEF IInv
<1>8. ASSUME NEW p \in Procs, NEW to \in {"use", "iderw"}, SetDirty(p, to) PROVE IInv'
  <2>f. pc[p] = "changed" /\ UNCHANGED <<blk, ref, valid, data, owner, disk, idequeue, active, buf, want, panicked>>
    BY <1>8 DEF SetDirty, ideVars
  <2>k. buf[p] \in Bufs
    BY <2>f, <1>b
  <2>m. \A q \in Procs : pc'[q] = IF q = p THEN to ELSE pc[q]
    BY <1>8, <1>t DEF SetDirty, Goto, TypeOK
  <2>n. \A j \in Bufs : dirty'[j] = IF j = buf[p] THEN TRUE ELSE dirty[j]
    BY <1>8, <2>k, <1>t DEF SetDirty, TypeOK
  <2>o. \A q \in Procs \ {p} : pc[q] \in HeldPCs => buf[q] # buf[p]
    BY <2>f, <1>t, OneHolder DEF HeldPCs
  <2>x. \A q \in Procs \ {p} :
          /\ pc'[q] = pc[q]
          /\ pc[q] \in HeldPCs => dirty'[buf[q]] = dirty[buf[q]]
    BY <2>o, <2>m, <2>n, <1>b DEF HeldPCs
  <2>d. ~ Queued(buf[p])
    BY <2>f, <2>k, <2>o, <1>t DEF QueueInv, Waiting, HeldPCs
  <2>y. valid[buf[p]] /\ dirty'[buf[p]]
    BY <2>f, <2>k, <2>n, <1>t DEF FlagInv
  <2>1. TypeOK'
    BY <1>8, <2>f, <2>k, <1>t DEF SetDirty, Goto, TypeOK, PCs
  <2>2. RefInv'
    BY <2>f, <1>t, SameUsers
  <2>3. BufInv'
    BY <2>f, <2>k, <2>m, <2>n, <1>t, <1>b, BcacheAssumption DEF BufInv
  <2>4. OneBuffer'
    BY <2>f, <2>k, <2>m, <2>n, <1>t, <1>b, BcacheAssumption DEF OneBuffer
  <2>5. OwnInv'
    BY <2>f, <2>k, <2>m, <2>n, <1>t, <1>b, BcacheAssumption DEF OwnInv, HeldPCs
  <2>6. FlagInv'
    <3>1. \A j \in Bufs : dirty'[j] => valid[j]
      BY <2>n, <2>y, <1>t DEF FlagInv
    <3>2. \A q \in Procs : pc'[q] \in {"use", "changed"} => valid[buf[q]]
      BY <2>m, <2>y, <1>t DEF FlagInv
    <3>3. \A q \in Procs : pc'[q] = "iderw" => ~ (valid[buf[q]] /\ ~ dirty'[buf[q]])
      BY <2>x, <2>y, <2>m, <1>t DEF FlagInv, Synced, HeldPCs
    <3>4. \A j \in Bufs : valid[j] => blk[j] # NoBlock
      BY <1>t DEF FlagInv
    <3> QED
      BY <3>1, <3>2, <3>3, <3>4, <2>f DEF FlagInv, Synced
  <2>7. QueueInv'
    <3>1. \A j \in Bufs : (\E i \in DOMAIN idequeue : idequeue[i] = j) =>
            /\ ~ (valid[j] /\ ~ dirty'[j])
            /\ \E q \in Procs : buf[q] = j /\ pc'[q] \in {"iosleep", "iowake"}
      <4> SUFFICES ASSUME NEW j \in Bufs, Queued(j)
                   PROVE  /\ ~ (valid[j] /\ ~ dirty'[j])
                          /\ \E q \in Procs : buf[q] = j /\ pc'[q] \in {"iosleep", "iowake"}
        BY DEF Queued
      <4>1. ~ Synced(j) /\ j # buf[p]
        BY <2>d, <1>t DEF QueueInv
      <4>2. PICK q \in Procs : buf[q] = j /\ Waiting(q)
        BY <1>t DEF QueueInv
      <4> QED
        BY <4>1, <4>2, <2>n, <2>m, <2>f DEF Synced, Waiting
    <3>2. \A q \in Procs : pc'[q] = "iosleep" => \E i \in DOMAIN idequeue : idequeue[i] = buf[q]
      BY <2>m, <1>t DEF QueueInv, Queued
    <3>3. \A q \in Procs : pc'[q] = "iowake" =>
            (\E i \in DOMAIN idequeue : idequeue[i] = buf[q]) \/ (valid[buf[q]] /\ ~ dirty'[buf[q]])
      BY <2>x, <2>m, <1>t DEF QueueInv, Queued, Synced, HeldPCs
    <3>4. /\ \A j, m \in DOMAIN idequeue : idequeue[j] = idequeue[m] => j = m
          /\ active = IF idequeue = <<>> THEN NoBuf ELSE Head(idequeue)
      BY <1>t DEF QueueInv
    <3> QED
      BY <3>1, <3>2, <3>3, <3>4, <2>f DEF QueueInv, Queued, Waiting, Synced
  <2>8. SleepInv'
    BY <2>f, <2>k, <2>m, <2>n, <1>t, <1>b, BcacheAssumption DEF SleepInv
  <2>9. CleanInv'
    <3> SUFFICES ASSUME NEW j \in Bufs, valid[j], ~ dirty'[j]
                 PROVE  data[j] = disk[blk[j]] \/ \E q \in Procs : buf[q] = j /\ pc'[q] = "changed"
      BY <2>f DEF CleanInv
    <3>1. j # buf[p] /\ ~ dirty[j]
      BY <2>n, <2>k
    <3> QED
      BY <3>1, <2>m, <1>t DEF CleanInv
  <2> QED
    BY <2>1, <2>2, <2>3, <2>4, <2>5, <2>6, <2>7, <2>8, <2>9 DEF IInv
<1>9. ASSUME NEW p \in Procs, Iderw(p) PROVE IInv'
  <2>f. pc[p] = "iderw" /\ UNCHANGED <<blk, ref, valid, dirty, data, owner, disk, buf, want, panicked>>
    BY <1>9 DEF Iderw, bufVars
  <2>k. buf[p] \in Bufs
    BY <2>f, <1>b
  <2>m. \A q \in Procs : pc'[q] = IF q = p THEN "iosleep" ELSE pc[q]
    BY <1>9, <1>t DEF Iderw, Goto, TypeOK
  <2>o. \A q \in Procs \ {p} : pc[q] \in HeldPCs => buf[q] # buf[p]
    BY <2>f, <1>t, OneHolder DEF HeldPCs
  <2>d. ~ Queued(buf[p]) /\ ~ Synced(buf[p])
    BY <2>f, <2>k, <2>o, <1>t DEF QueueInv, FlagInv, Waiting, HeldPCs
  <2>l. Len(idequeue) \in Nat /\ DOMAIN idequeue = 1 .. Len(idequeue)
    BY <1>t DEF TypeOK
  <2>q. /\ idequeue' \in Seq(Bufs) /\ Len(idequeue') = Len(idequeue) + 1
        /\ DOMAIN idequeue' = 1 .. Len(idequeue) + 1
        /\ \A j \in 1 .. Len(idequeue) : idequeue'[j] = idequeue[j]
        /\ idequeue'[Len(idequeue) + 1] = buf[p]
    BY <1>9, <2>k, <1>t, AppendProperties DEF Iderw, TypeOK
  <2>a. active' = Head(idequeue') /\ idequeue' # <<>>
    <3>1. Head(idequeue') = idequeue'[1]
      BY <2>q
    <3>2. CASE idequeue = <<>>
      BY <1>9, <3>1, <3>2, <2>q DEF Iderw
    <3>3. CASE idequeue # <<>>
      <4>1. Len(idequeue) > 0 /\ Head(idequeue) = idequeue[1]
        BY <3>3, <1>t DEF TypeOK
      <4> QED
        BY <1>9, <4>1, <3>1, <3>3, <2>l, <2>q, <1>t DEF Iderw, QueueInv
    <3> QED
      BY <3>2, <3>3
  <2>1. TypeOK'
    BY <1>9, <2>f, <2>k, <1>t DEF Iderw, Goto, TypeOK, PCs
  <2>2. RefInv'
    BY <2>f, <1>t, SameUsers
  <2>3. BufInv'
    BY <2>f, <2>k, <2>m, <1>t, <1>b, BcacheAssumption DEF BufInv
  <2>4. OneBuffer'
    BY <2>f, <2>k, <2>m, <1>t, <1>b, BcacheAssumption DEF OneBuffer
  <2>5. OwnInv'
    BY <2>f, <2>k, <2>m, <1>t, <1>b, BcacheAssumption DEF OwnInv, HeldPCs
  <2>6. FlagInv'
    BY <2>f, <2>k, <2>m, <1>t, <1>b, BcacheAssumption DEF FlagInv, Synced
  <2>7. QueueInv'
    <3>1. \A j \in Bufs : Queued(j)' <=> Queued(j) \/ j = buf[p]
      BY <2>l, <2>q DEF Queued
    <3>2. \A j \in Bufs : Queued(j) \/ j = buf[p] =>
            ~ Synced(j) /\ \E q \in Procs : buf[q] = j /\ pc'[q] \in {"iosleep", "iowake"}
      BY <2>d, <2>m, <2>f, <1>t DEF QueueInv, Waiting
    <3>3. \A j, m \in DOMAIN idequeue' : idequeue'[j] = idequeue'[m] => j = m
      <4>1. \A j \in 1 .. Len(idequeue) : idequeue[j] # buf[p]
        BY <2>d, <2>l DEF Queued
      <4> QED
        BY <4>1, <2>l, <2>q, <1>t DEF QueueInv
    <3>4. \A q \in Procs : pc'[q] = "iosleep" => Queued(buf[q]) \/ buf[q] = buf[p]
      BY <2>m, <1>t DEF QueueInv
    <3>5. \A q \in Procs : pc'[q] = "iowake" => Queued(buf[q]) \/ Synced(buf[q])
      BY <2>m, <1>t DEF QueueInv
    <3>6. \A q \in Procs : pc'[q] # "idle" => buf[q] \in Bufs
      BY <2>m, <2>k, <1>b
    <3>7. \A j \in Bufs : Queued(j) \/ j = buf[p] => \E i \in DOMAIN idequeue' : idequeue'[i] = j
      BY <3>1 DEF Queued
    <3>8. \A q \in Procs : pc'[q] = "iosleep" => \E i \in DOMAIN idequeue' : idequeue'[i] = buf[q]
      BY <3>4, <3>6, <3>7
    <3>9. \A q \in Procs : pc'[q] = "iowake" =>
            (\E i \in DOMAIN idequeue' : idequeue'[i] = buf[q]) \/ (valid[buf[q]] /\ ~ dirty[buf[q]])
      BY <3>5, <3>6, <3>7 DEF Synced
    <3>10. \A j \in Bufs : (\E i \in DOMAIN idequeue' : idequeue'[i] = j) =>
            /\ ~ (valid[j] /\ ~ dirty[j])
            /\ \E q \in Procs : buf[q] = j /\ pc'[q] \in {"iosleep", "iowake"}
      BY <3>1, <3>2 DEF Queued, Synced
    <3> QED
      BY <3>3, <3>8, <3>9, <3>10, <2>a, <2>f DEF QueueInv, Queued, Synced, Waiting
  <2>8. SleepInv'
    BY <2>f, <2>k, <2>m, <1>t, <1>b, BcacheAssumption DEF SleepInv
  <2>9. CleanInv'
    BY <2>f, <2>k, <2>m, <1>t, <1>b, BcacheAssumption DEF CleanInv
  <2> QED
    BY <2>1, <2>2, <2>3, <2>4, <2>5, <2>6, <2>7, <2>8, <2>9 DEF IInv
<1>10. ASSUME NEW p \in Procs, IderwAgain(p) PROVE IInv'
  <2>f. pc[p] = "iowake" /\ UNCHANGED <<blk, ref, valid, dirty, data, owner, disk, idequeue, active, buf, want, panicked>>
    BY <1>10 DEF IderwAgain, bufVars, ideVars
  <2>k. buf[p] \in Bufs
    BY <2>f, <1>b
  <2>m. \A q \in Procs : pc'[q] = IF q # p THEN pc[q] ELSE IF Synced(buf[p]) THEN "use" ELSE "iosleep"
    BY <1>10, <1>t DEF IderwAgain, Goto, TypeOK
  <2>1. TypeOK'
    BY <1>10, <2>f, <2>k, <1>t DEF IderwAgain, Goto, TypeOK, PCs
  <2>2. RefInv'
    BY <2>f, <1>t, SameUsers
  <2>3. BufInv'
    BY <2>f, <2>k, <2>m, <1>t, <1>b, BcacheAssumption DEF BufInv
  <2>4. OneBuffer'
    BY <2>f, <2>k, <2>m, <1>t, <1>b, BcacheAssumption DEF OneBuffer
  <2>5. OwnInv'
    BY <2>f, <2>k, <2>m, <1>t, <1>b, BcacheAssumption DEF OwnInv, HeldPCs
  <2>6. FlagInv'
    BY <2>f, <2>k, <2>m, <1>t, <1>b, BcacheAssumption DEF FlagInv, Synced
  <2>7. QueueInv'
    BY <2>f, <2>k, <2>m, <1>t, <1>b, BcacheAssumption DEF QueueInv, Queued, Waiting, Synced
  <2>8. SleepInv'
    BY <2>f, <2>k, <2>m, <1>t, <1>b, BcacheAssumption DEF SleepInv
  <2>9. CleanInv'
    BY <2>f, <2>k, <2>m, <1>t, <1>b, BcacheAssumption DEF CleanInv
  <2> QED
    BY <2>1, <2>2, <2>3, <2>4, <2>5, <2>6, <2>7, <2>8, <2>9 DEF IInv
<1>11. ASSUME IdeIntr PROVE IInv'
  <2>f. idequeue # <<>> /\ UNCHANGED <<blk, ref, owner, buf, want, panicked>>
    BY <1>11, <1>t DEF IdeIntr, QueueInv
  <2>l. /\ Len(idequeue) \in Nat \ {0} /\ DOMAIN idequeue = 1 .. Len(idequeue)
        /\ idequeue[1] \in Bufs /\ Head(idequeue) = idequeue[1]
    BY <2>f, <1>t, HeadTailProperties, EmptySeq DEF TypeOK
  <2>k. PICK k \in Bufs : k = idequeue[1]
    BY <2>l
  <2>p. PICK p \in Procs : buf[p] = k /\ Waiting(p) /\ ~ Synced(k)
    BY <2>k, <2>l, <1>t DEF QueueInv, Queued
  <2>b. blk[k] \in Blocks
    BY <2>p, <1>t DEF BufInv, Waiting
  <2>o. \A q \in Procs \ {p} : pc[q] \in HeldPCs => buf[q] # k
    BY <2>p, <1>t, OneHolder DEF HeldPCs, Waiting
  <2>q. /\ idequeue' = Tail(idequeue) /\ idequeue' \in Seq(Bufs)
        /\ DOMAIN idequeue' = 1 .. Len(idequeue) - 1
        /\ \A j \in 1 .. Len(idequeue) - 1 : idequeue'[j] = idequeue[j + 1]
    BY <1>11, <2>f, <2>l, <1>t, HeadTailProperties DEF IdeIntr, TypeOK
  <2>a. active' = IF idequeue' = <<>> THEN NoBuf ELSE Head(idequeue')
    BY <1>11, <2>q DEF IdeIntr, NextRequest
  <2>d. \/ /\ dirty[k]
           /\ disk' = [disk EXCEPT ![blk[k]] = data[k]] /\ data' = data
        \/ /\ ~ dirty[k]
           /\ data' = [data EXCEPT ![k] = disk[blk[k]]] /\ disk' = disk
    BY <1>11, <2>k, <2>l DEF IdeIntr
  <2>e. /\ valid' = [valid EXCEPT ![k] = TRUE] /\ dirty' = [dirty EXCEPT ![k] = FALSE]
        /\ pc' = Awake(pc, {q \in Procs : pc[q] = "iosleep" /\ buf[q] = k})
    BY <1>11, <2>k, <2>l DEF IdeIntr
  <2>n. /\ \A j \in Bufs : valid'[j] = IF j = k THEN TRUE ELSE valid[j]
        /\ \A j \in Bufs : dirty'[j] = IF j = k THEN FALSE ELSE dirty[j]
    BY <2>e, <1>t DEF TypeOK
  <2>m. /\ pc' \in [Procs -> PCs]
        /\ \A q \in Procs : pc'[q] = IF pc[q] = "iosleep" /\ buf[q] = k THEN "iowake" ELSE pc[q]
    BY <2>e, <1>t, AwakeTyped
  <2>h. \A j \in Bufs : (\E i \in DOMAIN idequeue' : idequeue'[i] = j) <=> Queued(j) /\ j # k
    <3>1. \A j \in Bufs, i \in DOMAIN idequeue' : idequeue'[i] = j => Queued(j) /\ j # k
      BY <2>k, <2>l, <2>q, <1>t DEF QueueInv, Queued
    <3>2. ASSUME NEW j \in Bufs, NEW i \in 1 .. Len(idequeue), idequeue[i] = j, j # k
          PROVE  \E h \in DOMAIN idequeue' : idequeue'[h] = j
      <4>1. i - 1 \in 1 .. Len(idequeue) - 1 /\ (i - 1) + 1 = i
        BY <3>2, <2>k, <2>l
      <4> QED
        BY <4>1, <3>2, <2>q
    <3> QED
      BY <3>1, <3>2, <2>l DEF Queued
  <2>1. TypeOK'
    <3>1. data' \in [Bufs -> Vals] /\ disk' \in [Blocks -> Vals]
      BY <2>b, <2>d, <1>t DEF TypeOK
    <3>2. active' \in Bufs \cup {NoBuf}
      BY <2>a, <2>q, HeadTailProperties
    <3> QED
      BY <3>1, <3>2, <2>e, <2>f, <2>m, <2>q, <1>t DEF TypeOK
  <2>2. RefInv'
    BY <2>f, <1>t, SameUsers
  <2>3. BufInv'
    BY <2>f, <2>k, <2>b, <2>m, <2>n, <1>t, <1>b, BcacheAssumption DEF BufInv
  <2>4. OneBuffer'
    BY <2>f, <2>k, <2>b, <2>m, <2>n, <1>t, <1>b, BcacheAssumption DEF OneBuffer
  <2>5. OwnInv'
    BY <2>f, <2>k, <2>b, <2>m, <2>n, <1>t, <1>b, BcacheAssumption DEF OwnInv, HeldPCs
  <2>6. FlagInv'
    <3>1. /\ \A j \in Bufs : valid'[j] => blk[j] # NoBlock
          /\ \A j \in Bufs : dirty'[j] => valid'[j]
      BY <2>b, <2>n, <1>t, BcacheAssumption DEF FlagInv
    <3>2. \A q \in Procs : pc'[q] \in {"use", "changed"} => valid'[buf[q]]
      BY <2>m, <2>n, <1>t, <1>b DEF FlagInv
    <3>3. \A q \in Procs : pc'[q] = "iderw" => ~ (valid'[buf[q]] /\ ~ dirty'[buf[q]])
      <4> SUFFICES ASSUME NEW q \in Procs, pc[q] = "iderw"
                   PROVE  ~ (valid'[buf[q]] /\ ~ dirty'[buf[q]])
        BY <2>m
      <4>1. buf[q] \in Bufs /\ buf[q] # k
        BY <2>o, <2>p, <1>b DEF HeldPCs, Waiting
      <4> QED
        BY <4>1, <2>n, <1>t DEF FlagInv, Synced
    <3> QED
      BY <3>1, <3>2, <3>3, <2>f DEF FlagInv, Synced
  <2>7. QueueInv'
    <3>1. \A j \in Bufs : Queued(j) /\ j # k =>
            /\ ~ (valid'[j] /\ ~ dirty'[j])
            /\ \E q \in Procs : buf[q] = j /\ pc'[q] \in {"iosleep", "iowake"}
      <4> SUFFICES ASSUME NEW j \in Bufs, Queued(j), j # k
                   PROVE  /\ ~ (valid'[j] /\ ~ dirty'[j])
                          /\ \E q \in Procs : buf[q] = j /\ pc'[q] \in {"iosleep", "iowake"}
        OBVIOUS
      <4>1. ~ Synced(j)
        BY <1>t DEF QueueInv
      <4>2. PICK q \in Procs : buf[q] = j /\ Waiting(q)
        BY <1>t DEF QueueInv
      <4> QED
        BY <4>1, <4>2, <2>n, <2>m DEF Synced, Waiting
    <3>2. \A j, m \in DOMAIN idequeue' : idequeue'[j] = idequeue'[m] => j = m
      BY <2>l, <2>q, <1>t DEF QueueInv
    <3>3. \A q \in Procs : pc'[q] = "iosleep" => Queued(buf[q]) /\ buf[q] # k
      BY <2>m, <1>t DEF QueueInv
    <3>4. \A q \in Procs : pc'[q] = "iowake" =>
            (Queued(buf[q]) /\ buf[q] # k) \/ (valid'[buf[q]] /\ ~ dirty'[buf[q]])
      <4> SUFFICES ASSUME NEW q \in Procs, pc'[q] = "iowake"
                   PROVE  (Queued(buf[q]) /\ buf[q] # k) \/ (valid'[buf[q]] /\ ~ dirty'[buf[q]])
        OBVIOUS
      <4>1. CASE buf[q] = k
        BY <4>1, <2>n
      <4>2. CASE buf[q] # k
        <5>1. pc[q] = "iowake" /\ buf[q] \in Bufs
          BY <4>2, <2>m, <1>b
        <5>2. Queued(buf[q]) \/ Synced(buf[q])
          BY <5>1, <1>t DEF QueueInv
        <5> QED
          BY <4>2, <5>1, <5>2, <2>n DEF Synced
      <4> QED
        BY <4>1, <4>2
    <3>5. \A q \in Procs : pc'[q] # "idle" => buf[q] \in Bufs
      BY <2>m, <1>b
    <3>6. \A j \in Bufs : (\E i \in DOMAIN idequeue' : idequeue'[i] = j) =>
            /\ ~ (valid'[j] /\ ~ dirty'[j])
            /\ \E q \in Procs : buf[q] = j /\ pc'[q] \in {"iosleep", "iowake"}
      BY <2>h, <3>1
    <3>7. \A q \in Procs : pc'[q] = "iosleep" => \E i \in DOMAIN idequeue' : idequeue'[i] = buf[q]
      BY <2>h, <3>3, <3>5
    <3>8. \A q \in Procs : pc'[q] = "iowake" =>
            (\E i \in DOMAIN idequeue' : idequeue'[i] = buf[q]) \/ (valid'[buf[q]] /\ ~ dirty'[buf[q]])
      BY <2>h, <3>4, <3>5
    <3> QED
      BY <3>2, <3>6, <3>7, <3>8, <2>a, <2>f DEF QueueInv, Queued, Synced, Waiting
  <2>8. SleepInv'
    BY <2>f, <2>k, <2>b, <2>m, <2>n, <1>t, <1>b, BcacheAssumption DEF SleepInv
  <2>9. CleanInv'
    <3> SUFFICES ASSUME NEW j \in Bufs, valid'[j], ~ dirty'[j]
                 PROVE  data'[j] = disk'[blk[j]] \/ \E q \in Procs : buf[q] = j /\ pc'[q] = "changed"
      BY <2>f DEF CleanInv
    <3>1. CASE j = k
      BY <3>1, <2>b, <2>d, <1>t DEF TypeOK
    <3>2. CASE j # k
      <4>1. valid[j] /\ ~ dirty[j] /\ blk[j] # NoBlock /\ blk[j] # blk[k]
        BY <3>2, <2>b, <2>n, <1>t, BcacheAssumption DEF FlagInv, OneBuffer
      <4>2. data'[j] = data[j] /\ disk'[blk[j]] = disk[blk[j]]
        BY <4>1, <3>2, <2>b, <2>d, <1>t DEF TypeOK
      <4> QED
        BY <4>1, <4>2, <2>m, <1>t DEF CleanInv
    <3> QED
      BY <3>1, <3>2
  <2> QED
    BY <2>1, <2>2, <2>3, <2>4, <2>5, <2>6, <2>7, <2>8, <2>9 DEF IInv
<1>12. ASSUME NEW p \in Procs, Kill(p) PROVE IInv'
  <2>f. pc[p] \in {"locksleep", "iosleep"} /\ UNCHANGED <<blk, ref, valid, dirty, data, owner, disk, idequeue, active, buf, want, panicked>>
    BY <1>12 DEF Kill, bufVars, ideVars
  <2>m. /\ pc' \in [Procs -> PCs]
        /\ \A q \in Procs : pc'[q] = IF q # p THEN pc[q] ELSE IF pc[p] = "locksleep" THEN "lock" ELSE "iowake"
    BY <1>12, <1>t, AwakeTyped DEF Kill
  <2>1. TypeOK'
    BY <2>f, <2>m, <1>t, <1>b, BcacheAssumption DEF TypeOK, PCs
  <2>2. RefInv'
    BY <2>f, <1>t, SameUsers
  <2>3. BufInv'
    BY <2>f, <2>m, <1>t, <1>b, BcacheAssumption DEF BufInv
  <2>4. OneBuffer'
    BY <2>f, <2>m, <1>t, <1>b, BcacheAssumption DEF OneBuffer
  <2>5. OwnInv'
    BY <2>f, <2>m, <1>t, <1>b, BcacheAssumption DEF OwnInv, HeldPCs
  <2>6. FlagInv'
    BY <2>f, <2>m, <1>t, <1>b, BcacheAssumption DEF FlagInv, Synced
  <2>7. QueueInv'
    BY <2>f, <2>m, <1>t, <1>b, BcacheAssumption DEF QueueInv, Queued, Waiting, Synced
  <2>8. SleepInv'
    BY <2>f, <2>m, <1>t, <1>b, BcacheAssumption DEF SleepInv
  <2>9. CleanInv'
    BY <2>f, <2>m, <1>t, <1>b, BcacheAssumption DEF CleanInv
  <2> QED
    BY <2>1, <2>2, <2>3, <2>4, <2>5, <2>6, <2>7, <2>8, <2>9 DEF IInv
<1>13. CASE UNCHANGED vars
  <2>f. UNCHANGED <<blk, ref, valid, dirty, data, owner, disk, idequeue, active, pc, buf, want, panicked>>
    BY <1>13 DEF vars, bufVars, ideVars
  <2> QED
    BY <2>f, <1>t DEF IInv, TypeOK, RefInv, Users, BufInv, OneBuffer, OwnInv, FlagInv, QueueInv, Queued, Waiting,
                      Synced, SleepInv, CleanInv
<1> QED
  BY <1>1, <1>2, <1>3, <1>4, <1>5, <1>6, <1>7, <1>8, <1>9, <1>10, <1>11, <1>12, <1>13 DEF Next, Step, LogWrite, Bwrite

-----------------------------------------------------------------------------
(* The invariant holds in every reachable state, whatever the sizes of     *)
(* the cache, the disk and the process table.                              *)
THEOREM Invariant == Spec => []IInv
<1>1. Init => IInv
  BY InitIInv
<1>2. IInv /\ [Next]_vars => IInv'
  BY StepIInv
<1> QED
  BY <1>1, <1>2, PTL DEF Spec

(* bget() drops bcache.lock before it locks the buffer: it is still the    *)
(* buffer of the block when bread() returns, valid and the caller's own.   *)
THEOREM Stability == Spec => []BufferStable
<1>1. IInv => BufferStable
  <2> SUFFICES ASSUME IInv PROVE BufferStable
    OBVIOUS
  <2>1. \A p \in Procs : pc[p] \in {"use", "changed"} => owner[buf[p]] = p
    BY DEF IInv, TypeOK, BufInv, OwnInv, HeldPCs
  <2> QED
    BY <2>1 DEF IInv, BufferStable, BufInv, OneBuffer, FlagInv
<1> QED
  BY <1>1, Invariant, PTL

(* Who sleeps for the lock of a buffer or for the disk is to be woken:     *)
(* acquiresleep() and iderw() lose neither a wakeup nor a request.         *)
THEOREM NoLostRequest == Spec => []SleepersJustified
<1>1. IInv => SleepersJustified
  BY DEF IInv, SleepersJustified, SleepInv, QueueInv, Queued
<1> QED
  BY <1>1, Invariant, PTL
-----------------------------------------------------------------------------
(* Refinement.  What a reader of b finds and who has b locked, as          *)
(* functions of the arrays of bcache.buf.                                  *)
ViewAt(B, V, D, S, b) ==
  LET ks == {k \in {j \in Bufs : B[j] = b} : V[k]}
  IN IF ks = {} THEN S[b] ELSE D[CHOOSE k \in ks : TRUE]

HolderAt(B, O, b) ==
  IF {j \in Bufs : B[j] = b} = {} THEN NoProc
  ELSE O[CHOOSE k \in {j \in Bufs : B[j] = b} : TRUE]

Holder(b) ==
  IF Cached(b) = {} THEN NoProc ELSE owner[CHOOSE k \in Cached(b) : TRUE]

(* With one buffer for a block, both are read off that buffer.             *)
LEMMA ReadOff ==
  ASSUME NEW B, NEW V, NEW D, NEW S, NEW O, NEW b \in Blocks, NEW k \in Bufs, B[k] = b,
         \A j \in Bufs : B[j] = b => j = k
  PROVE  /\ ViewAt(B, V, D, S, b) = IF V[k] THEN D[k] ELSE S[b]
         /\ HolderAt(B, O, b) = O[k]
<1>1. {j \in Bufs : B[j] = b} = {k}
  OBVIOUS
<1>2. {j \in {k} : V[j]} = IF V[k] THEN {k} ELSE {}
  OBVIOUS
<1>3. (CHOOSE j \in {k} : TRUE) = k /\ {k} # {}
  OBVIOUS
<1>4. HolderAt(B, O, b) = O[k]
  BY <1>1, <1>3 DEF HolderAt
<1>5. CASE V[k]
  BY <1>1, <1>2, <1>3, <1>4, <1>5 DEF ViewAt
<1>6. CASE ~ V[k]
  BY <1>1, <1>2, <1>4, <1>6 DEF ViewAt
<1> QED
  BY <1>5, <1>6

LEMMA ReadOffNone ==
  ASSUME NEW B, NEW V, NEW D, NEW S, NEW O, NEW b \in Blocks,
         \A j \in Bufs : B[j] # b
  PROVE  ViewAt(B, V, D, S, b) = S[b] /\ HolderAt(B, O, b) = NoProc
<1>1. {j \in Bufs : B[j] = b} = {}
  OBVIOUS
<1>2. {j \in {} : V[j]} = {}
  OBVIOUS
<1> QED
  BY <1>1, <1>2 DEF ViewAt, HolderAt

LEMMA ViewsAt ==
  \A b : View(b) = ViewAt(blk, valid, data, disk, b) /\ Holder(b) = HolderAt(blk, owner, b)
BY DEF View, ViewAt, Cached, Holder, HolderAt

LEMMA OneInv ==
  ASSUME NEW B, NEW b \in Blocks,
         \A j, k \in Bufs : B[j] = B[k] => j = k \/ B[j] = NoBlock
  PROVE  \A k \in Bufs : B[k] = b => \A j \in Bufs : B[j] = b => j = k
BY BcacheAssumption

(* The holder of a block is the process that has its buffer's lock.        *)
LEMMA StoreRead ==
  ASSUME IInv, NEW b \in Blocks
  PROVE  /\ \A k \in Bufs : blk[k] = b =>
              View(b) = (IF valid[k] THEN data[k] ELSE disk[b]) /\ Holder(b) = owner[k]
         /\ (\A k \in Bufs : blk[k] # b) => View(b) = disk[b] /\ Holder(b) = NoProc
<1>1. \A k \in Bufs : blk[k] = b => \A j \in Bufs : blk[j] = b => j = k
  BY OneInv DEF IInv, OneBuffer
<1> QED
  BY <1>1, ReadOff, ReadOffNone, ViewsAt

(* The same after a step.                                                  *)
LEMMA StoreReadNext ==
  ASSUME IInv', NEW b \in Blocks
  PROVE  /\ \A k \in Bufs : blk'[k] = b =>
              View(b)' = (IF valid'[k] THEN data'[k] ELSE disk'[b]) /\ Holder(b)' = owner'[k]
         /\ (\A k \in Bufs : blk'[k] # b) => View(b)' = disk'[b] /\ Holder(b)' = NoProc
<1>0. \A j, k \in Bufs : blk'[j] = blk'[k] => j = k \/ blk'[j] = NoBlock
  BY DEF IInv, OneBuffer
<1>1. \A k \in Bufs : blk'[k] = b => \A j \in Bufs : blk'[j] = b => j = k
  BY <1>0, OneInv
<1>2. View(b)' = ViewAt(blk', valid', data', disk', b) /\ Holder(b)' = HolderAt(blk', owner', b)
  BY DEF View, ViewAt, Cached, Holder, HolderAt
<1> QED
  BY <1>1, <1>2, ReadOff, ReadOffNone

(* Steps that leave what is read, and the locks, alone.                    *)
SameView == \A b \in Blocks : View(b)' = View(b)
SameHolder == \A b \in Blocks : Holder(b)' = Holder(b)

LEMMA Stutters ==
  ASSUME SameView, SameHolder
  PROVE  UNCHANGED Store!bvars
BY DEF SameView, SameHolder, Store!bvars, Holder

(* Recycling: the buffer of the new block is not valid, that of the old    *)
(* one was written back and is nobody's.                                   *)
LEMMA RecycleStutters ==
  ASSUME IInv, IInv', NEW p \in Procs, NEW c \in Blocks, BgetRecycle(p, c)
  PROVE  SameView /\ SameHolder
<1>t. TypeOK /\ RefInv /\ OneBuffer /\ OwnInv /\ CleanInv
  BY DEF IInv
<1>1. PICK k \in Unused : blk' = [blk EXCEPT ![k] = c] /\ valid' = [valid EXCEPT ![k] = FALSE]
  BY DEF BgetRecycle
<1>2. UNCHANGED <<data, owner, disk>> /\ \A j \in Bufs : blk[j] # c
  BY DEF BgetRecycle, ideVars, Cached
<1>3. k \in Bufs /\ ~ dirty[k] /\ \A q \in Procs : buf[q] # k
  BY <1>1, <1>t, UnusedFree
<1>4. owner[k] = NoProc
  BY <1>3, <1>t DEF OwnInv, TypeOK
<1>5. /\ \A j \in Bufs : blk'[j] = IF j = k THEN c ELSE blk[j]
      /\ \A j \in Bufs : valid'[j] = IF j = k THEN FALSE ELSE valid[j]
  BY <1>1, <1>3, <1>t DEF TypeOK
<1> SUFFICES ASSUME NEW b \in Blocks PROVE View(b)' = View(b) /\ Holder(b)' = Holder(b)
  BY DEF SameView, SameHolder
<1>6. CASE b = c
  <2>1. View(b) = disk[b] /\ Holder(b) = NoProc
    BY <1>2, <1>6, StoreRead
  <2>2. View(b)' = disk'[b] /\ Holder(b)' = owner'[k]
    BY <1>3, <1>5, <1>6, StoreReadNext
  <2> QED
    BY <2>1, <2>2, <1>2, <1>4
<1>7. CASE b # c /\ b = blk[k]
  <2>1. View(b) = (IF valid[k] THEN data[k] ELSE disk[b]) /\ Holder(b) = owner[k]
    BY <1>3, <1>7, StoreRead
  <2>2. valid[k] => data[k] = disk[b]
    BY <1>3, <1>7, <1>t DEF CleanInv
  <2>3. \A j \in Bufs : blk'[j] # b
    BY <1>5, <1>7, <1>3, <1>t, BcacheAssumption DEF OneBuffer
  <2>4. View(b)' = disk'[b] /\ Holder(b)' = NoProc
    BY <2>3, StoreReadNext
  <2> QED
    BY <2>1, <2>2, <2>4, <1>2, <1>4
<1>8. CASE b # c /\ b # blk[k] /\ \E j \in Bufs : blk[j] = b
  <2>1. PICK j \in Bufs : blk[j] = b
    BY <1>8
  <2>2. j # k /\ blk'[j] = b /\ valid'[j] = valid[j]
    BY <2>1, <1>5, <1>8
  <2> QED
    BY <2>1, <2>2, <1>2, StoreRead, StoreReadNext
<1>9. CASE b # c /\ \A j \in Bufs : blk[j] # b
  <2>1. \A j \in Bufs : blk'[j] # b
    BY <1>9, <1>5
  <2> QED
    BY <2>1, <1>9, <1>2, StoreRead, StoreReadNext
<1> QED
  BY <1>6, <1>7, <1>8, <1>9

(* The disk writes the contents readers already see, or reads the block    *)
(* into a buffer that was not valid.                                       *)
LEMMA IdeIntrStutters ==
  ASSUME IInv, IInv', IdeIntr
  PROVE  SameView /\ SameHolder
<1>t. TypeOK /\ BufInv /\ OneBuffer /\ FlagInv /\ QueueInv
  BY DEF IInv
<1>1. UNCHANGED <<blk, owner>> /\ idequeue # <<>>
  BY <1>t DEF IdeIntr, QueueInv
<1>2. /\ Len(idequeue) \in Nat \ {0} /\ DOMAIN idequeue = 1 .. Len(idequeue)
      /\ idequeue[1] \in Bufs /\ Head(idequeue) = idequeue[1]
  BY <1>1, <1>t, HeadTailProperties, EmptySeq DEF TypeOK
<1>3. PICK k \in Bufs : k = Head(idequeue)
  BY <1>2
<1>4. PICK p \in Procs : buf[p] = k /\ Waiting(p) /\ ~ Synced(k)
  BY <1>2, <1>3, <1>t DEF QueueInv, Queued
<1>5. blk[k] \in Blocks
  BY <1>4, <1>t DEF BufInv, Waiting
<1>6. \/ /\ dirty[k]
         /\ disk' = [disk EXCEPT ![blk[k]] = data[k]] /\ data' = data
      \/ /\ ~ dirty[k]
         /\ data' = [data EXCEPT ![k] = disk[blk[k]]] /\ disk' = disk
  BY <1>3 DEF IdeIntr
<1>7. \A j \in Bufs : valid'[j] = IF j = k THEN TRUE ELSE valid[j]
  BY <1>3, <1>t DEF IdeIntr, TypeOK
<1>8. dirty[k] => valid[k]
  BY <1>t DEF FlagInv
<1>9. ~ dirty[k] => ~ valid[k]
  BY <1>4 DEF Synced
<1> SUFFICES ASSUME NEW b \in Blocks PROVE View(b)' = View(b) /\ Holder(b)' = Holder(b)
  BY DEF SameView, SameHolder
<1>10. CASE b = blk[k]
  <2>1. View(b) = (IF valid[k] THEN data[k] ELSE disk[b]) /\ Holder(b) = owner[k]
    BY <1>10, StoreRead
  <2>2. View(b)' = data'[k] /\ Holder(b)' = owner[k]
    BY <1>1, <1>7, <1>10, StoreReadNext
  <2>3. data'[k] = IF dirty[k] THEN data[k] ELSE disk[b]
    BY <1>6, <1>10, <1>t DEF TypeOK
  <2> QED
    BY <2>1, <2>2, <2>3, <1>8, <1>9
<1>11. CASE b # blk[k] /\ \E j \in Bufs : blk[j] = b
  <2>1. PICK j \in Bufs : blk[j] = b
    BY <1>11
  <2>2. j # k /\ valid'[j] = valid[j] /\ data'[j] = data[j] /\ disk'[b] = disk[b]
    BY <2>1, <1>5, <1>6, <1>7, <1>11, <1>t DEF TypeOK
  <2> QED
    BY <2>1, <2>2, <1>1, StoreRead, StoreReadNext
<1>12. CASE \A j \in Bufs : blk[j] # b
  <2>1. disk'[b] = disk[b]
    BY <1>5, <1>6, <1>12, <1>t DEF TypeOK
  <2> QED
    BY <2>1, <1>1, <1>12, StoreRead, StoreReadNext
<1> QED
  BY <1>10, <1>11, <1>12

(* acquiresleep() that finds the lock free is a Take, or waits for it, ... *)
LEMMA AcquireTakes ==
  ASSUME IInv, IInv', NEW p \in Procs, AcquireSleep(p)
  PROVE  Store!Take(p, want[p]) \/ UNCHANGED Store!bvars
<1>t. TypeOK /\ BufInv /\ OneBuffer
  BY DEF IInv
<1>1. UNCHANGED <<blk, valid, data, disk>> /\ pc[p] = "lock"
  BY DEF AcquireSleep, bufVars, ideVars
<1>2. SameView
  BY <1>1 DEF SameView, View, Cached
<1>3. CASE owner[buf[p]] # NoProc
  <2>1. owner' = owner
    BY <1>3 DEF AcquireSleep
  <2> QED
    BY <2>1, <1>1, <1>2, Stutters DEF SameHolder, Holder, Cached
<1>4. CASE owner[buf[p]] = NoProc
  <2>1. buf[p] \in Bufs /\ want[p] \in Blocks /\ blk[buf[p]] = want[p]
    BY <1>1, <1>t DEF BufInv, TypeOK
  <2>2. \A j \in Bufs : owner'[j] = IF j = buf[p] THEN p ELSE owner[j]
    BY <1>4, <2>1, <1>t DEF AcquireSleep, TypeOK
  <2>3. Holder(want[p]) = NoProc
    BY <1>4, <2>1, StoreRead
  <2>4. \A b \in Blocks : Holder(b)' = IF b = want[p] THEN p ELSE Holder(b)
    <3> SUFFICES ASSUME NEW b \in Blocks PROVE Holder(b)' = IF b = want[p] THEN p ELSE Holder(b)
      OBVIOUS
    <3>1. CASE \E j \in Bufs : blk[j] = b
      <4>1. PICK j \in Bufs : blk[j] = b
        BY <3>1
      <4>2. Holder(b)' = owner'[j] /\ Holder(b) = owner[j]
        BY <4>1, <1>1, StoreRead, StoreReadNext
      <4>3. j = buf[p] <=> b = want[p]
        BY <4>1, <2>1, <1>t, BcacheAssumption DEF OneBuffer
      <4> QED
        BY <4>2, <4>3, <2>2
    <3>2. CASE \A j \in Bufs : blk[j] # b
      BY <3>2, <2>1, <1>1, StoreRead, StoreReadNext
    <3> QED
      BY <3>1, <3>2
  <2>5. [b \in Blocks |-> Holder(b)]' = [[b \in Blocks |-> Holder(b)] EXCEPT ![want[p]] = p]
    BY <2>1, <2>4
  <2>6. UNCHANGED [b \in Blocks |-> View(b)]
    BY <1>2 DEF SameView
  <2> QED
    BY <2>1, <2>3, <2>5, <2>6 DEF Store!Take, Holder
<1> QED
  BY <1>3, <1>4

(* ... releasesleep() is a Give, ...                                       *)
LEMMA ReleaseGives ==
  ASSUME IInv, IInv', NEW p \in Procs, ReleaseSleep(p)
  PROVE  Store!Give(p, want[p]) /\ want[p] \in Blocks
<1>t. TypeOK /\ BufInv /\ OneBuffer /\ OwnInv
  BY DEF IInv
<1>1. UNCHANGED <<blk, valid, data, disk>> /\ pc[p] = "use"
  BY DEF ReleaseSleep, bufVars, ideVars
<1>2. SameView
  BY <1>1 DEF SameView, View, Cached
<1>3. buf[p] \in Bufs /\ want[p] \in Blocks /\ blk[buf[p]] = want[p] /\ owner[buf[p]] = p
  <2>1. buf[p] \in Bufs /\ want[p] \in Blocks /\ blk[buf[p]] = want[p]
    BY <1>1, <1>t DEF BufInv, TypeOK
  <2> QED
    BY <2>1, <1>1, <1>t DEF OwnInv, HeldPCs
<1>4. \A j \in Bufs : owner'[j] = IF j = buf[p] THEN NoProc ELSE owner[j]
  BY <1>3, <1>t DEF ReleaseSleep, TypeOK
<1>5. Holder(want[p]) = p
  BY <1>3, StoreRead
<1>6. \A b \in Blocks : Holder(b)' = IF b = want[p] THEN NoProc ELSE Holder(b)
  <2> SUFFICES ASSUME NEW b \in Blocks PROVE Holder(b)' = IF b = want[p] THEN NoProc ELSE Holder(b)
    OBVIOUS
  <2>1. CASE \E j \in Bufs : blk[j] = b
    <3>1. PICK j \in Bufs : blk[j] = b
      BY <2>1
    <3>2. Holder(b)' = owner'[j] /\ Holder(b) = owner[j]
      BY <3>1, <1>1, StoreRead, StoreReadNext
    <3>3. j = buf[p] <=> b = want[p]
      BY <3>1, <1>3, <1>t, BcacheAssumption DEF OneBuffer
    <3> QED
      BY <3>2, <3>3, <1>4
  <2>2. CASE \A j \in Bufs : blk[j] # b
    BY <2>2, <1>1, <1>3, StoreRead, StoreReadNext
  <2> QED
    BY <2>1, <2>2
<1>7. /\ [b \in Blocks |-> View(b)]' = [b \in Blocks |-> View(b)]
      /\ [b \in Blocks |-> Holder(b)]' = [[b \in Blocks |-> Holder(b)] EXCEPT ![want[p]] = NoProc]
  BY <1>2, <1>3, <1>6 DEF SameView
<1>8. [b \in Blocks |-> Holder(b)][want[p]] = p
  BY <1>3, <1>5
<1> QED
  BY <1>3, <1>7, <1>8 DEF Store!Give, Holder

(* ... and the contents change in the hands of the holder.                 *)
LEMMA ChangeSets ==
  ASSUME IInv, IInv', NEW p \in Procs, NEW v \in Vals, Change(p, v)
  PROVE  Store!Set(p, want[p], v) /\ want[p] \in Blocks
<1>t. TypeOK /\ BufInv /\ OneBuffer /\ OwnInv /\ FlagInv
  BY DEF IInv
<1>1. UNCHANGED <<blk, valid, owner, disk>> /\ pc[p] = "use"
  BY DEF Change, ideVars
<1>2. SameHolder
  BY <1>1 DEF SameHolder, Holder, Cached
<1>3. /\ buf[p] \in Bufs /\ want[p] \in Blocks /\ blk[buf[p]] = want[p]
      /\ owner[buf[p]] = p /\ valid[buf[p]]
  <2>1. buf[p] \in Bufs /\ want[p] \in Blocks /\ blk[buf[p]] = want[p]
    BY <1>1, <1>t DEF BufInv, TypeOK
  <2>2. owner[buf[p]] = p
    BY <2>1, <1>1, <1>t DEF OwnInv, HeldPCs
  <2>3. valid[buf[p]]
    BY <1>1, <1>t DEF FlagInv
  <2> QED
    BY <2>1, <2>2, <2>3
<1>4. \A j \in Bufs : data'[j] = IF j = buf[p] THEN v ELSE data[j]
  BY <1>3, <1>t DEF Change, TypeOK
<1>5. Holder(want[p]) = p
  BY <1>3, StoreRead
<1>6. \A b \in Blocks : View(b)' = IF b = want[p] THEN v ELSE View(b)
  <2> SUFFICES ASSUME NEW b \in Blocks PROVE View(b)' = IF b = want[p] THEN v ELSE View(b)
    OBVIOUS
  <2>1. CASE \E j \in Bufs : blk[j] = b
    <3>1. PICK j \in Bufs : blk[j] = b
      BY <2>1
    <3>2. /\ View(b)' = IF valid[j] THEN data'[j] ELSE disk[b]
          /\ View(b) = IF valid[j] THEN data[j] ELSE disk[b]
      BY <3>1, <1>1, StoreRead, StoreReadNext
    <3>3. j = buf[p] <=> b = want[p]
      BY <3>1, <1>3, <1>t, BcacheAssumption DEF OneBuffer
    <3> QED
      BY <3>2, <3>3, <1>3, <1>4
  <2>2. CASE \A j \in Bufs : blk[j] # b
    BY <2>2, <1>1, <1>3, StoreRead, StoreReadNext
  <2> QED
    BY <2>1, <2>2
<1> QED
  BY <1>2, <1>3, <1>5, <1>6 DEF Store!Set, SameHolder, Holder

(* The other steps leave the blocks, the locks and the flag B_VALID alone. *)
LEMMA OthersStutter ==
  ASSUME UNCHANGED <<blk, valid, data, owner, disk>>
  PROVE  UNCHANGED Store!bvars
BY Stutters DEF SameView, SameHolder, View, Holder, Cached

(* bread() to brelse(), by any number of processes, with recycling, the    *)
(* disk queue and kill() in between, are the steps of a store in which a   *)
(* block has one holder at a time and only its holder changes it.          *)
THEOREM StoreRefinement == Spec => ImplementsBlockStore
<1>1. Init => Store!BInit
  <2> SUFFICES ASSUME Init PROVE Store!BInit
    OBVIOUS
  <2>1. IInv
    BY InitIInv
  <2>2. \A b \in Blocks : View(b) = disk[b] /\ Holder(b) = NoProc
    BY <2>1, StoreRead, BcacheAssumption DEF Init
  <2> QED
    BY <2>1, <2>2 DEF Store!BInit, Holder, IInv, TypeOK
<1>2. ASSUME IInv, [Next]_vars PROVE [Store!BNext]_(Store!bvars)
  <2>0. IInv'
    BY <1>2, StepIInv
  <2>1. ASSUME NEW p \in Procs, NEW b \in Blocks, BgetRecycle(p, b) PROVE UNCHANGED Store!bvars
    BY <2>0, <2>1, <1>2, RecycleStutters, Stutters
  <2>2. ASSUME IdeIntr PROVE UNCHANGED Store!bvars
    BY <2>0, <2>2, <1>2, IdeIntrStutters, Stutters
  <2>3. ASSUME NEW p \in Procs, AcquireSleep(p) PROVE [Store!BNext]_(Store!bvars)
    <3>1. want[p] \in Blocks
      BY <1>2, <2>3 DEF IInv, BufInv, AcquireSleep
    <3> QED
      BY <3>1, <2>0, <2>3, <1>2, AcquireTakes DEF Store!BNext
  <2>4. ASSUME NEW p \in Procs, ReleaseSleep(p) PROVE Store!BNext
    BY <2>0, <2>4, <1>2, ReleaseGives DEF Store!BNext
  <2>5. ASSUME NEW p \in Procs, NEW v \in Vals, Change(p, v) PROVE Store!BNext
    BY <2>0, <2>5, <1>2, ChangeSets DEF Store!BNext
  <2>6. ASSUME NEW p \in Procs,
               \/ \E b \in Blocks : BgetHit(p, b) \/ BgetPanic(p, b)
               \/ Brelse(p) \/ LogWrite(p) \/ Bwrite(p) \/ Iderw(p) \/ IderwAgain(p) \/ Kill(p)
        PROVE  UNCHANGED Store!bvars
    <3>1. UNCHANGED <<blk, valid, data, owner, disk>>
      BY <2>6 DEF BgetHit, BgetPanic, Brelse, LogWrite, Bwrite, SetDirty, Iderw, IderwAgain, Kill, bufVars, ideVars
    <3> QED
      BY <3>1, OthersStutter
  <2>7. CASE UNCHANGED vars
    BY <2>7, OthersStutter DEF vars, bufVars, ideVars
  <2> QED
    BY <1>2, <2>1, <2>2, <2>3, <2>4, <2>5, <2>6, <2>7 DEF Next, Step
<1> QED
  BY Invariant, <1>1, <1>2, PTL DEF Spec, ImplementsBlockStore, Store!BSpec
=============================================================================
