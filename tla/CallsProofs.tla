----------------------------- MODULE CallsProofs -----------------------------
(***************************************************************************)
(* For any numbers of processes, files, entries and descriptors, and any   *)
(* sequences of calls: the reference counts of the inode cache and of the  *)
(* file table are the numbers of their holders, an inode has one entry in  *)
(* use, a sleep lock is held by a call that has a reference of the inode,  *)
(* and processes that wait for each other's inode locks either wait in     *)
(* iput() or hold directories which others of them want.                   *)
(*                                                                         *)
(* IInv adds to the counts what every process holds where it is: which of  *)
(* its locals may have a reference at each label (Fits), where it goes on  *)
(* after an iput() (Resume, Place), and which entry it has locked (Kept,   *)
(* Freeing).  A step of p changes what p holds and at most one file;       *)
(* AnyStep says what it has to balance, and every action is shown to.      *)
(***************************************************************************)
EXTENDS Calls, FiniteSetTheorems, TLAPS

Owned == {"cur", "ip", "dp", "put"}

\* Where p goes on after the iput() it is in, if it is in one.
Iputs == {"put", "free", "freed", "deref"}
Resume(p) == IF pc[p] \in Iputs THEN loc[p].then ELSE pc[p]

\* The labels at which a local variable may hold a reference.
IpAt == {"walk", "open", "opened", "exists", "fill", "made", "linkold", "linknew", "linkdup",
         "linkbad", "linkput", "unlinkent", "unlinked", "chdir", "cd", "exec"}
DpAt == {"create", "fill", "linknew", "linkdup", "unlink", "unlinkent", "unlinkbad"}
Idle == {"user", "fail", "ok", "stack", "read", "write", "fstat", "exit", "exitend", "exited"}
Ends == {"cd", "exited"}

NoFiles(p) == \A fd \in Fds : proc[p].ofile[fd] = 0

\* The locals r fit the label l in a call of op.
Fits(l, r, op) ==
    /\ l \in IpAt \cup DpAt \cup Idle
    /\ r.cur # 0 => l = "walk"
    /\ r.ip # 0 => l \in IpAt
    /\ r.dp # 0 => l \in DpAt
    /\ l = "walk" => op \in IF r.par THEN {"open", "mkdir", "mknod", "unlink", "link"}
                            ELSE {"open", "link", "chdir", "exec"}
    /\ l = "walk" /\ r.ip # 0 => op = "link" /\ r.par
    /\ l = "linkold" => op = "link"

Place(p) ==
    LET l == Resume(p)
        v == loc[p]
    IN  /\ Fits(l, v, c(p).op)
        /\ v.put # 0 => pc[p] \in Iputs
        /\ v.then \in Ends => l = v.then
        /\ l \in Ends => v.then = l
        /\ l = "exited" => NoFiles(p)
        /\ l \in {"read", "write", "fstat"} => pc[p] = l /\ c(p).fd \in OpenFds(p)
        /\ l = "user" => pc[p] = "user"
        /\ proc[p].state # "used" => pc[p] = "user" /\ proc[p].cwd = 0 /\ NoFiles(p)

\* The entries p holds the lock of: at a label, and in iput() as it frees one.
KeptAt(l, r) == IF l \in {"opened", "made", "unlinked"} THEN {r.ip}
                ELSE IF l \in {"fill", "linkdup", "unlinkent", "unlinkbad"} THEN {r.dp}
                ELSE {}
Kept(p) == KeptAt(Resume(p), loc[p])
Freeing(p) == IF pc[p] \in {"free", "freed"} THEN {loc[p].put} ELSE {}

Slots0 == Slots \cup {0}
EntryFields == {"inum", "ref", "valid", "lock", "d"}
FileFields == {"ref", "type", "readable", "writable", "ip", "off", "pipe"}
ProcFields == {"state", "parent", "killed", "cwd", "ofile", "sz", "vm", "kstack"}
LocFields == {"cur", "ip", "dp", "put", "path", "name", "par", "then", "i", "vm", "sz"}

\* A state of the inode cache, a file, a table entry, the locals of a process.
IcSet(icc) == /\ DOMAIN icc = Slots
              /\ \A s \in Slots : /\ DOMAIN icc[s] = EntryFields
                                  /\ icc[s].ref \in Nat /\ icc[s].lock \in Procs \cup {0}
One(icc) == \A s, u \in Slots :
    icc[s].ref > 0 /\ icc[u].ref > 0 /\ icc[s].inum = icc[u].inum => s = u
FileRec(r) == /\ DOMAIN r = FileFields
              /\ r.ref \in Nat /\ r.ip \in Slots0 /\ r.type \in {"none", "inode", "pipe"}
              /\ r.type = "pipe" => r.ip = 0
              /\ r.ref = 0 => r.ip = 0
ProcRec(r) == /\ DOMAIN r = ProcFields
              /\ r.cwd \in Slots0 /\ r.ofile \in [Fds -> FileIds \cup {0}]
LocRec(r) == /\ DOMAIN r = LocFields
             /\ r.cur \in Slots0 /\ r.ip \in Slots0 /\ r.dp \in Slots0 /\ r.put \in Slots0

IcOK == IcSet(ic)
FtOK == DOMAIN ft = FileIds /\ \A f \in FileIds : FileRec(ft[f])
ProcOK == DOMAIN proc = Procs /\ \A p \in Procs : ProcRec(proc[p])
LocOK == /\ DOMAIN loc = Procs /\ DOMAIN pc = Procs /\ DOMAIN todo = Procs
         /\ \A p \in Procs : LocRec(loc[p])

PlacesOK == \A p \in Procs : Place(p)
LocksOK == \A s \in Slots, p \in Procs :
    /\ ic[s].lock = p <=> s \in Kept(p) \cup Freeing(p)
    /\ ~(s \in Kept(p) /\ s \in Freeing(p))

IInv == /\ IcOK /\ FtOK /\ ProcOK /\ LocOK /\ PlacesOK /\ LocksOK
        /\ RefsMatchHolders /\ OneEntryPerInode

\* A cycle of processes that wait for each other's inode locks goes through an
\* iput(), or some of its processes, all in create() or unlink(), hold their
\* directory dp and want an inode that is the directory of one of them.
CycleOfDirectories ==
    \A S \in SUBSET Procs : LockCycle(S) =>
       \/ \E p \in S : pc[p] = "put"
       \/ \E T \in (SUBSET S) \ {{}} :
             \A p \in T : /\ pc[p] \in {"fill", "unlinkent"}
                          /\ \E q \in T : loc[p].ip = loc[q].dp
-----------------------------------------------------------------------------
(* Minima and counting.                                                    *)

\* The least number of a set of numbers up to n is one of the set.
LEMMA MinIn ==
  ASSUME NEW n \in Nat, NEW S \in SUBSET (0 .. n), S # {}
  PROVE  Min(S) \in S
<1> DEFINE Upto(y) == {x \in S : x <= y}
           T == {Upto(y) : y \in S}
           R == StrictSubsetOrdering(S)
<1>1. IsFiniteSet(S)
  <2>1. IsFiniteSet(0 .. n)
    BY FS_Interval
  <2> QED BY <2>1, FS_Subset
<1>2. T \subseteq FiniteSubsetsOf(S) /\ T # {}
  <2>1. \A y \in S : IsFiniteSet(Upto(y)) /\ Upto(y) \subseteq S
    BY <1>1, FS_Subset
  <2> QED BY <2>1 DEF FiniteSubsetsOf
<1>3. PICK t \in T : \A u \in T : ~(<<u, t>> \in R)
  <2> HIDE DEF R, T
  <2>1. IsWellFoundedOn(R, FiniteSubsetsOf(S))
    BY FS_StrictSubsetOrderingWellFounded DEF R
  <2> QED BY <2>1, <1>2, WFMin
<1>4. PICK m \in S : t = Upto(m)
  OBVIOUS
<1>5. \A y \in S : m =< y
  <2> SUFFICES ASSUME NEW y \in S, y < m PROVE FALSE
    OBVIOUS
  <2>1. y \in Int /\ m \in Int
    OBVIOUS
  <2>2. Upto(y) \in T /\ Upto(y) \subseteq Upto(m) /\ m \in Upto(m) /\ m \notin Upto(y)
    <3>1. Upto(y) \in T
      OBVIOUS
    <3>2. \A x \in S : x \in Int
      OBVIOUS
    <3>3. \A x \in S : x <= y => x <= m
      BY <2>1, <3>2
    <3>4. m <= m /\ ~(m <= y)
      BY <2>1
    <3> HIDE DEF T
    <3> QED BY <3>1, <3>3, <3>4
  <2>3. <<Upto(y), t>> \in R
    BY <2>2, <1>4 DEF StrictSubsetOrdering
  <2> QED BY <1>3, <2>2, <2>3
<1> HIDE DEF T, R
<1> QED BY <1>5 DEF Min

Is(a, b) == IF a = b THEN 1 ELSE 0
Held(r, s) == Is(r.cur, s) + Is(r.ip, s) + Is(r.dp, s) + Is(r.put, s)
InCwd(r, v, s) == IF r.cwd = s /\ v.then \notin Ends THEN 1 ELSE 0
Fdn(o, f) == Cardinality({fd \in Fds : o[fd] = f})

LocalsOf(l, s) == {h \in Procs \X Owned : l[h[1]][h[2]] = s}
FilesOf(t, s) == {f \in FileIds : t[f].ip = s}
CwdsOf(pr, l, s) == {p \in Procs : pr[p].cwd = s /\ l[p].then \notin Ends}
FdsOf(pr, f) == {h \in Procs \X Fds : pr[h[1]].ofile[h[2]] = f}

\* The reference counts, by the names the counting lemmas use.
LEMMA RefsAre ==
  RefsMatchHolders <=>
    /\ \A s \in Slots : ic[s].ref = Cardinality(LocalsOf(loc, s)) + Cardinality(FilesOf(ft, s))
                                    + Cardinality(CwdsOf(proc, loc, s))
    /\ \A f \in FileIds : ft[f].ref = Cardinality(FdsOf(proc, f))
BY Zenon DEF RefsMatchHolders, LocalsOf, FilesOf, CwdsOf, FdsOf, Owned, Ends

\* The sets that are counted are finite.
LEMMA Finites ==
  /\ IsFiniteSet(Procs) /\ IsFiniteSet(Fds) /\ IsFiniteSet(FileIds) /\ IsFiniteSet(Owned)
  /\ \A S \in SUBSET Procs : IsFiniteSet(S \X Owned) /\ IsFiniteSet(S \X Fds)
<1>1. IsFiniteSet(Procs) /\ IsFiniteSet(Fds) /\ IsFiniteSet(FileIds)
  BY FS_Interval, CallsAssumption DEF Procs, Fds, FileIds
<1>2. IsFiniteSet(Owned)
  <2>1. IsFiniteSet({"cur"}) /\ IsFiniteSet({"ip"}) /\ IsFiniteSet({"dp"}) /\ IsFiniteSet({"put"})
    BY FS_Singleton
  <2>2. IsFiniteSet({"cur"} \cup {"ip"}) /\ IsFiniteSet({"dp"} \cup {"put"})
    BY <2>1, FS_Union
  <2>3. IsFiniteSet(({"cur"} \cup {"ip"}) \cup ({"dp"} \cup {"put"}))
    BY <2>2, FS_Union
  <2>4. ({"cur"} \cup {"ip"}) \cup ({"dp"} \cup {"put"}) = Owned
    BY DEF Owned
  <2> QED BY <2>3, <2>4
<1>3. ASSUME NEW S \in SUBSET Procs
      PROVE  IsFiniteSet(S \X Owned) /\ IsFiniteSet(S \X Fds)
  <2>1. IsFiniteSet(S)
    BY <1>1, FS_Subset
  <2> QED BY <2>1, <1>1, <1>2, FS_Product
<1> QED BY <1>1, <1>2, <1>3

\* A finite set without x, and x if it is there.
LEMMA Without ==
  ASSUME NEW S, IsFiniteSet(S), NEW x
  PROVE  /\ IsFiniteSet(S \ {x}) /\ Cardinality(S \ {x}) \in Nat
         /\ Cardinality(S) = Cardinality(S \ {x}) + (IF x \in S THEN 1 ELSE 0)
<1>1. Cardinality(S) \in Nat
  BY FS_CardinalityType
<1>2. CASE x \in S
  <2>1. IsFiniteSet(S \ {x}) /\ Cardinality(S \ {x}) = Cardinality(S) - 1
    BY <1>2, FS_RemoveElement
  <2>2. Cardinality(S \ {x}) \in Nat
    BY <2>1, FS_CardinalityType
  <2> QED BY <1>1, <1>2, <2>1, <2>2
<1>3. CASE x \notin S
  <2>1. S \ {x} = S
    BY <1>3
  <2> QED BY <1>1, <1>3, <2>1
<1> QED BY <1>2, <1>3

\* The references in the locals of p, and those in the locals of the others.
LEMMA LocalsSplit ==
  ASSUME NEW l, NEW p \in Procs, NEW s
  PROVE  LET R == {h \in (Procs \ {p}) \X Owned : l[h[1]][h[2]] = s} IN
         /\ Cardinality(R) \in Nat
         /\ Cardinality(LocalsOf(l, s)) = Cardinality(R) + Held(l[p], s)
<1> DEFINE R == {h \in (Procs \ {p}) \X Owned : l[h[1]][h[2]] = s}
           A == LocalsOf(l, s)
           B == A \ {<<p, "cur">>}
           C == B \ {<<p, "ip">>}
           D == C \ {<<p, "dp">>}
           E == D \ {<<p, "put">>}
<1>1. IsFiniteSet(A)
  <2>1. A \subseteq Procs \X Owned /\ IsFiniteSet(Procs \X Owned)
    BY Finites DEF LocalsOf
  <2> QED BY <2>1, FS_Subset
<1>2. E = R
  BY DEF LocalsOf, Owned
<1>3. /\ <<p, "cur">> \in A <=> l[p].cur = s
      /\ <<p, "ip">> \in B <=> l[p].ip = s
      /\ <<p, "dp">> \in C <=> l[p].dp = s
      /\ <<p, "put">> \in D <=> l[p].put = s
  BY DEF LocalsOf, Owned
<1> HIDE DEF A, B, C, D, E
<1>4. IsFiniteSet(B) /\ Cardinality(B) \in Nat
      /\ Cardinality(A) = Cardinality(B) + (IF <<p, "cur">> \in A THEN 1 ELSE 0)
  BY <1>1, Without DEF B
<1>5. IsFiniteSet(C) /\ Cardinality(C) \in Nat
      /\ Cardinality(B) = Cardinality(C) + (IF <<p, "ip">> \in B THEN 1 ELSE 0)
  BY <1>4, Without DEF C
<1>6. IsFiniteSet(D) /\ Cardinality(D) \in Nat
      /\ Cardinality(C) = Cardinality(D) + (IF <<p, "dp">> \in C THEN 1 ELSE 0)
  BY <1>5, Without DEF D
<1>7. IsFiniteSet(E) /\ Cardinality(E) \in Nat
      /\ Cardinality(D) = Cardinality(E) + (IF <<p, "put">> \in D THEN 1 ELSE 0)
  BY <1>6, Without DEF E
<1>8. /\ Cardinality(A) = Cardinality(B) + Is(l[p].cur, s)
      /\ Cardinality(B) = Cardinality(C) + Is(l[p].ip, s)
      /\ Cardinality(C) = Cardinality(D) + Is(l[p].dp, s)
      /\ Cardinality(D) = Cardinality(E) + Is(l[p].put, s)
  BY <1>3, <1>4, <1>5, <1>6, <1>7, Zenon DEF Is
<1>9. Cardinality(A) = Cardinality(E) + Held(l[p], s)
  <2>1. /\ Is(l[p].cur, s) \in Nat /\ Is(l[p].ip, s) \in Nat /\ Is(l[p].dp, s) \in Nat
        /\ Is(l[p].put, s) \in Nat
    BY DEF Is
  <2> QED BY <1>4, <1>5, <1>6, <1>7, <1>8, <2>1 DEF Held
<1> QED BY <1>2, <1>7, <1>9 DEF A

\* Two functions of the processes that differ at p at most.
AgreeBut(p, l, m) == \A q \in Procs \ {p} : m[q] = l[q]

\* Only p changes its locals: the references held so change by what p holds.
LEMMA LocalsChange ==
  ASSUME NEW l, NEW m, NEW p \in Procs, NEW s, AgreeBut(p, l, m)
  PROVE  /\ Cardinality(LocalsOf(l, s)) \in Nat /\ Cardinality(LocalsOf(m, s)) \in Nat
         /\ Cardinality(LocalsOf(m, s)) + Held(l[p], s) = Cardinality(LocalsOf(l, s)) + Held(m[p], s)
<1> DEFINE R(k) == {h \in (Procs \ {p}) \X Owned : k[h[1]][h[2]] = s}
<1>1. R(l) = R(m)
  BY DEF AgreeBut
<1>2. /\ Cardinality(R(l)) \in Nat
      /\ Cardinality(LocalsOf(l, s)) = Cardinality(R(l)) + Held(l[p], s)
  BY LocalsSplit
<1>3. Cardinality(LocalsOf(m, s)) = Cardinality(R(m)) + Held(m[p], s)
  BY LocalsSplit
<1> HIDE DEF R
<1>4. Held(l[p], s) \in Nat /\ Held(m[p], s) \in Nat
  BY DEF Held, Is
<1> QED BY <1>1, <1>2, <1>4, <1>3

\* Only the file g changes its inode.
LEMMA FilesChange ==
  ASSUME NEW t, NEW u, NEW g \in FileIds, NEW s,
         \A f \in FileIds \ {g} : u[f].ip = t[f].ip
  PROVE  /\ Cardinality(FilesOf(t, s)) \in Nat /\ Cardinality(FilesOf(u, s)) \in Nat
         /\ Cardinality(FilesOf(u, s)) + Is(t[g].ip, s) = Cardinality(FilesOf(t, s)) + Is(u[g].ip, s)
<1>1. IsFiniteSet(FilesOf(t, s)) /\ IsFiniteSet(FilesOf(u, s))
  BY Finites, FS_Subset DEF FilesOf
<1>2. FilesOf(t, s) \ {g} = FilesOf(u, s) \ {g}
  BY DEF FilesOf
<1>3. /\ g \in FilesOf(t, s) <=> t[g].ip = s
      /\ g \in FilesOf(u, s) <=> u[g].ip = s
  BY DEF FilesOf
<1>4. /\ Cardinality(FilesOf(t, s) \ {g}) \in Nat
      /\ Cardinality(FilesOf(t, s)) = Cardinality(FilesOf(t, s) \ {g}) + Is(t[g].ip, s)
  BY <1>1, <1>3, Without, Zenon DEF Is
<1>5. Cardinality(FilesOf(u, s)) = Cardinality(FilesOf(u, s) \ {g}) + Is(u[g].ip, s)
  BY <1>1, <1>3, Without, Zenon DEF Is
<1>6. Is(t[g].ip, s) \in Nat /\ Is(u[g].ip, s) \in Nat
  BY DEF Is
<1> QED BY <1>2, <1>4, <1>5, <1>6

\* Only p changes its working directory, or is in the iput() of it.
LEMMA CwdsChange ==
  ASSUME NEW pr, NEW qr, NEW l, NEW m, NEW p \in Procs, NEW s,
         \A q \in Procs \ {p} : qr[q].cwd = pr[q].cwd /\ m[q] = l[q]
  PROVE  /\ Cardinality(CwdsOf(pr, l, s)) \in Nat /\ Cardinality(CwdsOf(qr, m, s)) \in Nat
         /\ Cardinality(CwdsOf(qr, m, s)) + InCwd(pr[p], l[p], s)
              = Cardinality(CwdsOf(pr, l, s)) + InCwd(qr[p], m[p], s)
<1> DEFINE X == CwdsOf(pr, l, s)
           Y == CwdsOf(qr, m, s)
<1>1. IsFiniteSet(X) /\ IsFiniteSet(Y)
  BY Finites, FS_Subset DEF CwdsOf
<1>2. X \ {p} = Y \ {p}
  BY DEF CwdsOf
<1>3. /\ p \in X <=> (pr[p].cwd = s /\ l[p].then \notin Ends)
      /\ p \in Y <=> (qr[p].cwd = s /\ m[p].then \notin Ends)
  BY DEF CwdsOf
<1> HIDE DEF X, Y
<1>4. /\ Cardinality(X \ {p}) \in Nat
      /\ Cardinality(X) = Cardinality(X \ {p}) + InCwd(pr[p], l[p], s)
  BY <1>1, <1>3, Without, Zenon DEF InCwd
<1>5. Cardinality(Y) = Cardinality(Y \ {p}) + InCwd(qr[p], m[p], s)
  BY <1>1, <1>3, Without, Zenon DEF InCwd
<1>6. InCwd(pr[p], l[p], s) \in Nat /\ InCwd(qr[p], m[p], s) \in Nat
  BY DEF InCwd
<1>7. /\ Cardinality(X) \in Nat /\ Cardinality(Y) \in Nat
      /\ Cardinality(Y) + InCwd(pr[p], l[p], s) = Cardinality(X) + InCwd(qr[p], m[p], s)
  <2> DEFINE a == InCwd(pr[p], l[p], s)
             b == InCwd(qr[p], m[p], s)
  <2>1. /\ a \in Nat /\ b \in Nat /\ Cardinality(X \ {p}) \in Nat
        /\ Cardinality(X) = Cardinality(X \ {p}) + a
        /\ Cardinality(Y) = Cardinality(X \ {p}) + b
    BY <1>2, <1>4, <1>5, <1>6
  <2> HIDE DEF a, b
  <2>2. Cardinality(X) \in Nat /\ Cardinality(Y) \in Nat /\ Cardinality(Y) + a = Cardinality(X) + b
    BY <2>1
  <2> QED BY <2>2 DEF a, b
<1> QED BY <1>7 DEF X, Y

\* The descriptors of p for the file f, and those of the others.
LEMMA FdsSplit ==
  ASSUME NEW pr, NEW p \in Procs, NEW f
  PROVE  LET R == {h \in (Procs \ {p}) \X Fds : pr[h[1]].ofile[h[2]] = f} IN
         /\ Cardinality(R) \in Nat
         /\ Cardinality(FdsOf(pr, f)) = Cardinality(R) + Fdn(pr[p].ofile, f)
         /\ Fdn(pr[p].ofile, f) \in Nat
<1> DEFINE R == {h \in (Procs \ {p}) \X Fds : pr[h[1]].ofile[h[2]] = f}
           F == {fd \in Fds : pr[p].ofile[fd] = f}
           M == {p} \X F
<1>1. IsFiniteSet(F) /\ IsFiniteSet({p}) /\ Cardinality({p}) = 1
  BY Finites, FS_Subset, FS_Singleton
<1>2. IsFiniteSet(M) /\ Cardinality(M) = 1 * Cardinality(F) /\ Cardinality(F) \in Nat
  <2>1. Cardinality(F) \in Nat
    BY <1>1, FS_CardinalityType
  <2> HIDE DEF F
  <2> QED BY <1>1, <2>1, FS_Product
<1>3. IsFiniteSet(R) /\ Cardinality(R) \in Nat
  <2>1. Procs \ {p} \in SUBSET Procs
    OBVIOUS
  <2>2. IsFiniteSet((Procs \ {p}) \X Fds)
    BY <2>1, Finites
  <2> QED BY <2>2, FS_Subset, FS_CardinalityType
<1>4. FdsOf(pr, f) = R \cup M
  BY DEF FdsOf
<1>5. R \cap M = {}
  OBVIOUS
<1>6. Fdn(pr[p].ofile, f) = Cardinality(F)
  BY DEF Fdn
<1> HIDE DEF R, M, F
<1>7. Cardinality(R \cup M) = Cardinality(R) + Cardinality(M) - Cardinality(R \cap M)
  BY <1>2, <1>3, FS_Union
<1>8. Cardinality(R \cap M) = 0
  BY <1>5, FS_EmptySet
<1>9. Cardinality(FdsOf(pr, f)) = Cardinality(R) + Cardinality(F)
  BY <1>2, <1>3, <1>4, <1>7, <1>8
<1> QED BY <1>2, <1>3, <1>6, <1>9 DEF R

\* Only p changes its descriptors.
LEMMA FdsChange ==
  ASSUME NEW pr, NEW qr, NEW p \in Procs, NEW f,
         \A q \in Procs \ {p} : qr[q].ofile = pr[q].ofile
  PROVE  /\ Cardinality(FdsOf(pr, f)) \in Nat /\ Cardinality(FdsOf(qr, f)) \in Nat
         /\ Cardinality(FdsOf(qr, f)) + Fdn(pr[p].ofile, f)
              = Cardinality(FdsOf(pr, f)) + Fdn(qr[p].ofile, f)
<1> DEFINE R(k) == {h \in (Procs \ {p}) \X Fds : k[h[1]].ofile[h[2]] = f}
<1>1. R(pr) = R(qr)
  OBVIOUS
<1>2. /\ Cardinality(R(pr)) \in Nat
      /\ Cardinality(FdsOf(pr, f)) = Cardinality(R(pr)) + Fdn(pr[p].ofile, f)
      /\ Fdn(pr[p].ofile, f) \in Nat
  BY FdsSplit
<1>3. /\ Cardinality(FdsOf(qr, f)) = Cardinality(R(qr)) + Fdn(qr[p].ofile, f)
      /\ Fdn(qr[p].ofile, f) \in Nat
  BY FdsSplit
<1> HIDE DEF R
<1> QED BY <1>1, <1>2, <1>3

\* The descriptor fd is for the file x in u, and the others are as in o.
SetTo(o, u, fd, x) == u[fd] = x /\ \A d \in Fds \ {fd} : u[d] = o[d]

\* One descriptor changes: the count of the old file drops, that of the new one rises.
LEMMA FdnSet ==
  ASSUME NEW o, NEW u, NEW fd \in Fds, NEW x, SetTo(o, u, fd, x), NEW f
  PROVE  /\ Fdn(o, f) \in Nat /\ Fdn(u, f) \in Nat
         /\ Fdn(u, f) + Is(o[fd], f) = Fdn(o, f) + Is(x, f)
<1> DEFINE X == {d \in Fds : o[d] = f}
           Y == {d \in Fds : u[d] = f}
<1>1. IsFiniteSet(X) /\ IsFiniteSet(Y)
  BY Finites, FS_Subset
<1>2. X \ {fd} = Y \ {fd}
  BY DEF SetTo
<1>3. (fd \in X <=> o[fd] = f) /\ (fd \in Y <=> x = f)
  BY DEF SetTo
<1>4. Fdn(o, f) = Cardinality(X) /\ Fdn(u, f) = Cardinality(Y)
  BY DEF Fdn
<1> HIDE DEF X, Y
<1>5. /\ Cardinality(X \ {fd}) \in Nat
      /\ Cardinality(X) = Cardinality(X \ {fd}) + Is(o[fd], f)
  BY <1>1, <1>3, Without, Zenon DEF Is
<1>6. Cardinality(Y) = Cardinality(Y \ {fd}) + Is(x, f)
  BY <1>1, <1>3, Without, Zenon DEF Is
<1>7. Is(o[fd], f) \in Nat /\ Is(x, f) \in Nat
  BY DEF Is
<1>8. PICK n, a, b : n = Cardinality(X \ {fd}) /\ a = Is(o[fd], f) /\ b = Is(x, f)
  OBVIOUS
<1>9. n \in Nat /\ a \in Nat /\ b \in Nat /\ Fdn(o, f) = n + a /\ Fdn(u, f) = n + b
  BY <1>2, <1>4, <1>5, <1>6, <1>7, <1>8, Zenon
<1>10. Fdn(o, f) \in Nat /\ Fdn(u, f) \in Nat /\ Fdn(u, f) + a = Fdn(o, f) + b
  BY <1>9
<1> QED BY <1>8, <1>10
-----------------------------------------------------------------------------
(* What a step of p has to do for the invariant to hold after it.          *)

LocalsStay(p) == \A q \in Procs \ {p} : loc'[q] = loc[q]
OthersStay(p) ==
    /\ DOMAIN loc' = Procs /\ DOMAIN pc' = Procs /\ DOMAIN todo' = Procs
    /\ \A q \in Procs \ {p} : loc'[q] = loc[q] /\ pc'[q] = pc[q] /\ todo'[q] = todo[q]

Balanced(p) == \A s \in Slots :
    ic'[s].ref + (Held(loc[p], s) + InCwd(proc[p], loc[p], s))
      = ic[s].ref + (Held(loc'[p], s) + InCwd(proc'[p], loc'[p], s))

LocksFollow(p) == \A s \in Slots :
    /\ ic'[s].lock = p <=> s \in Kept(p)' \cup Freeing(p)'
    /\ ~(s \in Kept(p)' /\ s \in Freeing(p)')
    /\ \A q \in Procs \ {p} : ic'[s].lock = q <=> ic[s].lock = q

\* What another process holds, and where it is, does not depend on p.
LEMMA PlaceStays ==
  ASSUME NEW q \in Procs, Place(q), loc'[q] = loc[q], pc'[q] = pc[q], todo'[q] = todo[q],
         proc'[q].ofile = proc[q].ofile, proc'[q].cwd = proc[q].cwd,
         proc'[q].state = proc[q].state \/ (pc[q] = "user" /\ proc[q].cwd = 0 /\ NoFiles(q))
  PROVE  Place(q)'
<1>1. Resume(q)' = Resume(q) /\ c(q)' = c(q)
  BY DEF Resume, c
<1>2. NoFiles(q)' <=> NoFiles(q)
  BY DEF NoFiles
<1>3. OpenFds(q)' = OpenFds(q)
  BY DEF OpenFds
<1> QED BY <1>1, <1>2, <1>3 DEF Place

\* The lock invariant after a step of p that changes the locks of p alone.
LEMMA LocksStep ==
  ASSUME LocksOK, NEW p \in Procs, OthersStay(p), LocksFollow(p)
  PROVE  LocksOK'
<1>1. \A q \in Procs \ {p} : Kept(q)' = Kept(q) /\ Freeing(q)' = Freeing(q)
  BY DEF OthersStay, Kept, KeptAt, Freeing, Resume
<1> QED BY <1>1 DEF LocksOK, LocksFollow

\* The references of one entry, where the step balances those of p and of g.
LEMMA InodeRefs ==
  ASSUME NEW p \in Procs, NEW g \in FileIds, NEW s \in Slots,
         IcSet(ic), IcSet(ic'), LocalsStay(p),
         \A q \in Procs \ {p} : proc'[q].cwd = proc[q].cwd,
         \A f \in FileIds \ {g} : ft'[f].ip = ft[f].ip,
         ic[s].ref = Cardinality(LocalsOf(loc, s)) + Cardinality(FilesOf(ft, s))
                     + Cardinality(CwdsOf(proc, loc, s)),
         ic'[s].ref + (Held(loc[p], s) + InCwd(proc[p], loc[p], s)) + Is(ft[g].ip, s)
          = ic[s].ref + (Held(loc'[p], s) + InCwd(proc'[p], loc'[p], s)) + Is(ft'[g].ip, s)
  PROVE  ic'[s].ref = Cardinality(LocalsOf(loc', s)) + Cardinality(FilesOf(ft', s))
                      + Cardinality(CwdsOf(proc', loc', s))
<1>1. PICK l : l = loc'
  OBVIOUS
<1>2. PICK t : t = ft'
  OBVIOUS
<1>3. PICK r : r = proc'
  OBVIOUS
<1>4. AgreeBut(p, loc, l) /\ \A q \in Procs \ {p} : l[q] = loc[q]
  BY <1>1 DEF LocalsStay, AgreeBut
<1>5. \A q \in Procs \ {p} : r[q].cwd = proc[q].cwd
  BY <1>3
<1>6. \A f \in FileIds \ {g} : t[f].ip = ft[f].ip
  BY <1>2
<1> DEFINE A == Cardinality(LocalsOf(loc, s))
           B == Cardinality(FilesOf(ft, s))
           C == Cardinality(CwdsOf(proc, loc, s))
           D == Cardinality(LocalsOf(l, s))
           E == Cardinality(FilesOf(t, s))
           F == Cardinality(CwdsOf(r, l, s))
           a == Held(loc[p], s)
           b == Is(ft[g].ip, s)
           e == InCwd(proc[p], loc[p], s)
           d == Held(l[p], s)
           h == Is(t[g].ip, s)
           k == InCwd(r[p], l[p], s)
<1>7. /\ A \in Nat /\ D \in Nat /\ D + a = A + d
  BY <1>4, LocalsChange
<1>8. B \in Nat /\ E \in Nat /\ E + b = B + h
  BY <1>6, FilesChange
<1>9. C \in Nat /\ F \in Nat /\ F + e = C + k
  <2>1. \A q \in Procs \ {p} : r[q].cwd = proc[q].cwd /\ l[q] = loc[q]
    BY <1>4, <1>5
  <2> QED BY <2>1, CwdsChange
<1>10. a \in Nat /\ b \in Nat /\ e \in Nat /\ d \in Nat /\ h \in Nat /\ k \in Nat
  BY DEF Held, Is, InCwd
<1>11. PICK n : n = ic'[s].ref
  OBVIOUS
<1>12. /\ n \in Nat /\ ic[s].ref = A + B + C
       /\ n + (a + e) + b = ic[s].ref + (d + k) + h
  BY <1>1, <1>2, <1>3, <1>11 DEF IcSet
<1> HIDE DEF A, B, C, D, E, F, a, b, e, d, h, k
<1>13. n = D + E + F
  BY <1>7, <1>8, <1>9, <1>10, <1>12
<1> QED BY <1>1, <1>2, <1>3, <1>11, <1>13 DEF D, E, F

\* A step of p which changes what the file g and p itself hold.
LEMMA AnyStep ==
  ASSUME IInv, NEW p \in Procs, OthersStay(p), NEW g \in FileIds,
         IcSet(ic'), One(ic'), FtOK', ProcOK', LocRec(loc'[p]), Place(p)', LocksFollow(p),
         \A q \in Procs \ {p} :
            /\ proc'[q].cwd = proc[q].cwd /\ proc'[q].ofile = proc[q].ofile
            /\ proc'[q].state = proc[q].state \/ (pc[q] = "user" /\ proc[q].cwd = 0 /\ NoFiles(q)),
         \A f \in FileIds \ {g} : ft'[f].ip = ft[f].ip,
         \A s \in Slots :
            ic'[s].ref + (Held(loc[p], s) + InCwd(proc[p], loc[p], s)) + Is(ft[g].ip, s)
             = ic[s].ref + (Held(loc'[p], s) + InCwd(proc'[p], loc'[p], s)) + Is(ft'[g].ip, s),
         \A f \in FileIds :
            ft'[f].ref + Fdn(proc[p].ofile, f) = ft[f].ref + Fdn(proc'[p].ofile, f)
  PROVE  IInv'
<1>1. IcOK' /\ LocOK'
  BY DEF IInv, IcOK, LocOK, OthersStay
<1>2. PlacesOK'
  <2> SUFFICES ASSUME NEW q \in Procs, q # p PROVE Place(q)'
    BY DEF PlacesOK
  <2>1. Place(q)
    BY DEF IInv, PlacesOK
  <2>2. loc'[q] = loc[q] /\ pc'[q] = pc[q] /\ todo'[q] = todo[q]
    BY DEF OthersStay
  <2> QED BY <2>1, <2>2, PlaceStays
<1>3. LocksOK'
  BY LocksStep DEF IInv
<1>4. ASSUME NEW s \in Slots
      PROVE  ic'[s].ref = Cardinality(LocalsOf(loc', s)) + Cardinality(FilesOf(ft', s))
                          + Cardinality(CwdsOf(proc', loc', s))
  <2>1. ic[s].ref = Cardinality(LocalsOf(loc, s)) + Cardinality(FilesOf(ft, s))
                     + Cardinality(CwdsOf(proc, loc, s))
    BY RefsAre DEF IInv
  <2>2. LocalsStay(p)
    BY DEF OthersStay, LocalsStay
  <2>3. IcSet(ic)
    BY DEF IInv, IcOK
  <2> QED BY <2>1, <2>2, <2>3, InodeRefs
<1>5. ASSUME NEW f \in FileIds
      PROVE  ft'[f].ref = Cardinality(FdsOf(proc', f))
  <2>1. ft[f].ref = Cardinality(FdsOf(proc, f))
    BY RefsAre DEF IInv
  <2>2. PICK r : r = proc'
    OBVIOUS
  <2>3. /\ Cardinality(FdsOf(proc, f)) \in Nat /\ Cardinality(FdsOf(r, f)) \in Nat
        /\ Cardinality(FdsOf(r, f)) + Fdn(proc[p].ofile, f)
              = Cardinality(FdsOf(proc, f)) + Fdn(r[p].ofile, f)
    <3>1. \A q \in Procs \ {p} : r[q].ofile = proc[q].ofile
      BY <2>2
    <3> QED BY <3>1, FdsChange
  <2>4. Fdn(proc[p].ofile, f) \in Nat /\ Fdn(r[p].ofile, f) \in Nat
    BY FdsSplit
  <2>5. ft'[f].ref \in Nat
    BY DEF FtOK, FileRec
  <2>6. ft'[f].ref + Fdn(proc[p].ofile, f) = ft[f].ref + Fdn(r[p].ofile, f)
    BY <2>2
  <2>7. PICK n : n = ft'[f].ref
    OBVIOUS
  <2>8. n = Cardinality(FdsOf(r, f))
    BY <2>1, <2>3, <2>4, <2>5, <2>6, <2>7
  <2> QED BY <2>2, <2>7, <2>8
<1>6. RefsMatchHolders'
  BY <1>4, <1>5, Zenon DEF RefsMatchHolders, LocalsOf, FilesOf, CwdsOf, FdsOf, Owned, Ends
<1>7. OneEntryPerInode'
  BY DEF One, OneEntryPerInode
<1> QED BY <1>1, <1>2, <1>3, <1>6, <1>7 DEF IInv

\* A step of p which leaves the file table and the process table alone.
LEMMA PathStep ==
  ASSUME IInv, NEW p \in Procs, UNCHANGED <<ft, proc>>, OthersStay(p),
         IcSet(ic'), One(ic'), LocRec(loc'[p]), Place(p)', Balanced(p), LocksFollow(p)
  PROVE  IInv'
<1>1. 1 \in FileIds
  BY CallsAssumption DEF FileIds
<1>2. FtOK' /\ ProcOK'
  BY DEF IInv, FtOK, ProcOK
<1>3. ASSUME NEW s \in Slots
      PROVE  ic'[s].ref + (Held(loc[p], s) + InCwd(proc[p], loc[p], s)) + Is(ft[1].ip, s)
              = ic[s].ref + (Held(loc'[p], s) + InCwd(proc'[p], loc'[p], s)) + Is(ft'[1].ip, s)
  <2>1. ic'[s].ref + (Held(loc[p], s) + InCwd(proc[p], loc[p], s))
          = ic[s].ref + (Held(loc'[p], s) + InCwd(proc'[p], loc'[p], s))
    BY DEF Balanced
  <2>2. /\ Is(ft[1].ip, s) \in Nat /\ ft' = ft
        /\ Held(loc[p], s) \in Nat /\ InCwd(proc[p], loc[p], s) \in Nat
        /\ Held(loc'[p], s) \in Nat /\ InCwd(proc'[p], loc'[p], s) \in Nat
    BY DEF Is, Held, InCwd
  <2>3. ic'[s].ref \in Nat /\ ic[s].ref \in Nat
    BY DEF IcSet, IInv, IcOK
  <2> QED BY <2>1, <2>2, <2>3
<1>4. /\ \A q \in Procs \ {p} : /\ proc'[q].cwd = proc[q].cwd /\ proc'[q].ofile = proc[q].ofile
                               /\ proc'[q].state = proc[q].state
      /\ \A f \in FileIds \ {1} : ft'[f].ip = ft[f].ip
      /\ \A f \in FileIds :
            ft'[f].ref + Fdn(proc[p].ofile, f) = ft[f].ref + Fdn(proc'[p].ofile, f)
  OBVIOUS
<1> QED BY <1>1, <1>2, <1>3, <1>4, AnyStep
-----------------------------------------------------------------------------
(* The operators on the inode cache and on the locals.                     *)

\* ilock() and iunlock(): no count changes, the lock of s becomes that of h.
LEMMA EntryIs ==
  ASSUME NEW icc, IcSet(icc), One(icc), NEW s, NEW d, NEW h \in Procs \cup {0}
  PROVE  /\ IcSet(Entry(icc, s, d, h)) /\ One(Entry(icc, s, d, h))
         /\ \A u \in Slots : /\ Entry(icc, s, d, h)[u].ref = icc[u].ref
                             /\ Entry(icc, s, d, h)[u].lock = IF u = s THEN h ELSE icc[u].lock
<1> DEFINE n == Entry(icc, s, d, h)
<1>1. DOMAIN n = Slots
  BY DEF Entry, IcSet
<1>2. ASSUME NEW u \in Slots
      PROVE  /\ DOMAIN n[u] = EntryFields /\ n[u].ref = icc[u].ref /\ n[u].inum = icc[u].inum
             /\ n[u].lock = IF u = s THEN h ELSE icc[u].lock
  BY DEF Entry, IcSet, EntryFields
<1> HIDE DEF n
<1>3. IcSet(n)
  BY <1>1, <1>2 DEF IcSet
<1>4. One(n)
  BY <1>2 DEF One
<1>5. \A u \in Slots : n[u].ref = icc[u].ref /\ n[u].lock = IF u = s THEN h ELSE icc[u].lock
  BY <1>2
<1> QED BY <1>3, <1>4, <1>5 DEF n

\* The lock of s is h's.  A reference more of s.
SetLock(icc, s, h) == [icc EXCEPT ![s].lock = h]
Idup(icc, s) == [icc EXCEPT ![s].ref = @ + 1]

\* acquiresleep() or releasesleep() alone.
LEMMA LockIs ==
  ASSUME NEW icc, IcSet(icc), One(icc), NEW s, NEW h \in Procs \cup {0}
  PROVE  /\ IcSet(SetLock(icc, s, h)) /\ One(SetLock(icc, s, h))
         /\ \A u \in Slots : /\ SetLock(icc, s, h)[u].ref = icc[u].ref
                             /\ SetLock(icc, s, h)[u].lock = IF u = s THEN h ELSE icc[u].lock
<1> DEFINE n == SetLock(icc, s, h)
<1>1. DOMAIN n = Slots
  BY DEF IcSet, SetLock
<1>2. ASSUME NEW u \in Slots
      PROVE  /\ DOMAIN n[u] = EntryFields /\ n[u].ref = icc[u].ref /\ n[u].inum = icc[u].inum
             /\ n[u].lock = IF u = s THEN h ELSE icc[u].lock
  BY DEF IcSet, EntryFields, SetLock
<1> HIDE DEF n
<1>3. IcSet(n)
  BY <1>1, <1>2 DEF IcSet
<1>4. One(n)
  BY <1>2 DEF One
<1>5. \A u \in Slots : n[u].ref = icc[u].ref /\ n[u].lock = IF u = s THEN h ELSE icc[u].lock
  BY <1>2
<1> QED BY <1>3, <1>4, <1>5 DEF n

\* idup() of an entry in use.
LEMMA IdupIs ==
  ASSUME NEW icc, IcSet(icc), One(icc), NEW s, s \in Slots => icc[s].ref > 0
  PROVE  /\ IcSet(Idup(icc, s)) /\ One(Idup(icc, s))
         /\ \A u \in Slots : /\ Idup(icc, s)[u].ref = icc[u].ref + Is(u, s)
                             /\ Idup(icc, s)[u].lock = icc[u].lock
<1> DEFINE n == Idup(icc, s)
<1>1. DOMAIN n = Slots
  BY DEF IcSet, Idup
<1>2. ASSUME NEW u \in Slots
      PROVE  /\ DOMAIN n[u] = EntryFields /\ n[u].ref = icc[u].ref + Is(u, s)
             /\ n[u].inum = icc[u].inum /\ n[u].lock = icc[u].lock
  BY DEF IcSet, EntryFields, Is, Idup
<1>3. \A u \in Slots : icc[u].ref \in Nat
  BY DEF IcSet
<1> HIDE DEF n
<1>4. IcSet(n)
  BY <1>1, <1>2, <1>3 DEF IcSet, Is
<1>5. One(n)
  BY <1>2, <1>3 DEF One, Is
<1>6. \A u \in Slots : n[u].ref = icc[u].ref + Is(u, s) /\ n[u].lock = icc[u].lock
  BY <1>2
<1> QED BY <1>4, <1>5, <1>6 DEF n

\* iget() takes one of the entries it has to choose from.
LEMMA MinSlot == ASSUME NEW S \in SUBSET Slots, S # {} PROVE Min(S) \in S
<1>1. NINODE \in Nat /\ S \in SUBSET (0 .. NINODE)
  BY InodesAssumption DEF Slots
<1> QED BY <1>1, MinIn

\* iget(): a reference more of the entry it returns; or 0, and nothing.
LEMMA IgetIs ==
  ASSUME NEW icc, IcSet(icc), One(icc), NEW i
  PROVE  /\ IcSet(Iget(icc, i)[1]) /\ One(Iget(icc, i)[1]) /\ Iget(icc, i)[2] \in Slots0
         /\ \A u \in Slots : /\ Iget(icc, i)[1][u].ref = icc[u].ref + Is(u, Iget(icc, i)[2])
                             /\ Iget(icc, i)[1][u].lock = icc[u].lock
<1> DEFINE cached == {s \in Slots : icc[s].ref > 0 /\ icc[s].inum = i}
           empty  == {s \in Slots : icc[s].ref = 0}
<1>1. \A u \in Slots : icc[u].ref \in Nat
  BY DEF IcSet
<1>2. CASE cached # {}
  <2>1. PICK s : s = Min(cached)
    OBVIOUS
  <2>2. s \in cached
    BY <1>2, <2>1, MinSlot
  <2>3. Iget(icc, i) = <<Idup(icc, s), s>>
    BY <1>2, <2>1 DEF Iget, Idup
  <2> DEFINE n == Idup(icc, s)
  <2>4. /\ IcSet(n) /\ One(n)
        /\ \A u \in Slots : n[u].ref = icc[u].ref + Is(u, s) /\ n[u].lock = icc[u].lock
    BY <2>2, IdupIs
  <2> HIDE DEF n
  <2> QED BY <2>2, <2>3, <2>4 DEF Slots0, n
<1>3. CASE cached = {} /\ empty = {}
  <2>1. Iget(icc, i) = <<icc, 0>>
    BY <1>3 DEF Iget
  <2>2. \A u \in Slots : Is(u, 0) = 0
    BY DEF Is, Slots
  <2> QED BY <1>1, <2>1, <2>2 DEF Slots0
<1>4. CASE cached = {} /\ empty # {}
  <2>1. PICK s : s = Min(empty)
    OBVIOUS
  <2>2. s \in empty
    BY <1>4, <2>1, MinSlot
  <2> DEFINE n == [icc EXCEPT ![s].inum = i, ![s].ref = 1, ![s].valid = FALSE]
  <2>3. Iget(icc, i) = <<n, s>>
    BY <1>4, <2>1, Zenon DEF Iget
  <2>4. DOMAIN n = Slots
    BY DEF IcSet
  <2>5. ASSUME NEW u \in Slots
        PROVE  /\ DOMAIN n[u] = EntryFields /\ n[u].ref = icc[u].ref + Is(u, s)
               /\ n[u].inum = (IF u = s THEN i ELSE icc[u].inum) /\ n[u].lock = icc[u].lock
    BY <2>2 DEF IcSet, EntryFields, Is
  <2> HIDE DEF n
  <2>6. IcSet(n)
    BY <1>1, <2>4, <2>5 DEF IcSet, Is
  <2>7. One(n)
    BY <1>1, <1>4, <2>5 DEF One, Is
  <2> QED BY <2>2, <2>3, <2>5, <2>6, <2>7 DEF Slots0
<1> QED BY <1>2, <1>3, <1>4

\* Locals that hold nothing.
LEMMA NoLocIs == LocRec(NoLoc) /\ NoLoc.cur = 0 /\ NoLoc.ip = 0 /\ NoLoc.dp = 0 /\ NoLoc.put = 0
                 /\ NoLoc.then = ""
BY DEF NoLoc, LocRec, LocFields, Slots0

\* The invariant, as seen by one process.
LEMMA Typed ==
  ASSUME IInv, NEW p \in Procs
  PROVE  /\ IcSet(ic) /\ One(ic) /\ LocRec(loc[p]) /\ ProcRec(proc[p]) /\ Place(p)
         /\ DOMAIN loc = Procs /\ DOMAIN pc = Procs /\ DOMAIN todo = Procs
         /\ \A s \in Slots : /\ ic[s].lock = p <=> s \in Kept(p) \cup Freeing(p)
                             /\ ~(s \in Kept(p) /\ s \in Freeing(p))
BY DEF IInv, IcOK, LocOK, ProcOK, PlacesOK, LocksOK, OneEntryPerInode, One

\* Is counts 0 or 1, and 0 is no entry.
LEMMA IsNat == (\A a, b : Is(a, b) \in Nat) /\ (\A u \in Slots : Is(0, u) = 0 /\ Is(u, 0) = 0)
BY DEF Is, Slots

\* Reference counts are natural numbers.
LEMMA RefNat == IInv => \A u \in Slots : ic[u].ref \in Nat
BY DEF IInv, IcOK, IcSet

\* So is the number of references in the locals of a process.
LEMMA HeldNat == \A r, u : Held(r, u) \in Nat
BY DEF Held, Is

\* A local may hold no entry.
LEMMA ZeroSlot == 0 \in Slots0
BY DEF Slots0

\* 0 is neither an entry nor a process.
LEMMA NotZero == 0 \notin Slots /\ 0 \notin Procs
BY DEF Slots, Procs
-----------------------------------------------------------------------------
(* Steps within a call.                                                    *)

OthersLocks(p) == \A u \in Slots : \A q \in Procs \ {p} : ic'[u].lock = q <=> ic[u].lock = q

Elsewhere == {"read", "write", "fstat", "user"} \cup Ends

\* A step of p within a call, to a place where it still is in that call.
LEMMA MoveStep ==
  ASSUME IInv, NEW p \in Procs, UNCHANGED <<ft, proc>>, OthersStay(p), todo'[p] = todo[p],
         proc[p].state = "used", IcSet(ic'), One(ic'), LocRec(loc'[p]),
         loc[p].then \notin Ends, loc'[p].then \notin Ends,
         NEW l, l = Resume(p)', l \notin Elsewhere, pc'[p] \notin {"free", "freed"},
         loc'[p].put # 0 => pc'[p] = "put", Fits(l, loc'[p], c(p).op),
         \A u \in Slots : ic'[u].ref + Held(loc[p], u) = ic[u].ref + Held(loc'[p], u),
         \A u \in Slots : ic'[u].lock = p <=> u \in KeptAt(l, loc'[p]),
         OthersLocks(p)
  PROVE  IInv'
<1>1. Place(p)'
  <2>1. c(p)' = c(p)
    BY DEF c
  <2>2. Fits(Resume(p)', loc'[p], c(p)'.op)
    BY <2>1, Zenon
  <2> QED BY <2>2 DEF Place, Elsewhere, Iputs, Ends
<1>2. Balanced(p)
  <2> SUFFICES ASSUME NEW s \in Slots
               PROVE  ic'[s].ref + (Held(loc[p], s) + InCwd(proc[p], loc[p], s))
                        = ic[s].ref + (Held(loc'[p], s) + InCwd(proc'[p], loc'[p], s))
    BY DEF Balanced
  <2>1. InCwd(proc'[p], loc'[p], s) = InCwd(proc[p], loc[p], s)
    BY DEF InCwd
  <2>2. ic'[s].ref \in Nat /\ ic[s].ref \in Nat
    BY Typed DEF IcSet
  <2>3. /\ Held(loc[p], s) \in Nat /\ Held(loc'[p], s) \in Nat
        /\ InCwd(proc[p], loc[p], s) \in Nat
    BY DEF Held, Is, InCwd
  <2>4. ic'[s].ref + Held(loc[p], s) = ic[s].ref + Held(loc'[p], s)
    OBVIOUS
  <2> QED BY <2>1, <2>2, <2>3, <2>4
<1>3. LocksFollow(p)
  <2>1. Kept(p)' = KeptAt(l, loc'[p])
    BY DEF Kept
  <2>2. Freeing(p)' = {}
    BY DEF Freeing
  <2> QED BY <2>1, <2>2 DEF LocksFollow, OthersLocks
<1> QED BY <1>1, <1>2, <1>3, PathStep

\* What going on with an iput() does to the locals.
LEMMA PutThenIs ==
  ASSUME IInv, NEW p \in Procs, NEW s \in Slots0, NEW l, NEW r, LocRec(r), PutThen(p, s, l, r)
  PROVE  /\ OthersStay(p) /\ todo'[p] = todo[p] /\ pc'[p] = "put" /\ Resume(p)' = l
         /\ LocRec(loc'[p]) /\ loc'[p].then = l /\ loc'[p].put = s /\ loc'[p].par = r.par
         /\ loc'[p].cur = r.cur /\ loc'[p].ip = r.ip /\ loc'[p].dp = r.dp
<1> DEFINE n == [r EXCEPT !.put = s, !.then = l]
<1>1. /\ LocRec(n) /\ n.cur = r.cur /\ n.ip = r.ip /\ n.dp = r.dp /\ n.put = s
      /\ n.then = l /\ n.par = r.par
  BY DEF LocRec, LocFields
<1>2. loc' = [loc EXCEPT ![p] = n] /\ pc' = [pc EXCEPT ![p] = "put"] /\ todo' = todo
  BY DEF PutThen, Goto, Stay
<1> HIDE DEF n
<1>3. loc'[p] = n /\ pc'[p] = "put" /\ OthersStay(p)
  BY <1>2, Typed DEF OthersStay
<1> QED BY <1>1, <1>2, <1>3 DEF Resume, Iputs

\* p is in a call, of which the file table and the process table see nothing.
InCall(p) == /\ UNCHANGED <<ft, proc>> /\ proc[p].state = "used" /\ loc[p].then \notin Ends
             /\ IcSet(ic') /\ One(ic')

\* p gets a reference of g (0: none), and has r and s, which it drops before it
\* goes on at l.
Puts(p, g, s, l, r) ==
    /\ InCall(p)
    /\ s \in Slots0 /\ l \notin Elsewhere \cup Iputs /\ LocRec(r)
    /\ PutThen(p, s, l, r) /\ Fits(l, r, c(p).op)
    /\ \A u \in Slots : ic'[u].ref = ic[u].ref + Is(u, g)
    /\ \A u \in Slots : Held(loc[p], u) + Is(u, g)
                          = Is(r.cur, u) + Is(r.ip, u) + Is(r.dp, u) + Is(s, u)
    /\ \A u \in Slots : ic'[u].lock = p <=> u \in KeptAt(l, r)
    /\ OthersLocks(p)

\* p gets a reference of g (0: none) and goes on at l with the locals r.
Goes(p, g, l, r) ==
    /\ InCall(p)
    /\ l \notin Elsewhere \cup Iputs /\ LocRec(r) /\ r.put = 0 /\ r.then \notin Ends
    /\ DOMAIN loc' = Procs /\ loc'[p] = r /\ \A q \in Procs \ {p} : loc'[q] = loc[q]
    /\ Goto(p, l) /\ Fits(l, r, c(p).op)
    /\ \A u \in Slots : ic'[u].ref = ic[u].ref + Is(u, g)
    /\ \A u \in Slots : Held(loc[p], u) + Is(u, g) = Held(r, u)
    /\ \A u \in Slots : ic'[u].lock = p <=> u \in KeptAt(l, r)
    /\ OthersLocks(p)

\* A step that ends in an iput() keeps the invariant.
LEMMA PutStep ==
  ASSUME IInv, NEW p \in Procs, NEW g, NEW s, NEW l, NEW r, Puts(p, g, s, l, r)
  PROVE  IInv'
<1> USE DEF Puts, InCall
<1>1. /\ OthersStay(p) /\ todo'[p] = todo[p] /\ pc'[p] = "put" /\ Resume(p)' = l
      /\ LocRec(loc'[p]) /\ loc'[p].then = l /\ loc'[p].put = s /\ loc'[p].par = r.par
      /\ loc'[p].cur = r.cur /\ loc'[p].ip = r.ip /\ loc'[p].dp = r.dp
  BY PutThenIs
<1>2. Fits(l, loc'[p], c(p).op) /\ KeptAt(l, loc'[p]) = KeptAt(l, r)
  BY <1>1 DEF Fits, KeptAt
<1>3. \A u \in Slots : Held(loc'[p], u) = Is(r.cur, u) + Is(r.ip, u) + Is(r.dp, u) + Is(s, u)
  BY <1>1 DEF Held
<1>4. \A u \in Slots : ic'[u].ref + Held(loc[p], u) = ic[u].ref + Held(loc'[p], u)
  BY <1>3, HeldNat, IsNat, RefNat
<1>5. \A u \in Slots : ic'[u].lock = p <=> u \in KeptAt(l, loc'[p])
  BY <1>2, Zenon
<1>6. l \notin Elsewhere /\ pc'[p] \notin {"free", "freed"} /\ loc'[p].then \notin Ends
  BY <1>1 DEF Elsewhere
<1>7. l = Resume(p)' /\ (loc'[p].put # 0 => pc'[p] = "put")
  BY <1>1
<1> QED BY <1>1, <1>2, <1>4, <1>5, <1>6, <1>7, MoveStep

\* A step that ends at another label of the call keeps the invariant.
LEMMA GoStep ==
  ASSUME IInv, NEW p \in Procs, NEW g, NEW l, NEW r, Goes(p, g, l, r)
  PROVE  IInv'
<1> USE DEF Goes, InCall
<1>1. /\ OthersStay(p) /\ todo'[p] = todo[p] /\ pc'[p] = l /\ loc'[p] = r
  BY Typed DEF OthersStay, Goto, Stay
<1>2. l = Resume(p)'
  BY <1>1 DEF Resume
<1>3. l \notin Elsewhere /\ pc'[p] \notin {"free", "freed"} /\ (loc'[p].put # 0 => pc'[p] = "put")
  BY <1>1 DEF Iputs
<1>4. \A u \in Slots : ic'[u].ref + Held(loc[p], u) = ic[u].ref + Held(loc'[p], u)
  BY <1>1, HeldNat, IsNat, RefNat
<1> QED BY <1>1, <1>2, <1>3, <1>4, MoveStep

\* The label l of p, outside of iput().
LEMMA AtIs ==
  ASSUME IInv, NEW p \in Procs, NEW l, l \notin Iputs, pc[p] = l
  PROVE  /\ Resume(p) = l /\ Fits(l, loc[p], c(p).op) /\ loc[p].put = 0
         /\ l \notin Ends => loc[p].then \notin Ends
         /\ l # "user" => proc[p].state = "used"
         /\ \A u \in Slots : ic[u].lock = p <=> u \in KeptAt(l, loc[p])
<1>1. Resume(p) = l /\ Freeing(p) = {}
  BY DEF Resume, Freeing, Iputs
<1> QED BY <1>1, Typed DEF Place, Kept

\* open() of an inode: a directory opened for writing is dropped, the rest stays locked.
LEMMA StepOpenOld ==
  ASSUME IInv, NEW p \in Procs, OpenOld(p)
  PROVE  IInv'
<1>1. PICK s, d : s = loc[p].ip /\ d = Loaded(loc[p].ip)
  OBVIOUS
<1>2. pc[p] = "open" /\ UNCHANGED <<ft, proc>> /\ ic[s].lock = 0
  BY <1>1, Zenon DEF OpenOld, At, Ilock, Wanted, UNCH_call
<1>3. /\ loc[p].cur = 0 /\ loc[p].ip = s /\ loc[p].dp = 0 /\ loc[p].put = 0
      /\ loc[p].then \notin Ends /\ proc[p].state = "used" /\ LocRec(loc[p])
      /\ s \in Slots0
      /\ \A u \in Slots : ic[u].lock # p
  BY <1>1, <1>2, AtIs, Typed DEF Fits, KeptAt, IpAt, DpAt, Iputs, Ends, LocRec
<1>4. \/ ic' = Entry(ic, s, d, 0) /\ PutThen(p, s, "fail", NoLoc)
      \/ ic' = Entry(ic, s, d, p) /\ Goto(p, "opened") /\ UNCHANGED loc
  BY <1>1, Zenon DEF OpenOld, UnlockPut
<1>5. ASSUME ic' = Entry(ic, s, d, 0), PutThen(p, s, "fail", NoLoc)
      PROVE  IInv'
  <2>1. /\ IcSet(ic') /\ One(ic')
        /\ \A u \in Slots : /\ ic'[u].ref = ic[u].ref + Is(u, 0)
                            /\ ic'[u].lock = IF u = s THEN 0 ELSE ic[u].lock
    BY <1>5, EntryIs, IsNat, RefNat, Typed
  <2>2. PICK r : r = NoLoc
    OBVIOUS
  <2>3. /\ LocRec(r) /\ r.cur = 0 /\ r.ip = 0 /\ r.dp = 0
    BY <2>2, NoLocIs
  <2>4. Fits("fail", r, c(p).op) /\ "fail" \notin Elsewhere \cup Iputs
    BY <1>3, <1>5, <2>3 DEF Fits, IpAt, DpAt, Idle, Elsewhere, Iputs, Ends
  <2>5. \A u \in Slots : Held(loc[p], u) + Is(u, 0)
          = Is(r.cur, u) + Is(r.ip, u) + Is(r.dp, u) + Is(s, u)
    BY <1>3, <1>5, <2>3, NotZero DEF Held, Is
  <2>6. \A u \in Slots : ic'[u].lock = p <=> u \in KeptAt("fail", r)
    BY <1>2, <1>3, <1>5, <2>1, <2>3, NotZero DEF KeptAt
  <2>7. OthersLocks(p)
    BY <1>2, <1>3, <2>1, NotZero DEF OthersLocks
  <2>8. Puts(p, 0, s, "fail", r)
    BY <1>2, <1>3, <1>5, <2>1, <2>2, <2>3, <2>4, <2>5, <2>6, <2>7 DEF Puts, InCall
  <2> QED BY <2>8, PutStep
<1>6. ASSUME ic' = Entry(ic, s, d, p), Goto(p, "opened"), UNCHANGED loc
      PROVE  IInv'
  <2>1. /\ IcSet(ic') /\ One(ic')
        /\ \A u \in Slots : /\ ic'[u].ref = ic[u].ref + Is(u, 0)
                            /\ ic'[u].lock = IF u = s THEN p ELSE ic[u].lock
    BY <1>6, EntryIs, IsNat, RefNat, Typed
  <2>2. PICK r : r = loc'[p]
    OBVIOUS
  <2>3. /\ LocRec(r) /\ r.cur = 0 /\ r.ip = s /\ r.dp = 0
        /\ r.put = 0 /\ r.then \notin Ends /\ DOMAIN loc' = Procs
        /\ \A q \in Procs \ {p} : loc'[q] = loc[q]
    BY <2>2, <1>3, <1>6, Typed, ZeroSlot DEF LocRec, LocFields, Ends
  <2>4. Fits("opened", r, c(p).op) /\ "opened" \notin Elsewhere \cup Iputs
    BY <1>3, <1>6, <2>3 DEF Fits, IpAt, DpAt, Idle, Elsewhere, Iputs, Ends
  <2>5. \A u \in Slots : Held(loc[p], u) + Is(u, 0) = Held(r, u)
    BY <1>3, <1>6, <2>3, NotZero DEF Held, Is
  <2>6. \A u \in Slots : ic'[u].lock = p <=> u \in KeptAt("opened", r)
    BY <1>2, <1>3, <1>6, <2>1, <2>3, NotZero DEF KeptAt
  <2>7. OthersLocks(p)
    BY <1>2, <1>3, <2>1, NotZero DEF OthersLocks
  <2>8. Goes(p, 0, "opened", r)
    BY <1>2, <1>3, <1>6, <2>1, <2>2, <2>3, <2>4, <2>5, <2>6, <2>7 DEF Goes, InCall
  <2> QED BY <2>8, GoStep
<1> QED BY <1>4, <1>5, <1>6

\* create() finds the name: the inode is opened, or is dropped.
LEMMA StepExists ==
  ASSUME IInv, NEW p \in Procs, Exists(p)
  PROVE  IInv'
<1>1. PICK s, d : s = loc[p].ip /\ d = Loaded(loc[p].ip)
  OBVIOUS
<1>2. pc[p] = "exists" /\ UNCHANGED <<ft, proc>> /\ ic[s].lock = 0
  BY <1>1, Zenon DEF Exists, At, Ilock, Wanted, UNCH_call
<1>3. /\ loc[p].cur = 0 /\ loc[p].ip = s /\ loc[p].dp = 0 /\ loc[p].put = 0
      /\ loc[p].then \notin Ends /\ proc[p].state = "used" /\ LocRec(loc[p])
      /\ s \in Slots0
      /\ \A u \in Slots : ic[u].lock # p
  BY <1>1, <1>2, AtIs, Typed DEF Fits, KeptAt, IpAt, DpAt, Iputs, Ends, LocRec
<1>4. \/ ic' = Entry(ic, s, d, 0) /\ PutThen(p, s, "fail", NoLoc)
      \/ ic' = Entry(ic, s, d, p) /\ Goto(p, "opened") /\ UNCHANGED loc
  BY <1>1, Zenon DEF Exists, UnlockPut
<1>5. ASSUME ic' = Entry(ic, s, d, 0), PutThen(p, s, "fail", NoLoc)
      PROVE  IInv'
  <2>1. /\ IcSet(ic') /\ One(ic')
        /\ \A u \in Slots : /\ ic'[u].ref = ic[u].ref + Is(u, 0)
                            /\ ic'[u].lock = IF u = s THEN 0 ELSE ic[u].lock
    BY <1>5, EntryIs, IsNat, RefNat, Typed
  <2>2. PICK r : r = NoLoc
    OBVIOUS
  <2>3. /\ LocRec(r) /\ r.cur = 0 /\ r.ip = 0 /\ r.dp = 0
    BY <2>2, NoLocIs
  <2>4. Fits("fail", r, c(p).op) /\ "fail" \notin Elsewhere \cup Iputs
    BY <1>3, <1>5, <2>3 DEF Fits, IpAt, DpAt, Idle, Elsewhere, Iputs, Ends
  <2>5. \A u \in Slots : Held(loc[p], u) + Is(u, 0)
          = Is(r.cur, u) + Is(r.ip, u) + Is(r.dp, u) + Is(s, u)
    BY <1>3, <1>5, <2>3, NotZero DEF Held, Is
  <2>6. \A u \in Slots : ic'[u].lock = p <=> u \in KeptAt("fail", r)
    BY <1>2, <1>3, <1>5, <2>1, <2>3, NotZero DEF KeptAt
  <2>7. OthersLocks(p)
    BY <1>2, <1>3, <2>1, NotZero DEF OthersLocks
  <2>8. Puts(p, 0, s, "fail", r)
    BY <1>2, <1>3, <1>5, <2>1, <2>2, <2>3, <2>4, <2>5, <2>6, <2>7 DEF Puts, InCall
  <2> QED BY <2>8, PutStep
<1>6. ASSUME ic' = Entry(ic, s, d, p), Goto(p, "opened"), UNCHANGED loc
      PROVE  IInv'
  <2>1. /\ IcSet(ic') /\ One(ic')
        /\ \A u \in Slots : /\ ic'[u].ref = ic[u].ref + Is(u, 0)
                            /\ ic'[u].lock = IF u = s THEN p ELSE ic[u].lock
    BY <1>6, EntryIs, IsNat, RefNat, Typed
  <2>2. PICK r : r = loc'[p]
    OBVIOUS
  <2>3. /\ LocRec(r) /\ r.cur = 0 /\ r.ip = s /\ r.dp = 0
        /\ r.put = 0 /\ r.then \notin Ends /\ DOMAIN loc' = Procs
        /\ \A q \in Procs \ {p} : loc'[q] = loc[q]
    BY <2>2, <1>3, <1>6, Typed, ZeroSlot DEF LocRec, LocFields, Ends
  <2>4. Fits("opened", r, c(p).op) /\ "opened" \notin Elsewhere \cup Iputs
    BY <1>3, <1>6, <2>3 DEF Fits, IpAt, DpAt, Idle, Elsewhere, Iputs, Ends
  <2>5. \A u \in Slots : Held(loc[p], u) + Is(u, 0) = Held(r, u)
    BY <1>3, <1>6, <2>3, NotZero DEF Held, Is
  <2>6. \A u \in Slots : ic'[u].lock = p <=> u \in KeptAt("opened", r)
    BY <1>2, <1>3, <1>6, <2>1, <2>3, NotZero DEF KeptAt
  <2>7. OthersLocks(p)
    BY <1>2, <1>3, <2>1, NotZero DEF OthersLocks
  <2>8. Goes(p, 0, "opened", r)
    BY <1>2, <1>3, <1>6, <2>1, <2>2, <2>3, <2>4, <2>5, <2>6, <2>7 DEF Goes, InCall
  <2> QED BY <2>8, GoStep
<1> QED BY <1>4, <1>5, <1>6

\* create() of a new inode, both locked: the directory is dropped.
LEMMA StepFill ==
  ASSUME IInv, NEW p \in Procs, Fill(p)
  PROVE  IInv'
<1>1. PICK s, t : s = loc[p].ip /\ t = loc[p].dp
  OBVIOUS
<1>2. pc[p] = "fill" /\ UNCHANGED <<ft, proc>> /\ ic[s].lock = 0
  BY <1>1, Zenon DEF Fill, At, Ilock, Wanted, UNCH_call
<1>3. /\ loc[p].cur = 0 /\ loc[p].ip = s /\ loc[p].dp = t /\ loc[p].put = 0
      /\ loc[p].then \notin Ends /\ proc[p].state = "used" /\ LocRec(loc[p])
      /\ s \in Slots0 /\ t \in Slots0
      /\ \A u \in Slots : ic[u].lock = p <=> u = t
  BY <1>1, <1>2, AtIs, Typed DEF Fits, KeptAt, IpAt, DpAt, Iputs, Ends, LocRec
<1>4. \E d, e : \E l \in {"opened", "made"} :
        /\ ic' = Entry(Entry(ic, s, d, p), t, e, 0)
        /\ PutThen(p, t, l, [loc[p] EXCEPT !.dp = 0])
  BY <1>1, Zenon DEF Fill, UnlockPut
<1>5. ASSUME NEW d, NEW e, NEW l \in {"opened", "made"}, ic' = Entry(Entry(ic, s, d, p), t, e, 0),
             PutThen(p, t, l, [loc[p] EXCEPT !.dp = 0])
      PROVE  IInv'
  <2>1. PICK x : /\ x = Entry(ic, s, d, p) /\ IcSet(x) /\ One(x)
                 /\ \A u \in Slots : /\ x[u].ref = ic[u].ref
                                     /\ x[u].lock = IF u = s THEN p ELSE ic[u].lock
    BY EntryIs, Typed
  <2>2. /\ IcSet(ic') /\ One(ic')
        /\ \A u \in Slots : /\ ic'[u].ref = ic[u].ref + Is(u, 0)
                            /\ ic'[u].lock = IF u = t THEN 0 ELSE IF u = s THEN p ELSE ic[u].lock
    BY <2>1, <1>5, EntryIs, IsNat, RefNat, Typed
  <2>3. PICK r : r = [loc[p] EXCEPT !.dp = 0]
    OBVIOUS
  <2>4. /\ LocRec(r) /\ r.cur = 0 /\ r.ip = s /\ r.dp = 0
    BY <2>1, <2>3, <1>3, ZeroSlot DEF LocRec, LocFields
  <2>5. Fits(l, r, c(p).op) /\ l \notin Elsewhere \cup Iputs
    BY <1>3, <1>5, <2>4 DEF Fits, IpAt, DpAt, Idle, Elsewhere, Iputs, Ends
  <2>6. \A u \in Slots : Held(loc[p], u) + Is(u, 0)
          = Is(r.cur, u) + Is(r.ip, u) + Is(r.dp, u) + Is(t, u)
    BY <1>3, <1>5, <2>4, NotZero DEF Held, Is
  <2>7. \A u \in Slots : ic'[u].lock = p <=> u \in KeptAt(l, r)
    BY <1>2, <1>3, <1>5, <2>2, <2>4, NotZero DEF KeptAt
  <2>8. OthersLocks(p)
    BY <1>2, <1>3, <2>2, NotZero DEF OthersLocks
  <2>9. Puts(p, 0, t, l, r)
    BY <2>1, <1>2, <1>3, <1>5, <2>2, <2>3, <2>4, <2>5, <2>6, <2>7, <2>8 DEF Puts, InCall
  <2> QED BY <2>9, PutStep
<1> QED BY <1>4, <1>5

\* mkdir() and mknod() drop the inode they made.
LEMMA StepMade ==
  ASSUME IInv, NEW p \in Procs, Made(p)
  PROVE  IInv'
<1>1. PICK s : s = loc[p].ip
  OBVIOUS
<1>2. pc[p] = "made" /\ UNCHANGED <<ft, proc>>
  BY <1>1, Zenon DEF Made, At, Ilock, Wanted, UNCH_call
<1>3. /\ loc[p].cur = 0 /\ loc[p].ip = s /\ loc[p].dp = 0 /\ loc[p].put = 0
      /\ loc[p].then \notin Ends /\ proc[p].state = "used" /\ LocRec(loc[p])
      /\ s \in Slots0
      /\ \A u \in Slots : ic[u].lock = p <=> u = s
  BY <1>1, <1>2, AtIs, Typed DEF Fits, KeptAt, IpAt, DpAt, Iputs, Ends, LocRec
<1>4. ic' = SetLock(ic, s, 0) /\ PutThen(p, s, "ok", NoLoc)
  BY <1>1, Zenon DEF Made, UnlockPut, SetLock
<1>5. ASSUME ic' = SetLock(ic, s, 0), PutThen(p, s, "ok", NoLoc)
      PROVE  IInv'
  <2>1. /\ IcSet(ic') /\ One(ic')
        /\ \A u \in Slots : /\ ic'[u].ref = ic[u].ref + Is(u, 0)
                            /\ ic'[u].lock = IF u = s THEN 0 ELSE ic[u].lock
    BY <1>5, LockIs, IsNat, RefNat, Typed
  <2>2. PICK r : r = NoLoc
    OBVIOUS
  <2>3. /\ LocRec(r) /\ r.cur = 0 /\ r.ip = 0 /\ r.dp = 0
    BY <2>2, NoLocIs
  <2>4. Fits("ok", r, c(p).op) /\ "ok" \notin Elsewhere \cup Iputs
    BY <1>3, <1>5, <2>3 DEF Fits, IpAt, DpAt, Idle, Elsewhere, Iputs, Ends
  <2>5. \A u \in Slots : Held(loc[p], u) + Is(u, 0)
          = Is(r.cur, u) + Is(r.ip, u) + Is(r.dp, u) + Is(s, u)
    BY <1>3, <1>5, <2>3, NotZero DEF Held, Is
  <2>6. \A u \in Slots : ic'[u].lock = p <=> u \in KeptAt("ok", r)
    BY <1>2, <1>3, <1>5, <2>1, <2>3, NotZero DEF KeptAt
  <2>7. OthersLocks(p)
    BY <1>2, <1>3, <2>1, NotZero DEF OthersLocks
  <2>8. Puts(p, 0, s, "ok", r)
    BY <1>2, <1>3, <1>5, <2>1, <2>2, <2>3, <2>4, <2>5, <2>6, <2>7 DEF Puts, InCall
  <2> QED BY <2>8, PutStep
<1> QED BY <1>4, <1>5

\* dirlink() after its iput(): the name is there, or it is written.
LEMMA StepLinkDup ==
  ASSUME IInv, NEW p \in Procs, LinkDup(p)
  PROVE  IInv'
<1>1. PICK s, t : s = loc[p].ip /\ t = loc[p].dp
  OBVIOUS
<1>2. pc[p] = "linkdup" /\ UNCHANGED <<ft, proc>>
  BY <1>1, Zenon DEF LinkDup, UnlockDp, At, Ilock, Wanted, UNCH_call
<1>3. /\ loc[p].cur = 0 /\ loc[p].ip = s /\ loc[p].dp = t /\ loc[p].put = 0
      /\ loc[p].then \notin Ends /\ proc[p].state = "used" /\ LocRec(loc[p])
      /\ s \in Slots0 /\ t \in Slots0
      /\ \A u \in Slots : ic[u].lock = p <=> u = t
  BY <1>1, <1>2, AtIs, Typed DEF Fits, KeptAt, IpAt, DpAt, Iputs, Ends, LocRec
<1>4. ic' = SetLock(ic, t, 0) /\ PutThen(p, t, "linkbad", [loc[p] EXCEPT !.dp = 0])
  BY <1>1, Zenon DEF LinkDup, UnlockDp, UnlockPut, SetLock
<1>5. ASSUME ic' = SetLock(ic, t, 0), PutThen(p, t, "linkbad", [loc[p] EXCEPT !.dp = 0])
      PROVE  IInv'
  <2>1. /\ IcSet(ic') /\ One(ic')
        /\ \A u \in Slots : /\ ic'[u].ref = ic[u].ref + Is(u, 0)
                            /\ ic'[u].lock = IF u = t THEN 0 ELSE ic[u].lock
    BY <1>5, LockIs, IsNat, RefNat, Typed
  <2>2. PICK r : r = [loc[p] EXCEPT !.dp = 0]
    OBVIOUS
  <2>3. /\ LocRec(r) /\ r.cur = 0 /\ r.ip = s /\ r.dp = 0
    BY <2>2, <1>3, ZeroSlot DEF LocRec, LocFields
  <2>4. Fits("linkbad", r, c(p).op) /\ "linkbad" \notin Elsewhere \cup Iputs
    BY <1>3, <1>5, <2>3 DEF Fits, IpAt, DpAt, Idle, Elsewhere, Iputs, Ends
  <2>5. \A u \in Slots : Held(loc[p], u) + Is(u, 0)
          = Is(r.cur, u) + Is(r.ip, u) + Is(r.dp, u) + Is(t, u)
    BY <1>3, <1>5, <2>3, NotZero DEF Held, Is
  <2>6. \A u \in Slots : ic'[u].lock = p <=> u \in KeptAt("linkbad", r)
    BY <1>2, <1>3, <1>5, <2>1, <2>3, NotZero DEF KeptAt
  <2>7. OthersLocks(p)
    BY <1>2, <1>3, <2>1, NotZero DEF OthersLocks
  <2>8. Puts(p, 0, t, "linkbad", r)
    BY <1>2, <1>3, <1>5, <2>1, <2>2, <2>3, <2>4, <2>5, <2>6, <2>7 DEF Puts, InCall
  <2> QED BY <2>8, PutStep
<1> QED BY <1>4, <1>5

\* link() drops its two references one after the other.
LEMMA StepLinkPut ==
  ASSUME IInv, NEW p \in Procs, LinkPut(p)
  PROVE  IInv'
<1>1. PICK s : s = loc[p].ip
  OBVIOUS
<1>2. pc[p] = "linkput" /\ UNCHANGED <<ft, proc>>
  BY <1>1, Zenon DEF LinkPut, At, Ilock, Wanted, UNCH_call
<1>3. /\ loc[p].cur = 0 /\ loc[p].ip = s /\ loc[p].dp = 0 /\ loc[p].put = 0
      /\ loc[p].then \notin Ends /\ proc[p].state = "used" /\ LocRec(loc[p])
      /\ s \in Slots0
      /\ \A u \in Slots : ic[u].lock # p
  BY <1>1, <1>2, AtIs, Typed DEF Fits, KeptAt, IpAt, DpAt, Iputs, Ends, LocRec
<1>4. UNCHANGED ic /\ PutThen(p, s, "ok", NoLoc)
  BY <1>1, Zenon DEF LinkPut
<1>5. ASSUME UNCHANGED ic, PutThen(p, s, "ok", NoLoc)
      PROVE  IInv'
  <2>1. /\ IcSet(ic') /\ One(ic')
        /\ \A u \in Slots : /\ ic'[u].ref = ic[u].ref + Is(u, 0)
                            /\ ic'[u].lock = ic[u].lock
    BY <1>5, IsNat, RefNat, Typed
  <2>2. PICK r : r = NoLoc
    OBVIOUS
  <2>3. /\ LocRec(r) /\ r.cur = 0 /\ r.ip = 0 /\ r.dp = 0
    BY <2>2, NoLocIs
  <2>4. Fits("ok", r, c(p).op) /\ "ok" \notin Elsewhere \cup Iputs
    BY <1>3, <1>5, <2>3 DEF Fits, IpAt, DpAt, Idle, Elsewhere, Iputs, Ends
  <2>5. \A u \in Slots : Held(loc[p], u) + Is(u, 0)
          = Is(r.cur, u) + Is(r.ip, u) + Is(r.dp, u) + Is(s, u)
    BY <1>3, <1>5, <2>3, NotZero DEF Held, Is
  <2>6. \A u \in Slots : ic'[u].lock = p <=> u \in KeptAt("ok", r)
    BY <1>2, <1>3, <1>5, <2>1, <2>3, NotZero DEF KeptAt
  <2>7. OthersLocks(p)
    BY <1>2, <1>3, <2>1, NotZero DEF OthersLocks
  <2>8. Puts(p, 0, s, "ok", r)
    BY <1>2, <1>3, <1>5, <2>1, <2>2, <2>3, <2>4, <2>5, <2>6, <2>7 DEF Puts, InCall
  <2> QED BY <2>8, PutStep
<1> QED BY <1>4, <1>5

\* link() takes the name it counted back, and drops the inode.
LEMMA StepLinkBad ==
  ASSUME IInv, NEW p \in Procs, LinkBad(p)
  PROVE  IInv'
<1>1. PICK s, d : s = loc[p].ip /\ d = [Loaded(loc[p].ip) EXCEPT !.nlink = @ - 1]
  OBVIOUS
<1>2. pc[p] = "linkbad" /\ UNCHANGED <<ft, proc>> /\ ic[s].lock = 0
  BY <1>1, Zenon DEF LinkBad, DropLink, At, Ilock, Wanted, UNCH_call
<1>3. /\ loc[p].cur = 0 /\ loc[p].ip = s /\ loc[p].dp = 0 /\ loc[p].put = 0
      /\ loc[p].then \notin Ends /\ proc[p].state = "used" /\ LocRec(loc[p])
      /\ s \in Slots0
      /\ \A u \in Slots : ic[u].lock # p
  BY <1>1, <1>2, AtIs, Typed DEF Fits, KeptAt, IpAt, DpAt, Iputs, Ends, LocRec
<1>4. ic' = Entry(ic, s, d, 0) /\ PutThen(p, s, "fail", NoLoc)
  BY <1>1, Zenon DEF LinkBad, DropLink, UnlockPut
<1>5. ASSUME ic' = Entry(ic, s, d, 0), PutThen(p, s, "fail", NoLoc)
      PROVE  IInv'
  <2>1. /\ IcSet(ic') /\ One(ic')
        /\ \A u \in Slots : /\ ic'[u].ref = ic[u].ref + Is(u, 0)
                            /\ ic'[u].lock = IF u = s THEN 0 ELSE ic[u].lock
    BY <1>5, EntryIs, IsNat, RefNat, Typed
  <2>2. PICK r : r = NoLoc
    OBVIOUS
  <2>3. /\ LocRec(r) /\ r.cur = 0 /\ r.ip = 0 /\ r.dp = 0
    BY <2>2, NoLocIs
  <2>4. Fits("fail", r, c(p).op) /\ "fail" \notin Elsewhere \cup Iputs
    BY <1>3, <1>5, <2>3 DEF Fits, IpAt, DpAt, Idle, Elsewhere, Iputs, Ends
  <2>5. \A u \in Slots : Held(loc[p], u) + Is(u, 0)
          = Is(r.cur, u) + Is(r.ip, u) + Is(r.dp, u) + Is(s, u)
    BY <1>3, <1>5, <2>3, NotZero DEF Held, Is
  <2>6. \A u \in Slots : ic'[u].lock = p <=> u \in KeptAt("fail", r)
    BY <1>2, <1>3, <1>5, <2>1, <2>3, NotZero DEF KeptAt
  <2>7. OthersLocks(p)
    BY <1>2, <1>3, <2>1, NotZero DEF OthersLocks
  <2>8. Puts(p, 0, s, "fail", r)
    BY <1>2, <1>3, <1>5, <2>1, <2>2, <2>3, <2>4, <2>5, <2>6, <2>7 DEF Puts, InCall
  <2> QED BY <2>8, PutStep
<1> QED BY <1>4, <1>5

\* unlink() with both locked: the directory is dropped, the inode stays locked.
LEMMA StepUnlinkEntry ==
  ASSUME IInv, NEW p \in Procs, UnlinkEntry(p)
  PROVE  IInv'
<1>1. PICK s, t, d : s = loc[p].ip /\ t = loc[p].dp /\ d = Loaded(loc[p].ip)
  OBVIOUS
<1>2. pc[p] = "unlinkent" /\ UNCHANGED <<ft, proc>> /\ ic[s].lock = 0
  BY <1>1, Zenon DEF UnlinkEntry, At, Ilock, Wanted, UNCH_call
<1>3. /\ loc[p].cur = 0 /\ loc[p].ip = s /\ loc[p].dp = t /\ loc[p].put = 0
      /\ loc[p].then \notin Ends /\ proc[p].state = "used" /\ LocRec(loc[p])
      /\ s \in Slots0 /\ t \in Slots0
      /\ \A u \in Slots : ic[u].lock = p <=> u = t
  BY <1>1, <1>2, AtIs, Typed DEF Fits, KeptAt, IpAt, DpAt, Iputs, Ends, LocRec
<1>4. \/ ic' = Entry(ic, s, d, 0) /\ PutThen(p, s, "unlinkbad", [loc[p] EXCEPT !.ip = 0])
      \/ \E e : /\ ic' = Entry(Entry(ic, s, d, p), t, e, 0)
                /\ PutThen(p, t, "unlinked", [loc[p] EXCEPT !.dp = 0])
  BY <1>1, Zenon DEF UnlinkEntry, UnlockPut
<1>5. ASSUME ic' = Entry(ic, s, d, 0), PutThen(p, s, "unlinkbad", [loc[p] EXCEPT !.ip = 0])
      PROVE  IInv'
  <2>1. /\ IcSet(ic') /\ One(ic')
        /\ \A u \in Slots : /\ ic'[u].ref = ic[u].ref + Is(u, 0)
                            /\ ic'[u].lock = IF u = s THEN 0 ELSE ic[u].lock
    BY <1>5, EntryIs, IsNat, RefNat, Typed
  <2>2. PICK r : r = [loc[p] EXCEPT !.ip = 0]
    OBVIOUS
  <2>3. /\ LocRec(r) /\ r.cur = 0 /\ r.ip = 0 /\ r.dp = t
    BY <2>2, <1>3, ZeroSlot DEF LocRec, LocFields
  <2>4. Fits("unlinkbad", r, c(p).op) /\ "unlinkbad" \notin Elsewhere \cup Iputs
    BY <1>3, <1>5, <2>3 DEF Fits, IpAt, DpAt, Idle, Elsewhere, Iputs, Ends
  <2>5. \A u \in Slots : Held(loc[p], u) + Is(u, 0)
          = Is(r.cur, u) + Is(r.ip, u) + Is(r.dp, u) + Is(s, u)
    BY <1>3, <1>5, <2>3, NotZero DEF Held, Is
  <2>6. \A u \in Slots : ic'[u].lock = p <=> u \in KeptAt("unlinkbad", r)
    BY <1>2, <1>3, <1>5, <2>1, <2>3, NotZero DEF KeptAt
  <2>7. OthersLocks(p)
    BY <1>2, <1>3, <2>1, NotZero DEF OthersLocks
  <2>8. Puts(p, 0, s, "unlinkbad", r)
    BY <1>2, <1>3, <1>5, <2>1, <2>2, <2>3, <2>4, <2>5, <2>6, <2>7 DEF Puts, InCall
  <2> QED BY <2>8, PutStep
<1>6. ASSUME NEW e, ic' = Entry(Entry(ic, s, d, p), t, e, 0),
             PutThen(p, t, "unlinked", [loc[p] EXCEPT !.dp = 0])
      PROVE  IInv'
  <2>1. PICK x : /\ x = Entry(ic, s, d, p) /\ IcSet(x) /\ One(x)
                 /\ \A u \in Slots : /\ x[u].ref = ic[u].ref
                                     /\ x[u].lock = IF u = s THEN p ELSE ic[u].lock
    BY EntryIs, Typed
  <2>2. /\ IcSet(ic') /\ One(ic')
        /\ \A u \in Slots : /\ ic'[u].ref = ic[u].ref + Is(u, 0)
                            /\ ic'[u].lock = IF u = t THEN 0 ELSE IF u = s THEN p ELSE ic[u].lock
    BY <2>1, <1>6, EntryIs, IsNat, RefNat, Typed
  <2>3. PICK r : r = [loc[p] EXCEPT !.dp = 0]
    OBVIOUS
  <2>4. /\ LocRec(r) /\ r.cur = 0 /\ r.ip = s /\ r.dp = 0
    BY <2>1, <2>3, <1>3, ZeroSlot DEF LocRec, LocFields
  <2>5. Fits("unlinked", r, c(p).op) /\ "unlinked" \notin Elsewhere \cup Iputs
    BY <1>3, <1>6, <2>4 DEF Fits, IpAt, DpAt, Idle, Elsewhere, Iputs, Ends
  <2>6. \A u \in Slots : Held(loc[p], u) + Is(u, 0)
          = Is(r.cur, u) + Is(r.ip, u) + Is(r.dp, u) + Is(t, u)
    BY <1>3, <1>6, <2>4, NotZero DEF Held, Is
  <2>7. \A u \in Slots : ic'[u].lock = p <=> u \in KeptAt("unlinked", r)
    BY <1>2, <1>3, <1>6, <2>2, <2>4, NotZero DEF KeptAt
  <2>8. OthersLocks(p)
    BY <1>2, <1>3, <2>2, NotZero DEF OthersLocks
  <2>9. Puts(p, 0, t, "unlinked", r)
    BY <2>1, <1>2, <1>3, <1>6, <2>2, <2>3, <2>4, <2>5, <2>6, <2>7, <2>8 DEF Puts, InCall
  <2> QED BY <2>9, PutStep
<1> QED BY <1>4, <1>5, <1>6

\* unlink() of a directory that is not empty.
LEMMA StepUnlinkBad ==
  ASSUME IInv, NEW p \in Procs, UnlinkBad(p)
  PROVE  IInv'
<1>1. PICK t : t = loc[p].dp
  OBVIOUS
<1>2. pc[p] = "unlinkbad" /\ UNCHANGED <<ft, proc>>
  BY <1>1, Zenon DEF UnlinkBad, UnlockDp, At, Ilock, Wanted, UNCH_call
<1>3. /\ loc[p].cur = 0 /\ loc[p].ip = 0 /\ loc[p].dp = t /\ loc[p].put = 0
      /\ loc[p].then \notin Ends /\ proc[p].state = "used" /\ LocRec(loc[p])
      /\ t \in Slots0
      /\ \A u \in Slots : ic[u].lock = p <=> u = t
  BY <1>1, <1>2, AtIs, Typed DEF Fits, KeptAt, IpAt, DpAt, Iputs, Ends, LocRec
<1>4. ic' = SetLock(ic, t, 0) /\ PutThen(p, t, "fail", [loc[p] EXCEPT !.dp = 0])
  BY <1>1, Zenon DEF UnlinkBad, UnlockDp, UnlockPut, SetLock
<1>5. ASSUME ic' = SetLock(ic, t, 0), PutThen(p, t, "fail", [loc[p] EXCEPT !.dp = 0])
      PROVE  IInv'
  <2>1. /\ IcSet(ic') /\ One(ic')
        /\ \A u \in Slots : /\ ic'[u].ref = ic[u].ref + Is(u, 0)
                            /\ ic'[u].lock = IF u = t THEN 0 ELSE ic[u].lock
    BY <1>5, LockIs, IsNat, RefNat, Typed
  <2>2. PICK r : r = [loc[p] EXCEPT !.dp = 0]
    OBVIOUS
  <2>3. /\ LocRec(r) /\ r.cur = 0 /\ r.ip = 0 /\ r.dp = 0
    BY <2>2, <1>3, ZeroSlot DEF LocRec, LocFields
  <2>4. Fits("fail", r, c(p).op) /\ "fail" \notin Elsewhere \cup Iputs
    BY <1>3, <1>5, <2>3 DEF Fits, IpAt, DpAt, Idle, Elsewhere, Iputs, Ends
  <2>5. \A u \in Slots : Held(loc[p], u) + Is(u, 0)
          = Is(r.cur, u) + Is(r.ip, u) + Is(r.dp, u) + Is(t, u)
    BY <1>3, <1>5, <2>3, NotZero DEF Held, Is
  <2>6. \A u \in Slots : ic'[u].lock = p <=> u \in KeptAt("fail", r)
    BY <1>2, <1>3, <1>5, <2>1, <2>3, NotZero DEF KeptAt
  <2>7. OthersLocks(p)
    BY <1>2, <1>3, <2>1, NotZero DEF OthersLocks
  <2>8. Puts(p, 0, t, "fail", r)
    BY <1>2, <1>3, <1>5, <2>1, <2>2, <2>3, <2>4, <2>5, <2>6, <2>7 DEF Puts, InCall
  <2> QED BY <2>8, PutStep
<1> QED BY <1>4, <1>5

\* unlink() drops the inode, one name less.
LEMMA StepUnlinked ==
  ASSUME IInv, NEW p \in Procs, Unlinked(p)
  PROVE  IInv'
<1>1. PICK s, d : s = loc[p].ip /\ d = [ic[loc[p].ip].d EXCEPT !.nlink = @ - 1]
  OBVIOUS
<1>2. pc[p] = "unlinked" /\ UNCHANGED <<ft, proc>>
  BY <1>1, Zenon DEF Unlinked, DropLink, At, Ilock, Wanted, UNCH_call
<1>3. /\ loc[p].cur = 0 /\ loc[p].ip = s /\ loc[p].dp = 0 /\ loc[p].put = 0
      /\ loc[p].then \notin Ends /\ proc[p].state = "used" /\ LocRec(loc[p])
      /\ s \in Slots0
      /\ \A u \in Slots : ic[u].lock = p <=> u = s
  BY <1>1, <1>2, AtIs, Typed DEF Fits, KeptAt, IpAt, DpAt, Iputs, Ends, LocRec
<1>4. ic' = Entry(ic, s, d, 0) /\ PutThen(p, s, "ok", NoLoc)
  BY <1>1, Zenon DEF Unlinked, DropLink, UnlockPut
<1>5. ASSUME ic' = Entry(ic, s, d, 0), PutThen(p, s, "ok", NoLoc)
      PROVE  IInv'
  <2>1. /\ IcSet(ic') /\ One(ic')
        /\ \A u \in Slots : /\ ic'[u].ref = ic[u].ref + Is(u, 0)
                            /\ ic'[u].lock = IF u = s THEN 0 ELSE ic[u].lock
    BY <1>5, EntryIs, IsNat, RefNat, Typed
  <2>2. PICK r : r = NoLoc
    OBVIOUS
  <2>3. /\ LocRec(r) /\ r.cur = 0 /\ r.ip = 0 /\ r.dp = 0
    BY <2>2, NoLocIs
  <2>4. Fits("ok", r, c(p).op) /\ "ok" \notin Elsewhere \cup Iputs
    BY <1>3, <1>5, <2>3 DEF Fits, IpAt, DpAt, Idle, Elsewhere, Iputs, Ends
  <2>5. \A u \in Slots : Held(loc[p], u) + Is(u, 0)
          = Is(r.cur, u) + Is(r.ip, u) + Is(r.dp, u) + Is(s, u)
    BY <1>3, <1>5, <2>3, NotZero DEF Held, Is
  <2>6. \A u \in Slots : ic'[u].lock = p <=> u \in KeptAt("ok", r)
    BY <1>2, <1>3, <1>5, <2>1, <2>3, NotZero DEF KeptAt
  <2>7. OthersLocks(p)
    BY <1>2, <1>3, <2>1, NotZero DEF OthersLocks
  <2>8. Puts(p, 0, s, "ok", r)
    BY <1>2, <1>3, <1>5, <2>1, <2>2, <2>3, <2>4, <2>5, <2>6, <2>7 DEF Puts, InCall
  <2> QED BY <2>8, PutStep
<1> QED BY <1>4, <1>5

\* exec() reads its file and drops it.
LEMMA StepExec ==
  ASSUME IInv, NEW p \in Procs, Exec(p)
  PROVE  IInv'
<1>1. PICK s, d, w : s = loc[p].ip /\ d = Loaded(loc[p].ip) /\ w = LoadSegments(Loaded(loc[p].ip))
  OBVIOUS
<1>2. pc[p] = "exec" /\ UNCHANGED <<ft, proc>> /\ ic[s].lock = 0
  BY <1>1, Zenon DEF Exec, At, Ilock, Wanted
<1>3. /\ loc[p].cur = 0 /\ loc[p].ip = s /\ loc[p].dp = 0 /\ loc[p].put = 0
      /\ loc[p].then \notin Ends /\ proc[p].state = "used" /\ LocRec(loc[p])
      /\ s \in Slots0
      /\ \A u \in Slots : ic[u].lock # p
  BY <1>1, <1>2, AtIs, Typed DEF Fits, KeptAt, IpAt, DpAt, Iputs, Ends, LocRec
<1>4. \/ ic' = Entry(ic, s, d, 0) /\ PutThen(p, s, "stack", [NoLoc EXCEPT !.vm = w.vm, !.sz = w.sz])
      \/ ic' = Entry(ic, s, d, 0) /\ PutThen(p, s, "fail", NoLoc)
  BY <1>1, Zenon DEF Exec, UnlockPut
<1>5. ASSUME ic' = Entry(ic, s, d, 0), PutThen(p, s, "stack", [NoLoc EXCEPT !.vm = w.vm, !.sz = w.sz])
      PROVE  IInv'
  <2>1. /\ IcSet(ic') /\ One(ic')
        /\ \A u \in Slots : /\ ic'[u].ref = ic[u].ref + Is(u, 0)
                            /\ ic'[u].lock = IF u = s THEN 0 ELSE ic[u].lock
    BY <1>5, EntryIs, IsNat, RefNat, Typed
  <2>2. PICK r : r = [NoLoc EXCEPT !.vm = w.vm, !.sz = w.sz]
    OBVIOUS
  <2>3. /\ LocRec(r) /\ r.cur = 0 /\ r.ip = 0 /\ r.dp = 0
    BY <2>2, <1>3, ZeroSlot, NoLocIs, NoLocIs DEF LocRec, LocFields
  <2>4. Fits("stack", r, c(p).op) /\ "stack" \notin Elsewhere \cup Iputs
    BY <1>3, <1>5, <2>3 DEF Fits, IpAt, DpAt, Idle, Elsewhere, Iputs, Ends
  <2>5. \A u \in Slots : Held(loc[p], u) + Is(u, 0)
          = Is(r.cur, u) + Is(r.ip, u) + Is(r.dp, u) + Is(s, u)
    BY <1>3, <1>5, <2>3, NotZero DEF Held, Is
  <2>6. \A u \in Slots : ic'[u].lock = p <=> u \in KeptAt("stack", r)
    BY <1>2, <1>3, <1>5, <2>1, <2>3, NotZero DEF KeptAt
  <2>7. OthersLocks(p)
    BY <1>2, <1>3, <2>1, NotZero DEF OthersLocks
  <2>8. Puts(p, 0, s, "stack", r)
    BY <1>2, <1>3, <1>5, <2>1, <2>2, <2>3, <2>4, <2>5, <2>6, <2>7 DEF Puts, InCall
  <2> QED BY <2>8, PutStep
<1>6. ASSUME ic' = Entry(ic, s, d, 0), PutThen(p, s, "fail", NoLoc)
      PROVE  IInv'
  <2>1. /\ IcSet(ic') /\ One(ic')
        /\ \A u \in Slots : /\ ic'[u].ref = ic[u].ref + Is(u, 0)
                            /\ ic'[u].lock = IF u = s THEN 0 ELSE ic[u].lock
    BY <1>6, EntryIs, IsNat, RefNat, Typed
  <2>2. PICK r : r = NoLoc
    OBVIOUS
  <2>3. /\ LocRec(r) /\ r.cur = 0 /\ r.ip = 0 /\ r.dp = 0
    BY <2>2, NoLocIs
  <2>4. Fits("fail", r, c(p).op) /\ "fail" \notin Elsewhere \cup Iputs
    BY <1>3, <1>6, <2>3 DEF Fits, IpAt, DpAt, Idle, Elsewhere, Iputs, Ends
  <2>5. \A u \in Slots : Held(loc[p], u) + Is(u, 0)
          = Is(r.cur, u) + Is(r.ip, u) + Is(r.dp, u) + Is(s, u)
    BY <1>3, <1>6, <2>3, NotZero DEF Held, Is
  <2>6. \A u \in Slots : ic'[u].lock = p <=> u \in KeptAt("fail", r)
    BY <1>2, <1>3, <1>6, <2>1, <2>3, NotZero DEF KeptAt
  <2>7. OthersLocks(p)
    BY <1>2, <1>3, <2>1, NotZero DEF OthersLocks
  <2>8. Puts(p, 0, s, "fail", r)
    BY <1>2, <1>3, <1>6, <2>1, <2>2, <2>3, <2>4, <2>5, <2>6, <2>7 DEF Puts, InCall
  <2> QED BY <2>8, PutStep
<1> QED BY <1>4, <1>5, <1>6

-----------------------------------------------------------------------------
(* Paths.                                                                  *)

\* An entry that a local variable, a file or a process uses has a reference.
LEMMA Users ==
  ASSUME IInv, NEW s \in Slots
  PROVE  /\ \A p \in Procs : Held(loc[p], s) # 0 => ic[s].ref > 0
         /\ \A f \in FileIds : ft[f].ip = s => ic[s].ref > 0
         /\ \A p \in Procs : InCwd(proc[p], loc[p], s) # 0 => ic[s].ref > 0
<1> DEFINE A == Cardinality(LocalsOf(loc, s))
           B == Cardinality(FilesOf(ft, s))
           C == Cardinality(CwdsOf(proc, loc, s))
<1>1. ic[s].ref = A + B + C
  BY RefsAre DEF IInv
<1>2. /\ IsFiniteSet(LocalsOf(loc, s)) /\ IsFiniteSet(FilesOf(ft, s))
      /\ IsFiniteSet(CwdsOf(proc, loc, s))
  <2>1. IsFiniteSet(Procs \X Owned)
    BY Finites
  <2> QED BY <2>1, Finites, FS_Subset DEF LocalsOf, FilesOf, CwdsOf
<1>3. A \in Nat /\ B \in Nat /\ C \in Nat
  BY <1>2, FS_CardinalityType
<1>4. /\ A = 0 => LocalsOf(loc, s) = {}
      /\ B = 0 => FilesOf(ft, s) = {}
      /\ C = 0 => CwdsOf(proc, loc, s) = {}
  BY <1>2, FS_EmptySet
<1> HIDE DEF A, B, C
<1>5. ASSUME NEW p \in Procs, Held(loc[p], s) # 0
      PROVE  LocalsOf(loc, s) # {}
  <2>1. \E v \in Owned : loc[p][v] = s
    BY <1>5 DEF Held, Is, Owned
  <2>2. PICK v \in Owned : loc[p][v] = s
    BY <2>1
  <2>3. <<p, v>> \in LocalsOf(loc, s)
    BY <2>2 DEF LocalsOf
  <2> QED BY <2>3
<1>6. ASSUME NEW f \in FileIds, ft[f].ip = s
      PROVE  FilesOf(ft, s) # {}
  BY <1>6 DEF FilesOf
<1>7. ASSUME NEW p \in Procs, InCwd(proc[p], loc[p], s) # 0
      PROVE  CwdsOf(proc, loc, s) # {}
  BY <1>7 DEF CwdsOf, InCwd
<1> QED BY <1>1, <1>3, <1>4, <1>5, <1>6, <1>7

\* namex() has taken a reference of h, none of an entry if that is 0, and p is
\* about to look for the first name of its path.
Walks(p, icc, h, par, x) ==
    /\ h \in Slots0 /\ IcSet(ic') /\ One(ic')
    /\ \A u \in Slots : ic'[u].ref = icc[u].ref + Is(u, h) /\ ic'[u].lock = icc[u].lock
    /\ Goto(p, "walk") /\ DOMAIN loc' = Procs /\ \A q \in Procs \ {p} : loc'[q] = loc[q]
    /\ LocRec(loc'[p]) /\ loc'[p].cur = h /\ loc'[p].ip = x /\ loc'[p].dp = 0
    /\ loc'[p].put = 0 /\ loc'[p].then = "" /\ loc'[p].par = par

\* namex() takes its first reference: of the root, or of the working directory.
LEMMA StartWalkIs ==
  ASSUME IInv, NEW p \in Procs, loc[p].then \notin Ends, NEW icc, IcSet(icc), One(icc),
         \A u \in Slots : icc[u].ref = ic[u].ref,
         NEW path, NEW par, NEW x \in Slots0, StartWalk(p, icc, path, par, x)
  PROVE  \E h : Walks(p, icc, h, par, x)
<1>1. PICK w : w = proc[p].cwd
  OBVIOUS
<1>2. w \in Slots0 /\ (w \in Slots => icc[w].ref > 0)
  <2>1. w \in Slots0
    BY <1>1, Typed DEF ProcRec
  <2>2. ASSUME w \in Slots PROVE ic[w].ref > 0
    <3>1. InCwd(proc[p], loc[p], w) # 0
      BY <1>1 DEF InCwd
    <3> QED BY <2>2, <3>1, Users
  <2> QED BY <2>1, <2>2
<1>3. PICK g : g = IF Absolute(path) THEN Iget(icc, ROOTINO) ELSE <<Idup(icc, w), w>>
  OBVIOUS
<1>4. /\ IcSet(g[1]) /\ One(g[1]) /\ g[2] \in Slots0
      /\ \A u \in Slots : g[1][u].ref = icc[u].ref + Is(u, g[2]) /\ g[1][u].lock = icc[u].lock
  <2>1. CASE Absolute(path)
    BY <1>3, <2>1, IgetIs
  <2>2. CASE ~Absolute(path)
    <3>1. g[1] = Idup(icc, w) /\ g[2] = w
      BY <1>3, <2>2
    <3> QED BY <1>2, <3>1, IdupIs
  <2> QED BY <2>1, <2>2
<1>5. PICK h : h = g[2]
  OBVIOUS
<1> DEFINE r == [NoLoc EXCEPT !.cur = h, !.path = Names(path), !.par = par, !.ip = x]
<1>6. ic' = g[1] /\ loc' = [loc EXCEPT ![p] = r] /\ Goto(p, "walk")
  BY <1>1, <1>3, <1>5 DEF StartWalk, Idup
<1>7. /\ LocRec(r) /\ r.cur = h /\ r.ip = x /\ r.dp = 0 /\ r.put = 0 /\ r.then = "" /\ r.par = par
  BY <1>4, <1>5, NoLocIs, ZeroSlot DEF LocRec, LocFields, NoLoc
<1> HIDE DEF r
<1>8. loc'[p] = r /\ DOMAIN loc' = Procs /\ \A q \in Procs \ {p} : loc'[q] = loc[q]
  BY <1>6, Typed
<1>9. Walks(p, icc, h, par, x)
  BY <1>4, <1>5, <1>6, <1>7, <1>8 DEF Walks
<1> QED BY <1>9

\* A call with a path enters namex().
LEMMA StepBeginPath ==
  ASSUME IInv, NEW p \in Procs, BeginPath(p)
  PROVE  IInv'
<1>1. /\ pc[p] = "user" /\ c(p).op \in PathOps /\ proc[p].state = "used"
      /\ StartWalk(p, ic, c(p).path, ToParent(p), 0) /\ UNCHANGED <<ft, proc>>
  BY DEF BeginPath, User, At
<1>2. /\ loc[p].cur = 0 /\ loc[p].ip = 0 /\ loc[p].dp = 0 /\ loc[p].put = 0
      /\ loc[p].then \notin Ends /\ \A u \in Slots : ic[u].lock # p
  BY <1>1, AtIs, Typed DEF Fits, KeptAt, IpAt, DpAt, Iputs, Ends, LocRec
<1>3. PICK h : Walks(p, ic, h, ToParent(p), 0)
  BY <1>1, <1>2, StartWalkIs, Typed, ZeroSlot
<1>4. PICK r : r = loc'[p]
  OBVIOUS
<1>5. Fits("walk", r, c(p).op)
  BY <1>1, <1>3, <1>4 DEF Walks, Fits, IpAt, DpAt, ToParent, PathOps
<1>6. \A u \in Slots : Held(loc[p], u) + Is(u, h) = Held(r, u)
  <2>1. r.cur = h /\ r.ip = 0 /\ r.dp = 0 /\ r.put = 0
    BY <1>3, <1>4 DEF Walks
  <2> QED BY <1>2, <2>1, NotZero DEF Held, Is
<1>7. /\ \A u \in Slots : ic'[u].lock = p <=> u \in KeptAt("walk", r)
      /\ OthersLocks(p)
  BY <1>2, <1>3 DEF Walks, KeptAt, OthersLocks
<1>8. Goes(p, h, "walk", r)
  BY <1>1, <1>2, <1>3, <1>4, <1>5, <1>6, <1>7 DEF Walks, Goes, InCall, Elsewhere, Iputs, Ends
<1> QED BY <1>8, GoStep

\* link() counts a name more of the old inode, and looks for the new parent.
LEMMA StepLinkOld ==
  ASSUME IInv, NEW p \in Procs, LinkOld(p)
  PROVE  IInv'
<1>1. PICK s, d : s = loc[p].ip /\ d = Loaded(loc[p].ip)
  OBVIOUS
<1>2. pc[p] = "linkold" /\ UNCHANGED <<ft, proc>> /\ ic[s].lock = 0
  BY <1>1, Zenon DEF LinkOld, At, Ilock, Wanted, UNCH_call
<1>3. /\ loc[p].cur = 0 /\ loc[p].ip = s /\ loc[p].dp = 0 /\ loc[p].put = 0
      /\ loc[p].then \notin Ends /\ proc[p].state = "used" /\ LocRec(loc[p])
      /\ s \in Slots0 /\ c(p).op = "link"
      /\ \A u \in Slots : ic[u].lock # p
  BY <1>1, <1>2, AtIs, Typed DEF Fits, KeptAt, IpAt, DpAt, Iputs, Ends, LocRec
<1>4. \/ ic' = Entry(ic, s, d, 0) /\ PutThen(p, s, "fail", NoLoc)
      \/ \E e : StartWalk(p, Entry(ic, s, e, 0), c(p).path2, TRUE, s)
  BY <1>1, Zenon DEF LinkOld, UnlockPut
<1>5. ASSUME ic' = Entry(ic, s, d, 0), PutThen(p, s, "fail", NoLoc)
      PROVE  IInv'
  <2>1. /\ IcSet(ic') /\ One(ic')
        /\ \A u \in Slots : /\ ic'[u].ref = ic[u].ref + Is(u, 0)
                            /\ ic'[u].lock = IF u = s THEN 0 ELSE ic[u].lock
    BY <1>5, EntryIs, IsNat, RefNat, Typed
  <2>2. PICK r : r = NoLoc
    OBVIOUS
  <2>3. /\ LocRec(r) /\ r.cur = 0 /\ r.ip = 0 /\ r.dp = 0
    BY <2>2, NoLocIs
  <2>4. Fits("fail", r, c(p).op) /\ "fail" \notin Elsewhere \cup Iputs
    BY <1>3, <1>5, <2>3 DEF Fits, IpAt, DpAt, Idle, Elsewhere, Iputs, Ends
  <2>5. \A u \in Slots : Held(loc[p], u) + Is(u, 0)
          = Is(r.cur, u) + Is(r.ip, u) + Is(r.dp, u) + Is(s, u)
    BY <1>3, <1>5, <2>3, NotZero DEF Held, Is
  <2>6. \A u \in Slots : ic'[u].lock = p <=> u \in KeptAt("fail", r)
    BY <1>2, <1>3, <1>5, <2>1, <2>3, NotZero DEF KeptAt
  <2>7. OthersLocks(p)
    BY <1>2, <1>3, <2>1, NotZero DEF OthersLocks
  <2>8. Puts(p, 0, s, "fail", r)
    BY <1>2, <1>3, <1>5, <2>1, <2>2, <2>3, <2>4, <2>5, <2>6, <2>7 DEF Puts, InCall
  <2> QED BY <2>8, PutStep
<1>6. ASSUME NEW e, StartWalk(p, Entry(ic, s, e, 0), c(p).path2, TRUE, s)
      PROVE  IInv'
  <2>1. PICK n : /\ n = Entry(ic, s, e, 0) /\ IcSet(n) /\ One(n)
                 /\ \A u \in Slots : /\ n[u].ref = ic[u].ref
                                     /\ n[u].lock = IF u = s THEN 0 ELSE ic[u].lock
    BY EntryIs, Typed
  <2>2. PICK h : Walks(p, n, h, TRUE, s)
    <3>1. StartWalk(p, n, c(p).path2, TRUE, s)
      BY <1>6, <2>1
    <3> QED BY <1>3, <2>1, <3>1, StartWalkIs
  <2>3. PICK r : r = loc'[p]
    OBVIOUS
  <2>4. Fits("walk", r, c(p).op)
    BY <1>3, <2>2, <2>3 DEF Walks, Fits, IpAt, DpAt
  <2>5. \A u \in Slots : Held(loc[p], u) + Is(u, h) = Held(r, u)
    <3>1. r.cur = h /\ r.ip = s /\ r.dp = 0 /\ r.put = 0
      BY <2>2, <2>3 DEF Walks
    <3> QED BY <1>3, <3>1, NotZero DEF Held, Is
  <2>6. /\ \A u \in Slots : ic'[u].lock = p <=> u \in KeptAt("walk", r)
        /\ OthersLocks(p)
    <3>1. \A u \in Slots : ic'[u].lock = n[u].lock
      BY <2>2 DEF Walks
    <3>2. \A u \in Slots : ic'[u].lock = IF u = s THEN 0 ELSE ic[u].lock
      BY <2>1, <3>1
    <3>3. KeptAt("walk", r) = {}
      BY DEF KeptAt
    <3> QED BY <1>2, <1>3, <3>2, <3>3, NotZero DEF OthersLocks
  <2>7. \A u \in Slots : ic'[u].ref = ic[u].ref + Is(u, h)
    BY <2>1, <2>2 DEF Walks
  <2>8. Goes(p, h, "walk", r)
    BY <1>2, <1>3, <2>2, <2>3, <2>4, <2>5, <2>6, <2>7
       DEF Walks, Goes, InCall, Elsewhere, Iputs, Ends
  <2> QED BY <2>8, GoStep
<1> QED BY <1>4, <1>5, <1>6

\* namex() at the end of its path.
LEMMA StepWalkEnd ==
  ASSUME IInv, NEW p \in Procs, WalkEnd(p)
  PROVE  IInv'
<1>1. PICK s, x : s = loc[p].cur /\ x = loc[p].ip
  OBVIOUS
<1>2. pc[p] = "walk" /\ UNCHANGED <<ft, proc, ic>>
  BY <1>1, Zenon DEF WalkEnd, At, UNCH_walk
<1>3. /\ loc[p].cur = s /\ loc[p].ip = x /\ loc[p].dp = 0 /\ loc[p].put = 0
      /\ loc[p].then \notin Ends /\ proc[p].state = "used" /\ LocRec(loc[p])
      /\ s \in Slots0 /\ x \in Slots0
      /\ c(p).op \in IF loc[p].par THEN {"open", "mkdir", "mknod", "unlink", "link"}
                     ELSE {"open", "link", "chdir", "exec"}
      /\ x # 0 => c(p).op = "link" /\ loc[p].par
      /\ \A u \in Slots : ic[u].lock # p
  BY <1>1, <1>2, AtIs, Typed DEF Fits, KeptAt, IpAt, DpAt, Iputs, Ends, LocRec
<1>4. \/ /\ c(p).op = "link" /\ PutThen(p, s, "linkbad", [loc[p] EXCEPT !.cur = 0])
      \/ /\ x = 0 /\ PutThen(p, s, "fail", [loc[p] EXCEPT !.cur = 0])
      \/ \E l \in {"open", "linkold", "chdir", "exec"} :
            /\ x = 0 /\ (l = "linkold" => c(p).op = "link")
            /\ loc' = [loc EXCEPT ![p].cur = 0, ![p].ip = s] /\ Goto(p, l)
  BY <1>1, <1>3 DEF WalkEnd, Found, Missing
<1>5. ASSUME c(p).op = "link", PutThen(p, s, "linkbad", [loc[p] EXCEPT !.cur = 0])
      PROVE  IInv'
  <2>1. /\ IcSet(ic') /\ One(ic')
        /\ \A u \in Slots : /\ ic'[u].ref = ic[u].ref + Is(u, 0)
                            /\ ic'[u].lock = ic[u].lock
    BY <1>2, IsNat, RefNat, Typed
  <2>2. PICK r : r = [loc[p] EXCEPT !.cur = 0]
    OBVIOUS
  <2>3. /\ LocRec(r) /\ r.cur = 0 /\ r.ip = x /\ r.dp = 0
    BY <2>2, <1>3, ZeroSlot DEF LocRec, LocFields
  <2>4. Fits("linkbad", r, c(p).op) /\ "linkbad" \notin Elsewhere \cup Iputs
    BY <1>3, <1>5, <2>3 DEF Fits, IpAt, DpAt, Idle, Elsewhere, Iputs, Ends
  <2>5. \A u \in Slots : Held(loc[p], u) + Is(u, 0)
          = Is(r.cur, u) + Is(r.ip, u) + Is(r.dp, u) + Is(s, u)
    BY <1>3, <1>5, <2>3, NotZero DEF Held, Is
  <2>6. \A u \in Slots : ic'[u].lock = p <=> u \in KeptAt("linkbad", r)
    BY <1>2, <1>3, <1>5, <2>1, <2>3, NotZero DEF KeptAt
  <2>7. OthersLocks(p)
    BY <1>2, <1>3, <2>1, NotZero DEF OthersLocks
  <2>8. Puts(p, 0, s, "linkbad", r)
    BY <1>2, <1>3, <1>5, <2>1, <2>2, <2>3, <2>4, <2>5, <2>6, <2>7 DEF Puts, InCall
  <2> QED BY <2>8, PutStep
<1>6. ASSUME x = 0, PutThen(p, s, "fail", [loc[p] EXCEPT !.cur = 0])
      PROVE  IInv'
  <2>1. /\ IcSet(ic') /\ One(ic')
        /\ \A u \in Slots : /\ ic'[u].ref = ic[u].ref + Is(u, 0)
                            /\ ic'[u].lock = ic[u].lock
    BY <1>2, IsNat, RefNat, Typed
  <2>2. PICK r : r = [loc[p] EXCEPT !.cur = 0]
    OBVIOUS
  <2>3. /\ LocRec(r) /\ r.cur = 0 /\ r.ip = x /\ r.dp = 0
    BY <2>2, <1>3, ZeroSlot DEF LocRec, LocFields
  <2>4. Fits("fail", r, c(p).op) /\ "fail" \notin Elsewhere \cup Iputs
    BY <1>3, <1>6, <2>3 DEF Fits, IpAt, DpAt, Idle, Elsewhere, Iputs, Ends
  <2>5. \A u \in Slots : Held(loc[p], u) + Is(u, 0)
          = Is(r.cur, u) + Is(r.ip, u) + Is(r.dp, u) + Is(s, u)
    BY <1>3, <1>6, <2>3, NotZero DEF Held, Is
  <2>6. \A u \in Slots : ic'[u].lock = p <=> u \in KeptAt("fail", r)
    BY <1>2, <1>3, <1>6, <2>1, <2>3, NotZero DEF KeptAt
  <2>7. OthersLocks(p)
    BY <1>2, <1>3, <2>1, NotZero DEF OthersLocks
  <2>8. Puts(p, 0, s, "fail", r)
    BY <1>2, <1>3, <1>6, <2>1, <2>2, <2>3, <2>4, <2>5, <2>6, <2>7 DEF Puts, InCall
  <2> QED BY <2>8, PutStep
<1>7. ASSUME NEW l \in {"open", "linkold", "chdir", "exec"}, x = 0, l = "linkold" => c(p).op = "link",
             loc' = [loc EXCEPT ![p].cur = 0, ![p].ip = s], Goto(p, l)
      PROVE  IInv'
  <2>1. /\ IcSet(ic') /\ One(ic')
        /\ \A u \in Slots : /\ ic'[u].ref = ic[u].ref + Is(u, 0)
                            /\ ic'[u].lock = ic[u].lock
    BY <1>2, IsNat, RefNat, Typed
  <2>2. PICK r : r = loc'[p]
    OBVIOUS
  <2>3. /\ LocRec(r) /\ r.cur = 0 /\ r.ip = s /\ r.dp = 0
        /\ r.put = 0 /\ r.then \notin Ends /\ DOMAIN loc' = Procs
        /\ \A q \in Procs \ {p} : loc'[q] = loc[q]
    BY <2>2, <1>3, <1>7, Typed, ZeroSlot DEF LocRec, LocFields, Ends
  <2>4. Fits(l, r, c(p).op) /\ l \notin Elsewhere \cup Iputs
    BY <1>3, <1>7, <2>3 DEF Fits, IpAt, DpAt, Idle, Elsewhere, Iputs, Ends
  <2>5. \A u \in Slots : Held(loc[p], u) + Is(u, 0) = Held(r, u)
    BY <1>3, <1>7, <2>3, NotZero DEF Held, Is
  <2>6. \A u \in Slots : ic'[u].lock = p <=> u \in KeptAt(l, r)
    BY <1>2, <1>3, <1>7, <2>1, <2>3, NotZero DEF KeptAt
  <2>7. OthersLocks(p)
    BY <1>2, <1>3, <2>1, NotZero DEF OthersLocks
  <2>8. Goes(p, 0, l, r)
    BY <1>2, <1>3, <1>7, <2>1, <2>2, <2>3, <2>4, <2>5, <2>6, <2>7 DEF Goes, InCall
  <2> QED BY <2>8, GoStep
<1> QED BY <1>4, <1>5, <1>6, <1>7

\* namex(): one element, the reference of the directory for that of the entry.
LEMMA StepWalkElem ==
  ASSUME IInv, NEW p \in Procs, WalkElem(p)
  PROVE  IInv'
<1>1. PICK s, x, d, n : s = loc[p].cur /\ x = loc[p].ip /\ d = Loaded(loc[p].cur)
                    /\ n = Head(loc[p].path)
  OBVIOUS
<1>2. pc[p] = "walk" /\ UNCHANGED <<ft, proc>> /\ ic[s].lock = 0
  BY <1>1, Zenon DEF WalkElem, At, Ilock, Wanted, UNCH_walk
<1>3. /\ loc[p].cur = s /\ loc[p].ip = x /\ loc[p].dp = 0 /\ loc[p].put = 0
      /\ loc[p].then \notin Ends /\ proc[p].state = "used" /\ LocRec(loc[p])
      /\ s \in Slots0 /\ x \in Slots0
      /\ c(p).op \in IF loc[p].par THEN {"open", "mkdir", "mknod", "unlink", "link"}
                     ELSE {"open", "link", "chdir", "exec"}
      /\ x # 0 => c(p).op = "link" /\ loc[p].par
      /\ \A u \in Slots : ic[u].lock # p
  BY <1>1, <1>2, AtIs, Typed DEF Fits, KeptAt, IpAt, DpAt, Iputs, Ends, LocRec
<1>4. \/ \E l \in {"fail", "linkbad"} :
            /\ l = "fail" => x = 0
            /\ ic' = Entry(ic, s, d, 0) /\ PutThen(p, s, l, [loc[p] EXCEPT !.cur = 0])
      \/ \E l \in {"linknew", "create", "unlink"} :
            /\ l # "linknew" => x = 0
            /\ ic' = Entry(ic, s, d, 0) /\ Goto(p, l)
            /\ loc' = [loc EXCEPT ![p].cur = 0, ![p].dp = s, ![p].name = n]
      \/ \E i, g : /\ g = Iget(Entry(ic, s, d, 0), i) /\ ic' = g[1]
                   /\ PutThen(p, s, "walk", [loc[p] EXCEPT !.cur = g[2], !.path = Tail(@)])
  <2>1. \/ ic' = Entry(ic, s, d, 0) /\ PutThen(p, s, Missing(p), [loc[p] EXCEPT !.cur = 0])
        \/ /\ loc[p].par /\ ic' = Entry(ic, s, d, 0) /\ Goto(p, Found(p))
           /\ loc' = [loc EXCEPT ![p].cur = 0, ![p].dp = s, ![p].name = n]
        \/ \E i, g : /\ g = Iget(Entry(ic, s, d, 0), i) /\ ic' = g[1]
                     /\ PutThen(p, s, "walk", [loc[p] EXCEPT !.cur = g[2], !.path = Tail(@)])
    BY <1>1, Zenon DEF WalkElem
  <2>2. Missing(p) \in {"fail", "linkbad"} /\ (Missing(p) = "fail" => x = 0)
    BY <1>3 DEF Missing
  <2>3. loc[p].par => /\ Found(p) \in {"linknew", "create", "unlink"}
                      /\ Found(p) # "linknew" => x = 0
    <3> SUFFICES ASSUME loc[p].par
                 PROVE  /\ Found(p) \in {"linknew", "create", "unlink"}
                        /\ Found(p) # "linknew" => x = 0
      OBVIOUS
    <3>1. c(p).op \in {"open", "mkdir", "mknod", "unlink", "link"} /\ (x # 0 => c(p).op = "link")
      BY <1>3
    <3>2. /\ c(p).op = "link" => Found(p) = "linknew"
          /\ c(p).op = "unlink" => Found(p) = "unlink"
          /\ c(p).op \in {"open", "mkdir", "mknod"} => Found(p) = "create"
      BY DEF Found
    <3> QED BY <3>1, <3>2
  <2> QED BY <2>1, <2>2, <2>3, Zenon
<1>5. ASSUME NEW l \in {"fail", "linkbad"}, l = "fail" => x = 0,
             ic' = Entry(ic, s, d, 0), PutThen(p, s, l, [loc[p] EXCEPT !.cur = 0])
      PROVE  IInv'
  <2>1. /\ IcSet(ic') /\ One(ic')
        /\ \A u \in Slots : /\ ic'[u].ref = ic[u].ref + Is(u, 0)
                            /\ ic'[u].lock = IF u = s THEN 0 ELSE ic[u].lock
    BY <1>5, EntryIs, IsNat, RefNat, Typed
  <2>2. PICK r : r = [loc[p] EXCEPT !.cur = 0]
    OBVIOUS
  <2>3. /\ LocRec(r) /\ r.cur = 0 /\ r.ip = x /\ r.dp = 0
    BY <2>2, <1>3, ZeroSlot DEF LocRec, LocFields
  <2>4. Fits(l, r, c(p).op) /\ l \notin Elsewhere \cup Iputs
    BY <1>3, <1>5, <2>3 DEF Fits, IpAt, DpAt, Idle, Elsewhere, Iputs, Ends
  <2>5. \A u \in Slots : Held(loc[p], u) + Is(u, 0)
          = Is(r.cur, u) + Is(r.ip, u) + Is(r.dp, u) + Is(s, u)
    BY <1>3, <1>5, <2>3, NotZero DEF Held, Is
  <2>6. \A u \in Slots : ic'[u].lock = p <=> u \in KeptAt(l, r)
    BY <1>2, <1>3, <1>5, <2>1, <2>3, NotZero DEF KeptAt
  <2>7. OthersLocks(p)
    BY <1>2, <1>3, <2>1, NotZero DEF OthersLocks
  <2>8. Puts(p, 0, s, l, r)
    BY <1>2, <1>3, <1>5, <2>1, <2>2, <2>3, <2>4, <2>5, <2>6, <2>7 DEF Puts, InCall
  <2> QED BY <2>8, PutStep
<1>6. ASSUME NEW l \in {"linknew", "create", "unlink"}, l # "linknew" => x = 0,
             ic' = Entry(ic, s, d, 0), Goto(p, l),
             loc' = [loc EXCEPT ![p].cur = 0, ![p].dp = s, ![p].name = n]
      PROVE  IInv'
  <2>1. /\ IcSet(ic') /\ One(ic')
        /\ \A u \in Slots : /\ ic'[u].ref = ic[u].ref + Is(u, 0)
                            /\ ic'[u].lock = IF u = s THEN 0 ELSE ic[u].lock
    BY <1>6, EntryIs, IsNat, RefNat, Typed
  <2>2. PICK r : r = loc'[p]
    OBVIOUS
  <2>3. /\ LocRec(r) /\ r.cur = 0 /\ r.ip = x /\ r.dp = s
        /\ r.put = 0 /\ r.then \notin Ends /\ DOMAIN loc' = Procs
        /\ \A q \in Procs \ {p} : loc'[q] = loc[q]
    BY <2>2, <1>3, <1>6, Typed, ZeroSlot DEF LocRec, LocFields, Ends
  <2>4. Fits(l, r, c(p).op) /\ l \notin Elsewhere \cup Iputs
    BY <1>3, <1>6, <2>3 DEF Fits, IpAt, DpAt, Idle, Elsewhere, Iputs, Ends
  <2>5. \A u \in Slots : Held(loc[p], u) + Is(u, 0) = Held(r, u)
    BY <1>3, <1>6, <2>3, NotZero DEF Held, Is
  <2>6. \A u \in Slots : ic'[u].lock = p <=> u \in KeptAt(l, r)
    BY <1>2, <1>3, <1>6, <2>1, <2>3, NotZero DEF KeptAt
  <2>7. OthersLocks(p)
    BY <1>2, <1>3, <2>1, NotZero DEF OthersLocks
  <2>8. Goes(p, 0, l, r)
    BY <1>2, <1>3, <1>6, <2>1, <2>2, <2>3, <2>4, <2>5, <2>6, <2>7 DEF Goes, InCall
  <2> QED BY <2>8, GoStep
<1>7. ASSUME NEW i, NEW g, g = Iget(Entry(ic, s, d, 0), i), ic' = g[1],
             PutThen(p, s, "walk", [loc[p] EXCEPT !.cur = g[2], !.path = Tail(@)])
      PROVE  IInv'
  <2>1. PICK h : h = g[2] /\ h \in Slots0 /\ IcSet(g[1]) /\ One(g[1])
                 /\ \A u \in Slots : /\ g[1][u].ref = ic[u].ref + Is(u, h)
                                     /\ g[1][u].lock = IF u = s THEN 0 ELSE ic[u].lock
    BY <1>7, EntryIs, IgetIs, Typed
  <2>2. /\ IcSet(ic') /\ One(ic')
        /\ \A u \in Slots : /\ ic'[u].ref = ic[u].ref + Is(u, h)
                            /\ ic'[u].lock = IF u = s THEN 0 ELSE ic[u].lock
    BY <2>1, <1>7, IgetIs, IsNat, RefNat, Typed
  <2>3. PICK r : r = [loc[p] EXCEPT !.cur = g[2], !.path = Tail(@)]
    OBVIOUS
  <2>4. /\ LocRec(r) /\ r.cur = h /\ r.ip = x /\ r.dp = 0 /\ r.par = loc[p].par
    BY <2>1, <2>3, <1>3, ZeroSlot DEF LocRec, LocFields
  <2>5. Fits("walk", r, c(p).op) /\ "walk" \notin Elsewhere \cup Iputs
    BY <1>3, <1>7, <2>4 DEF Fits, IpAt, DpAt, Idle, Elsewhere, Iputs, Ends
  <2>6. \A u \in Slots : Held(loc[p], u) + Is(u, h)
          = Is(r.cur, u) + Is(r.ip, u) + Is(r.dp, u) + Is(s, u)
    BY <1>3, <1>7, <2>4, NotZero DEF Held, Is
  <2>7. \A u \in Slots : ic'[u].lock = p <=> u \in KeptAt("walk", r)
    BY <1>2, <1>3, <1>7, <2>2, <2>4, NotZero DEF KeptAt
  <2>8. OthersLocks(p)
    BY <1>2, <1>3, <2>2, NotZero DEF OthersLocks
  <2>9. Puts(p, h, s, "walk", r)
    BY <2>1, <1>2, <1>3, <1>7, <2>2, <2>3, <2>4, <2>5, <2>6, <2>7, <2>8 DEF Puts, InCall
  <2> QED BY <2>9, PutStep
<1> QED BY <1>4, <1>5, <1>6, <1>7

\* create(): the inode of the name that is there, or a new one, the directory locked.
LEMMA StepCreate ==
  ASSUME IInv, NEW p \in Procs, Create(p)
  PROVE  IInv'
<1>1. PICK s, d : s = loc[p].dp /\ d = Loaded(loc[p].dp)
  OBVIOUS
<1>2. pc[p] = "create" /\ UNCHANGED <<ft, proc>> /\ ic[s].lock = 0
  BY <1>1, Zenon DEF Create, At, Ilock, Wanted, UNCH_call
<1>3. /\ loc[p].cur = 0 /\ loc[p].ip = 0 /\ loc[p].dp = s /\ loc[p].put = 0
      /\ loc[p].then \notin Ends /\ proc[p].state = "used" /\ LocRec(loc[p])
      /\ s \in Slots0
      /\ \A u \in Slots : ic[u].lock # p
  BY <1>1, <1>2, AtIs, Typed DEF Fits, KeptAt, IpAt, DpAt, Iputs, Ends, LocRec
<1>4. \/ \E i, g : /\ g = Iget(Entry(ic, s, d, 0), i) /\ ic' = g[1]
                  /\ PutThen(p, s, "exists", [loc[p] EXCEPT !.dp = 0, !.ip = g[2]])
      \/ \E i, g : /\ g = Iget(Entry(ic, s, d, p), i) /\ ic' = g[1]
                  /\ loc' = [loc EXCEPT ![p].ip = g[2]] /\ Goto(p, "fill")
  BY <1>1, Zenon DEF Create, UnlockPut
<1>5. ASSUME NEW i, NEW g, g = Iget(Entry(ic, s, d, 0), i), ic' = g[1],
             PutThen(p, s, "exists", [loc[p] EXCEPT !.dp = 0, !.ip = g[2]])
      PROVE  IInv'
  <2>1. PICK h : /\ h = g[2] /\ h \in Slots0 /\ IcSet(g[1]) /\ One(g[1])
                 /\ \A u \in Slots : /\ g[1][u].ref = ic[u].ref + Is(u, h)
                                     /\ g[1][u].lock = IF u = s THEN 0 ELSE ic[u].lock
    BY <1>5, EntryIs, IgetIs, Typed
  <2>2. /\ IcSet(ic') /\ One(ic')
        /\ \A u \in Slots : /\ ic'[u].ref = ic[u].ref + Is(u, h)
                            /\ ic'[u].lock = IF u = s THEN 0 ELSE ic[u].lock
    BY <2>1, <1>5, IgetIs, IsNat, RefNat, Typed
  <2>3. PICK r : r = [loc[p] EXCEPT !.dp = 0, !.ip = g[2]]
    OBVIOUS
  <2>4. /\ LocRec(r) /\ r.cur = 0 /\ r.ip = h /\ r.dp = 0
    BY <2>1, <2>3, <1>3, ZeroSlot DEF LocRec, LocFields
  <2>5. Fits("exists", r, c(p).op) /\ "exists" \notin Elsewhere \cup Iputs
    BY <1>3, <1>5, <2>4 DEF Fits, IpAt, DpAt, Idle, Elsewhere, Iputs, Ends
  <2>6. \A u \in Slots : Held(loc[p], u) + Is(u, h)
          = Is(r.cur, u) + Is(r.ip, u) + Is(r.dp, u) + Is(s, u)
    BY <1>3, <1>5, <2>4, NotZero DEF Held, Is
  <2>7. \A u \in Slots : ic'[u].lock = p <=> u \in KeptAt("exists", r)
    BY <1>2, <1>3, <1>5, <2>2, <2>4, NotZero DEF KeptAt
  <2>8. OthersLocks(p)
    BY <1>2, <1>3, <2>2, NotZero DEF OthersLocks
  <2>9. Puts(p, h, s, "exists", r)
    BY <2>1, <1>2, <1>3, <1>5, <2>2, <2>3, <2>4, <2>5, <2>6, <2>7, <2>8 DEF Puts, InCall
  <2> QED BY <2>9, PutStep
<1>6. ASSUME NEW i, NEW g, g = Iget(Entry(ic, s, d, p), i), ic' = g[1],
             loc' = [loc EXCEPT ![p].ip = g[2]], Goto(p, "fill")
      PROVE  IInv'
  <2>1. PICK h : /\ h = g[2] /\ h \in Slots0 /\ IcSet(g[1]) /\ One(g[1])
                 /\ \A u \in Slots : /\ g[1][u].ref = ic[u].ref + Is(u, h)
                                     /\ g[1][u].lock = IF u = s THEN p ELSE ic[u].lock
    BY <1>6, EntryIs, IgetIs, Typed
  <2>2. /\ IcSet(ic') /\ One(ic')
        /\ \A u \in Slots : /\ ic'[u].ref = ic[u].ref + Is(u, h)
                            /\ ic'[u].lock = IF u = s THEN p ELSE ic[u].lock
    BY <2>1, <1>6, IgetIs, IsNat, RefNat, Typed
  <2>3. PICK r : r = loc'[p]
    OBVIOUS
  <2>4. /\ LocRec(r) /\ r.cur = 0 /\ r.ip = h /\ r.dp = s
        /\ r.put = 0 /\ r.then \notin Ends /\ DOMAIN loc' = Procs
        /\ \A q \in Procs \ {p} : loc'[q] = loc[q]
    BY <2>1, <2>3, <1>3, <1>6, Typed, ZeroSlot DEF LocRec, LocFields, Ends
  <2>5. Fits("fill", r, c(p).op) /\ "fill" \notin Elsewhere \cup Iputs
    BY <1>3, <1>6, <2>4 DEF Fits, IpAt, DpAt, Idle, Elsewhere, Iputs, Ends
  <2>6. \A u \in Slots : Held(loc[p], u) + Is(u, h) = Held(r, u)
    BY <1>3, <1>6, <2>4, NotZero DEF Held, Is
  <2>7. \A u \in Slots : ic'[u].lock = p <=> u \in KeptAt("fill", r)
    BY <1>2, <1>3, <1>6, <2>2, <2>4, NotZero DEF KeptAt
  <2>8. OthersLocks(p)
    BY <1>2, <1>3, <2>2, NotZero DEF OthersLocks
  <2>9. Goes(p, h, "fill", r)
    BY <2>1, <1>2, <1>3, <1>6, <2>2, <2>3, <2>4, <2>5, <2>6, <2>7, <2>8 DEF Goes, InCall
  <2> QED BY <2>9, GoStep
<1> QED BY <1>4, <1>5, <1>6

\* link() in the directory: dirlink() takes and drops a reference of its own.
LEMMA StepLinkNew ==
  ASSUME IInv, NEW p \in Procs, LinkNew(p)
  PROVE  IInv'
<1>1. PICK s, t, d : s = loc[p].ip /\ t = loc[p].dp /\ d = Loaded(loc[p].dp)
  OBVIOUS
<1>2. pc[p] = "linknew" /\ UNCHANGED <<ft, proc>> /\ ic[t].lock = 0
  BY <1>1, Zenon DEF LinkNew, At, Ilock, Wanted, UNCH_call
<1>3. /\ loc[p].cur = 0 /\ loc[p].ip = s /\ loc[p].dp = t /\ loc[p].put = 0
      /\ loc[p].then \notin Ends /\ proc[p].state = "used" /\ LocRec(loc[p])
      /\ s \in Slots0 /\ t \in Slots0
      /\ \A u \in Slots : ic[u].lock # p
  BY <1>1, <1>2, AtIs, Typed DEF Fits, KeptAt, IpAt, DpAt, Iputs, Ends, LocRec
<1>4. \/ \E i, g : /\ g = Iget(Entry(ic, t, d, p), i) /\ ic' = g[1]
                  /\ PutThen(p, g[2], "linkdup", loc[p])
      \/ \E e : /\ ic' = Entry(ic, t, e, 0)
               /\ PutThen(p, t, "linkput", [loc[p] EXCEPT !.dp = 0])
  BY <1>1, Zenon DEF LinkNew, UnlockPut
<1>5. ASSUME NEW i, NEW g, g = Iget(Entry(ic, t, d, p), i), ic' = g[1],
             PutThen(p, g[2], "linkdup", loc[p])
      PROVE  IInv'
  <2>1. PICK h : /\ h = g[2] /\ h \in Slots0 /\ IcSet(g[1]) /\ One(g[1])
                 /\ \A u \in Slots : /\ g[1][u].ref = ic[u].ref + Is(u, h)
                                     /\ g[1][u].lock = IF u = t THEN p ELSE ic[u].lock
    BY <1>5, EntryIs, IgetIs, Typed
  <2>2. /\ IcSet(ic') /\ One(ic')
        /\ \A u \in Slots : /\ ic'[u].ref = ic[u].ref + Is(u, h)
                            /\ ic'[u].lock = IF u = t THEN p ELSE ic[u].lock
    BY <2>1, <1>5, IgetIs, IsNat, RefNat, Typed
  <2>3. PICK r : r = loc[p]
    OBVIOUS
  <2>4. /\ LocRec(r) /\ r.cur = 0 /\ r.ip = s /\ r.dp = t
    BY <2>3, <1>3
  <2>5. Fits("linkdup", r, c(p).op) /\ "linkdup" \notin Elsewhere \cup Iputs
    BY <1>3, <1>5, <2>4 DEF Fits, IpAt, DpAt, Idle, Elsewhere, Iputs, Ends
  <2>6. \A u \in Slots : Held(loc[p], u) + Is(u, h)
          = Is(r.cur, u) + Is(r.ip, u) + Is(r.dp, u) + Is(h, u)
    BY <1>3, <1>5, <2>4, NotZero DEF Held, Is
  <2>7. \A u \in Slots : ic'[u].lock = p <=> u \in KeptAt("linkdup", r)
    BY <1>2, <1>3, <1>5, <2>2, <2>4, NotZero DEF KeptAt
  <2>8. OthersLocks(p)
    BY <1>2, <1>3, <2>2, NotZero DEF OthersLocks
  <2>9. Puts(p, h, h, "linkdup", r)
    BY <2>1, <1>2, <1>3, <1>5, <2>2, <2>3, <2>4, <2>5, <2>6, <2>7, <2>8 DEF Puts, InCall
  <2> QED BY <2>9, PutStep
<1>6. ASSUME NEW e, ic' = Entry(ic, t, e, 0), PutThen(p, t, "linkput", [loc[p] EXCEPT !.dp = 0])
      PROVE  IInv'
  <2>1. /\ IcSet(ic') /\ One(ic')
        /\ \A u \in Slots : /\ ic'[u].ref = ic[u].ref + Is(u, 0)
                            /\ ic'[u].lock = IF u = t THEN 0 ELSE ic[u].lock
    BY <1>6, EntryIs, IsNat, RefNat, Typed
  <2>2. PICK r : r = [loc[p] EXCEPT !.dp = 0]
    OBVIOUS
  <2>3. /\ LocRec(r) /\ r.cur = 0 /\ r.ip = s /\ r.dp = 0
    BY <2>2, <1>3, ZeroSlot DEF LocRec, LocFields
  <2>4. Fits("linkput", r, c(p).op) /\ "linkput" \notin Elsewhere \cup Iputs
    BY <1>3, <1>6, <2>3 DEF Fits, IpAt, DpAt, Idle, Elsewhere, Iputs, Ends
  <2>5. \A u \in Slots : Held(loc[p], u) + Is(u, 0)
          = Is(r.cur, u) + Is(r.ip, u) + Is(r.dp, u) + Is(t, u)
    BY <1>3, <1>6, <2>3, NotZero DEF Held, Is
  <2>6. \A u \in Slots : ic'[u].lock = p <=> u \in KeptAt("linkput", r)
    BY <1>2, <1>3, <1>6, <2>1, <2>3, NotZero DEF KeptAt
  <2>7. OthersLocks(p)
    BY <1>2, <1>3, <2>1, NotZero DEF OthersLocks
  <2>8. Puts(p, 0, t, "linkput", r)
    BY <1>2, <1>3, <1>6, <2>1, <2>2, <2>3, <2>4, <2>5, <2>6, <2>7 DEF Puts, InCall
  <2> QED BY <2>8, PutStep
<1> QED BY <1>4, <1>5, <1>6

\* unlink() finds the name in the directory, which stays locked.
LEMMA StepUnlink ==
  ASSUME IInv, NEW p \in Procs, Unlink(p)
  PROVE  IInv'
<1>1. PICK t, d : t = loc[p].dp /\ d = Loaded(loc[p].dp)
  OBVIOUS
<1>2. pc[p] = "unlink" /\ UNCHANGED <<ft, proc>> /\ ic[t].lock = 0
  BY <1>1, Zenon DEF Unlink, At, Ilock, Wanted, UNCH_call
<1>3. /\ loc[p].cur = 0 /\ loc[p].ip = 0 /\ loc[p].dp = t /\ loc[p].put = 0
      /\ loc[p].then \notin Ends /\ proc[p].state = "used" /\ LocRec(loc[p])
      /\ t \in Slots0
      /\ \A u \in Slots : ic[u].lock # p
  BY <1>1, <1>2, AtIs, Typed DEF Fits, KeptAt, IpAt, DpAt, Iputs, Ends, LocRec
<1>4. \/ ic' = Entry(ic, t, d, 0) /\ PutThen(p, t, "fail", NoLoc)
      \/ \E i, o, g : /\ g = Iget(Entry(ic, t, d, p), i) /\ ic' = g[1]
                     /\ loc' = [loc EXCEPT ![p].ip = g[2], ![p].i = o] /\ Goto(p, "unlinkent")
  BY <1>1, Zenon DEF Unlink, UnlockPut
<1>5. ASSUME ic' = Entry(ic, t, d, 0), PutThen(p, t, "fail", NoLoc)
      PROVE  IInv'
  <2>1. /\ IcSet(ic') /\ One(ic')
        /\ \A u \in Slots : /\ ic'[u].ref = ic[u].ref + Is(u, 0)
                            /\ ic'[u].lock = IF u = t THEN 0 ELSE ic[u].lock
    BY <1>5, EntryIs, IsNat, RefNat, Typed
  <2>2. PICK r : r = NoLoc
    OBVIOUS
  <2>3. /\ LocRec(r) /\ r.cur = 0 /\ r.ip = 0 /\ r.dp = 0
    BY <2>2, NoLocIs
  <2>4. Fits("fail", r, c(p).op) /\ "fail" \notin Elsewhere \cup Iputs
    BY <1>3, <1>5, <2>3 DEF Fits, IpAt, DpAt, Idle, Elsewhere, Iputs, Ends
  <2>5. \A u \in Slots : Held(loc[p], u) + Is(u, 0)
          = Is(r.cur, u) + Is(r.ip, u) + Is(r.dp, u) + Is(t, u)
    BY <1>3, <1>5, <2>3, NotZero DEF Held, Is
  <2>6. \A u \in Slots : ic'[u].lock = p <=> u \in KeptAt("fail", r)
    BY <1>2, <1>3, <1>5, <2>1, <2>3, NotZero DEF KeptAt
  <2>7. OthersLocks(p)
    BY <1>2, <1>3, <2>1, NotZero DEF OthersLocks
  <2>8. Puts(p, 0, t, "fail", r)
    BY <1>2, <1>3, <1>5, <2>1, <2>2, <2>3, <2>4, <2>5, <2>6, <2>7 DEF Puts, InCall
  <2> QED BY <2>8, PutStep
<1>6. ASSUME NEW i, NEW o, NEW g, g = Iget(Entry(ic, t, d, p), i), ic' = g[1],
             loc' = [loc EXCEPT ![p].ip = g[2], ![p].i = o], Goto(p, "unlinkent")
      PROVE  IInv'
  <2>1. PICK h : /\ h = g[2] /\ h \in Slots0 /\ IcSet(g[1]) /\ One(g[1])
                 /\ \A u \in Slots : /\ g[1][u].ref = ic[u].ref + Is(u, h)
                                     /\ g[1][u].lock = IF u = t THEN p ELSE ic[u].lock
    BY <1>6, EntryIs, IgetIs, Typed
  <2>2. /\ IcSet(ic') /\ One(ic')
        /\ \A u \in Slots : /\ ic'[u].ref = ic[u].ref + Is(u, h)
                            /\ ic'[u].lock = IF u = t THEN p ELSE ic[u].lock
    BY <2>1, <1>6, IgetIs, IsNat, RefNat, Typed
  <2>3. PICK r : r = loc'[p]
    OBVIOUS
  <2>4. /\ LocRec(r) /\ r.cur = 0 /\ r.ip = h /\ r.dp = t
        /\ r.put = 0 /\ r.then \notin Ends /\ DOMAIN loc' = Procs
        /\ \A q \in Procs \ {p} : loc'[q] = loc[q]
    BY <2>1, <2>3, <1>3, <1>6, Typed, ZeroSlot DEF LocRec, LocFields, Ends
  <2>5. Fits("unlinkent", r, c(p).op) /\ "unlinkent" \notin Elsewhere \cup Iputs
    BY <1>3, <1>6, <2>4 DEF Fits, IpAt, DpAt, Idle, Elsewhere, Iputs, Ends
  <2>6. \A u \in Slots : Held(loc[p], u) + Is(u, h) = Held(r, u)
    BY <1>3, <1>6, <2>4, NotZero DEF Held, Is
  <2>7. \A u \in Slots : ic'[u].lock = p <=> u \in KeptAt("unlinkent", r)
    BY <1>2, <1>3, <1>6, <2>2, <2>4, NotZero DEF KeptAt
  <2>8. OthersLocks(p)
    BY <1>2, <1>3, <2>2, NotZero DEF OthersLocks
  <2>9. Goes(p, h, "unlinkent", r)
    BY <2>1, <1>2, <1>3, <1>6, <2>2, <2>3, <2>4, <2>5, <2>6, <2>7, <2>8 DEF Goes, InCall
  <2> QED BY <2>9, GoStep
<1> QED BY <1>4, <1>5, <1>6

-----------------------------------------------------------------------------
(* iput().                                                                 *)

\* A step of iput() before it drops the reference: the entry s may change, and
\* p locks or unlocks it.
LEMMA IputStep ==
  ASSUME IInv, NEW p \in Procs, UNCHANGED <<ft, proc, loc, todo>>,
         pc[p] \in Iputs, NEW l \in Iputs, OthersStay(p), pc'[p] = l,
         NEW s, s = loc[p].put, IcSet(ic'), One(ic'),
         \A u \in Slots : ic'[u].ref = ic[u].ref,
         \A u \in Slots, q \in Procs : q # p \/ u # s => (ic'[u].lock = q <=> ic[u].lock = q),
         s \in Slots => (ic'[s].lock = p <=> l \in {"free", "freed"}),
         s \in Slots => s \notin Kept(p)
  PROVE  IInv'
<1>1. Resume(p)' = Resume(p) /\ c(p)' = c(p) /\ LocRec(loc'[p])
  BY Typed DEF Resume, c
<1>2. Place(p)'
  <2>1. NoFiles(p)' <=> NoFiles(p)
    BY DEF NoFiles
  <2> QED BY <1>1, <2>1, Typed DEF Place, Iputs
<1>3. Balanced(p)
  BY DEF Balanced
<1>4. Kept(p)' = Kept(p) /\ Freeing(p)' = IF l \in {"free", "freed"} THEN {s} ELSE {}
  BY <1>1 DEF Kept, Freeing
<1>5. Freeing(p) = IF pc[p] \in {"free", "freed"} THEN {s} ELSE {}
  BY DEF Freeing
<1>6. LocksFollow(p)
  <2>1. ASSUME NEW u \in Slots
        PROVE  /\ ic[u].lock = p <=> u \in Kept(p) \cup Freeing(p)
               /\ ~(u \in Kept(p) /\ u \in Freeing(p))
    BY Typed
  <2>2. ASSUME NEW u \in Slots, u = s
        PROVE  /\ ic'[u].lock = p <=> u \in Kept(p)' \cup Freeing(p)'
               /\ ~(u \in Kept(p)' /\ u \in Freeing(p)')
    BY <1>4, <2>2
  <2>3. ASSUME NEW u \in Slots, u # s
        PROVE  /\ ic'[u].lock = p <=> u \in Kept(p)' \cup Freeing(p)'
               /\ ~(u \in Kept(p)' /\ u \in Freeing(p)')
    BY <1>4, <1>5, <2>1, <2>3
  <2> QED BY <2>2, <2>3 DEF LocksFollow
<1> QED BY <1>1, <1>2, <1>3, <1>6, PathStep

\* iput() looks at the last reference under the lock.
LEMMA StepIputLock ==
  ASSUME IInv, NEW p \in Procs, IputLock(p)
  PROVE  IInv'
<1>1. PICK s : s = loc[p].put
  OBVIOUS
<1>2. /\ pc[p] = "put" /\ s # 0 /\ ic[s].lock = 0 /\ UNCHANGED <<ft, proc, loc, todo>>
  BY <1>1, Zenon DEF IputLock, At, UNCH_put
<1>3. \/ ic' = SetLock(ic, s, p) /\ pc' = [pc EXCEPT ![p] = "free"]
      \/ ic' = ic /\ pc' = [pc EXCEPT ![p] = "deref"]
  BY <1>1 DEF IputLock, SetLock
<1>4. s \in Slots /\ s \notin Kept(p)
  BY <1>1, <1>2, Typed, NotZero DEF LocRec, Slots0
<1>5. CASE ic' = SetLock(ic, s, p) /\ pc' = [pc EXCEPT ![p] = "free"]
  <2>1. /\ IcSet(ic') /\ One(ic')
        /\ \A u \in Slots : /\ ic'[u].ref = ic[u].ref
                            /\ ic'[u].lock = IF u = s THEN p ELSE ic[u].lock
    BY <1>5, LockIs, Typed
  <2>2. /\ \A u \in Slots, q \in Procs : q # p \/ u # s => (ic'[u].lock = q <=> ic[u].lock = q)
        /\ ic'[s].lock = p
    BY <1>2, <1>4, <2>1, NotZero
  <2>3. OthersStay(p) /\ pc'[p] = "free"
    BY <1>2, <1>5, Typed DEF OthersStay
  <2> QED BY <1>1, <1>2, <1>4, <2>1, <2>2, <2>3, IputStep DEF Iputs
<1>6. CASE ic' = ic /\ pc' = [pc EXCEPT ![p] = "deref"]
  <2>1. ic'[s].lock # p
    BY <1>2, <1>6, NotZero
  <2>2. IcSet(ic') /\ One(ic')
    BY <1>6, Typed
  <2>3. OthersStay(p) /\ pc'[p] = "deref"
    BY <1>2, <1>6, Typed DEF OthersStay
  <2> QED BY <1>1, <1>2, <1>4, <1>6, <2>1, <2>2, <2>3, IputStep DEF Iputs
<1> QED BY <1>3, <1>5, <1>6

\* Where iput() has the lock of the entry, it frees the inode.
LEMMA FreeingIs ==
  ASSUME IInv, NEW p \in Procs, pc[p] \in {"free", "freed"}, NEW s, s = loc[p].put
  PROVE  s \in Slots => ic[s].lock = p /\ s \notin Kept(p)
BY Typed DEF Freeing

\* iput() frees the inode, under its lock.
LEMMA StepIputFree ==
  ASSUME IInv, NEW p \in Procs, IputFree(p)
  PROVE  IInv'
<1>1. PICK s : s = loc[p].put
  OBVIOUS
<1>2. /\ pc[p] = "free" /\ UNCHANGED <<ft, proc, loc, todo>> /\ pc' = [pc EXCEPT ![p] = "freed"]
  BY Zenon DEF IputFree, At, UNCH_put
<1>3. PICK d : ic' = [ic EXCEPT ![s].d = d]
  BY <1>1, Zenon DEF IputFree
<1>4. /\ IcSet(ic') /\ One(ic')
      /\ \A u \in Slots : ic'[u].ref = ic[u].ref /\ ic'[u].lock = ic[u].lock
  <2>1. \A u \in Slots : /\ DOMAIN ic'[u] = DOMAIN ic[u] /\ ic'[u].ref = ic[u].ref
                         /\ ic'[u].lock = ic[u].lock /\ ic'[u].inum = ic[u].inum
    BY <1>3, Typed DEF IcSet, EntryFields
  <2>2. DOMAIN ic' = Slots
    BY <1>3, Typed DEF IcSet
  <2> QED BY <2>1, <2>2, Typed DEF IcSet, One
<1>5. s \in Slots => ic[s].lock = p /\ s \notin Kept(p)
  BY <1>1, <1>2, FreeingIs
<1>6. OthersStay(p) /\ pc'[p] = "freed"
  BY <1>2, Typed DEF OthersStay
<1> QED BY <1>1, <1>2, <1>4, <1>5, <1>6, IputStep DEF Iputs

\* iput() releases the lock.
LEMMA StepIputFreed ==
  ASSUME IInv, NEW p \in Procs, IputFreed(p)
  PROVE  IInv'
<1>1. PICK s : s = loc[p].put
  OBVIOUS
<1>2. /\ pc[p] = "freed" /\ UNCHANGED <<ft, proc, loc, todo>> /\ pc' = [pc EXCEPT ![p] = "deref"]
  BY Zenon DEF IputFreed, At, UNCH_put
<1>3. ic' = [ic EXCEPT ![s].valid = FALSE, ![s].lock = 0]
  BY <1>1, Zenon DEF IputFreed
<1>4. /\ IcSet(ic') /\ One(ic')
      /\ \A u \in Slots : /\ ic'[u].ref = ic[u].ref
                          /\ ic'[u].lock = IF u = s THEN 0 ELSE ic[u].lock
  <2>1. \A u \in Slots : /\ DOMAIN ic'[u] = DOMAIN ic[u] /\ ic'[u].ref = ic[u].ref
                         /\ ic'[u].lock = (IF u = s THEN 0 ELSE ic[u].lock)
                         /\ ic'[u].inum = ic[u].inum
    BY <1>3, Typed DEF IcSet, EntryFields
  <2>2. DOMAIN ic' = Slots
    BY <1>3, Typed DEF IcSet
  <2> QED BY <2>1, <2>2, Typed DEF IcSet, One
<1>5. s \in Slots => ic[s].lock = p /\ s \notin Kept(p)
  BY <1>1, <1>2, FreeingIs
<1>6. /\ \A u \in Slots, q \in Procs : q # p \/ u # s => (ic'[u].lock = q <=> ic[u].lock = q)
      /\ s \in Slots => ic'[s].lock # p
  BY <1>4, <1>5, NotZero
<1>7. OthersStay(p) /\ pc'[p] = "deref"
  BY <1>2, Typed DEF OthersStay
<1> QED BY <1>1, <1>2, <1>4, <1>5, <1>6, <1>7, IputStep DEF Iputs

\* iput() drops the reference; the call goes on.
LEMMA StepIputDeref ==
  ASSUME IInv, NEW p \in Procs, IputDeref(p)
  PROVE  IInv'
<1>1. PICK s, l : s = loc[p].put /\ l = loc[p].then
  OBVIOUS
<1>2. /\ pc[p] = "deref" /\ UNCHANGED <<ft, proc, todo>> /\ pc' = [pc EXCEPT ![p] = l]
      /\ loc' = [loc EXCEPT ![p].put = 0] /\ ic' = [ic EXCEPT ![s].ref = @ - 1]
  BY <1>1, Zenon DEF IputDeref, At, UNCH_put
<1>3. OthersStay(p) /\ pc'[p] = l /\ c(p)' = c(p)
  BY <1>2, Typed DEF OthersStay, c
<1>4. PICK r : r = loc'[p]
  OBVIOUS
<1>5. /\ LocRec(r) /\ r.cur = loc[p].cur /\ r.ip = loc[p].ip /\ r.dp = loc[p].dp /\ r.put = 0
      /\ r.then = l /\ r.par = loc[p].par
  BY <1>1, <1>2, <1>4, Typed, ZeroSlot DEF LocRec, LocFields
<1>6. Resume(p) = l /\ Fits(l, loc[p], c(p).op) /\ s \in Slots0
  BY <1>1, <1>2, Typed DEF Resume, Iputs, Place, LocRec
<1>7. l \notin Iputs
  BY <1>6 DEF Fits, Iputs, IpAt, DpAt, Idle
<1>8. Resume(p)' = l
  BY <1>3, <1>7 DEF Resume
<1>9. Place(p)'
  <2>1. Fits(l, r, c(p).op)
    BY <1>5, <1>6 DEF Fits
  <2>2. NoFiles(p)' <=> NoFiles(p)
    BY <1>2 DEF NoFiles
  <2>3. /\ l = "exited" => NoFiles(p)
        /\ l \notin {"read", "write", "fstat", "user"} /\ proc[p].state = "used"
    BY <1>2, <1>6, Typed DEF Place
  <2> QED BY <1>2, <1>3, <1>4, <1>5, <1>8, <2>1, <2>2, <2>3 DEF Place
<1>10. /\ IcSet(ic') /\ One(ic')
       /\ \A u \in Slots : /\ ic'[u].ref + Is(s, u) = ic[u].ref
                           /\ ic'[u].lock = ic[u].lock
  <2>1. s \in Slots => ic[s].ref > 0
    <3> SUFFICES ASSUME s \in Slots PROVE ic[s].ref > 0
      OBVIOUS
    <3>1. Held(loc[p], s) # 0
      BY <1>1 DEF Held, Is
    <3> QED BY <3>1, Users
  <2>2. DOMAIN ic' = Slots
    BY <1>2, Typed DEF IcSet
  <2>3. ASSUME NEW u \in Slots
        PROVE  /\ DOMAIN ic'[u] = EntryFields /\ ic'[u].inum = ic[u].inum
               /\ ic'[u].lock = ic[u].lock /\ ic'[u].ref = ic[u].ref - Is(s, u)
    BY <1>2, <2>1, Typed DEF IcSet, EntryFields, Is
  <2>4. ASSUME NEW u \in Slots
        PROVE  ic'[u].ref \in Nat /\ ic'[u].ref + Is(s, u) = ic[u].ref
               /\ (ic'[u].ref > 0 => ic[u].ref > 0)
    <3>1. ic[u].ref \in Nat /\ Is(s, u) \in {0, 1} /\ (Is(s, u) = 1 => ic[u].ref > 0)
      BY <2>1, RefNat DEF Is
    <3> QED BY <2>3, <3>1
  <2>5. IcSet(ic')
    BY <2>2, <2>3, <2>4, Typed DEF IcSet
  <2>6. One(ic')
    BY <2>3, <2>4, Typed DEF One
  <2> QED BY <2>3, <2>4, <2>5, <2>6
<1>11. Balanced(p)
  <2> SUFFICES ASSUME NEW u \in Slots
               PROVE  ic'[u].ref + (Held(loc[p], u) + InCwd(proc[p], loc[p], u))
                        = ic[u].ref + (Held(r, u) + InCwd(proc[p], r, u))
    BY <1>2, <1>4 DEF Balanced
  <2>1. InCwd(proc[p], r, u) = InCwd(proc[p], loc[p], u)
    BY <1>1, <1>5 DEF InCwd
  <2>2. Held(loc[p], u) = Held(r, u) + Is(s, u)
    BY <1>1, <1>5, NotZero DEF Held, Is
  <2>3. /\ ic'[u].ref \in Nat /\ ic[u].ref \in Nat /\ Is(s, u) \in Nat
        /\ Held(r, u) \in Nat /\ InCwd(proc[p], loc[p], u) \in Nat
        /\ ic'[u].ref + Is(s, u) = ic[u].ref
    BY <1>10, RefNat, IsNat, HeldNat DEF InCwd, IcSet
  <2> QED BY <2>1, <2>2, <2>3
<1>12. LocksFollow(p)
  <2>1. Kept(p)' = Kept(p)
    BY <1>4, <1>5, <1>6, <1>8 DEF Kept, KeptAt
  <2>2. Freeing(p)' = {} /\ Freeing(p) = {}
    BY <1>2, <1>3, <1>7 DEF Freeing, Iputs
  <2> QED BY <1>10, <2>1, <2>2, Typed DEF LocksFollow
<1> QED BY <1>2, <1>3, <1>4, <1>5, <1>9, <1>10, <1>11, <1>12, PathStep

-----------------------------------------------------------------------------
(* The working directory.                                                  *)

\* p drops its working directory and goes on at l, chdir() with the new one in
\* ip and exit() with nothing.
LEMMA CwdStep ==
  ASSUME IInv, NEW p \in Procs, UNCHANGED <<ft, proc>>, proc[p].state = "used",
         loc[p].then \notin Ends, loc[p].put = 0, IcSet(ic'), One(ic'), OthersLocks(p),
         \A u \in Slots : ic'[u].ref = ic[u].ref /\ ic'[u].lock # p,
         NEW l \in Ends, NEW r, LocRec(r), Fits(l, r, c(p).op), l = "exited" => NoFiles(p),
         \A u \in Slots : Is(r.cur, u) + Is(r.ip, u) + Is(r.dp, u) = Held(loc[p], u),
         PutThen(p, proc[p].cwd, l, r)
  PROVE  IInv'
<1>1. PICK w : w = proc[p].cwd /\ w \in Slots0
  BY Typed DEF ProcRec
<1>2. /\ OthersStay(p) /\ todo'[p] = todo[p] /\ pc'[p] = "put" /\ Resume(p)' = l
      /\ LocRec(loc'[p]) /\ loc'[p].then = l /\ loc'[p].put = w /\ loc'[p].par = r.par
      /\ loc'[p].cur = r.cur /\ loc'[p].ip = r.ip /\ loc'[p].dp = r.dp
  BY <1>1, PutThenIs
<1>3. Place(p)'
  <2>1. c(p)' = c(p) /\ (NoFiles(p)' <=> NoFiles(p))
    BY <1>2 DEF c, NoFiles
  <2>2. Fits(l, loc'[p], c(p).op)
    BY <1>2 DEF Fits
  <2> QED BY <1>2, <2>1, <2>2 DEF Place, Iputs, Ends
<1>4. Balanced(p)
  <2> SUFFICES ASSUME NEW u \in Slots
               PROVE  ic'[u].ref + (Held(loc[p], u) + InCwd(proc[p], loc[p], u))
                        = ic[u].ref + (Held(loc'[p], u) + InCwd(proc[p], loc'[p], u))
    BY DEF Balanced
  <2>1. InCwd(proc[p], loc[p], u) = Is(w, u) /\ InCwd(proc[p], loc'[p], u) = 0
    BY <1>1, <1>2 DEF InCwd, Is
  <2>2. Held(loc'[p], u) = Held(loc[p], u) + Is(w, u)
    BY <1>2 DEF Held
  <2>3. ic[u].ref \in Nat /\ Held(loc[p], u) \in Nat /\ Is(w, u) \in Nat
    BY RefNat, HeldNat, IsNat
  <2> QED BY <2>1, <2>2, <2>3
<1>5. LocksFollow(p)
  <2>1. Kept(p)' = {} /\ Freeing(p)' = {}
    BY <1>2 DEF Kept, KeptAt, Freeing, Ends
  <2> QED BY <2>1 DEF LocksFollow, OthersLocks
<1> QED BY <1>2, <1>3, <1>4, <1>5, PathStep

\* chdir() drops the old directory before it has the new one.
LEMMA StepChdir ==
  ASSUME IInv, NEW p \in Procs, Chdir(p)
  PROVE  IInv'
<1>1. PICK s, d : s = loc[p].ip /\ d = Loaded(loc[p].ip)
  OBVIOUS
<1>2. pc[p] = "chdir" /\ UNCHANGED <<ft, proc>> /\ ic[s].lock = 0
  BY <1>1, Zenon DEF Chdir, At, Ilock, Wanted, UNCH_call
<1>3. /\ loc[p].cur = 0 /\ loc[p].ip = s /\ loc[p].dp = 0 /\ loc[p].put = 0
      /\ loc[p].then \notin Ends /\ proc[p].state = "used" /\ LocRec(loc[p])
      /\ s \in Slots0
      /\ \A u \in Slots : ic[u].lock # p
  BY <1>1, <1>2, AtIs, Typed DEF Fits, KeptAt, IpAt, DpAt, Iputs, Ends, LocRec
<1>4. \/ ic' = Entry(ic, s, d, 0) /\ PutThen(p, s, "fail", NoLoc)
      \/ ic' = Entry(ic, s, d, 0) /\ PutThen(p, proc[p].cwd, "cd", loc[p])
  BY <1>1, Zenon DEF Chdir, UnlockPut
<1>5. ASSUME ic' = Entry(ic, s, d, 0), PutThen(p, s, "fail", NoLoc)
      PROVE  IInv'
  <2>1. /\ IcSet(ic') /\ One(ic')
        /\ \A u \in Slots : /\ ic'[u].ref = ic[u].ref + Is(u, 0)
                            /\ ic'[u].lock = IF u = s THEN 0 ELSE ic[u].lock
    BY <1>5, EntryIs, IsNat, RefNat, Typed
  <2>2. PICK r : r = NoLoc
    OBVIOUS
  <2>3. /\ LocRec(r) /\ r.cur = 0 /\ r.ip = 0 /\ r.dp = 0
    BY <2>2, NoLocIs
  <2>4. Fits("fail", r, c(p).op) /\ "fail" \notin Elsewhere \cup Iputs
    BY <1>3, <1>5, <2>3 DEF Fits, IpAt, DpAt, Idle, Elsewhere, Iputs, Ends
  <2>5. \A u \in Slots : Held(loc[p], u) + Is(u, 0)
          = Is(r.cur, u) + Is(r.ip, u) + Is(r.dp, u) + Is(s, u)
    BY <1>3, <1>5, <2>3, NotZero DEF Held, Is
  <2>6. \A u \in Slots : ic'[u].lock = p <=> u \in KeptAt("fail", r)
    BY <1>2, <1>3, <1>5, <2>1, <2>3, NotZero DEF KeptAt
  <2>7. OthersLocks(p)
    BY <1>2, <1>3, <2>1, NotZero DEF OthersLocks
  <2>8. Puts(p, 0, s, "fail", r)
    BY <1>2, <1>3, <1>5, <2>1, <2>2, <2>3, <2>4, <2>5, <2>6, <2>7 DEF Puts, InCall
  <2> QED BY <2>8, PutStep
<1>6. ASSUME ic' = Entry(ic, s, d, 0), PutThen(p, proc[p].cwd, "cd", loc[p])
      PROVE  IInv'
  <2>1. /\ IcSet(ic') /\ One(ic')
        /\ \A u \in Slots : /\ ic'[u].ref = ic[u].ref
                            /\ ic'[u].lock = IF u = s THEN 0 ELSE ic[u].lock
    BY <1>6, EntryIs, Typed
  <2>2. OthersLocks(p) /\ \A u \in Slots : ic'[u].lock # p
    BY <1>2, <1>3, <2>1, NotZero DEF OthersLocks
  <2>3. Fits("cd", loc[p], c(p).op) /\ "cd" \in Ends
    BY <1>3 DEF Fits, IpAt, Ends
  <2>4. \A u \in Slots : Is(loc[p].cur, u) + Is(loc[p].ip, u) + Is(loc[p].dp, u) = Held(loc[p], u)
    <3>1. \A u \in Slots : Is(loc[p].put, u) = 0
      BY <1>3, IsNat
    <3> QED BY <3>1, IsNat DEF Held
  <2> QED BY <1>2, <1>3, <1>6, <2>1, <2>2, <2>3, <2>4, CwdStep
<1> QED BY <1>4, <1>5, <1>6

\* exit() drops the directory.
LEMMA StepExitCwd ==
  ASSUME IInv, NEW p \in Procs, ExitCwd(p)
  PROVE  IInv'
<1>1. /\ pc[p] = "exit" /\ UNCHANGED <<ft, proc, ic>> /\ OpenFds(p) = {}
      /\ PutThen(p, proc[p].cwd, "exited", NoLoc)
  BY DEF ExitCwd, At
<1>2. /\ loc[p].cur = 0 /\ loc[p].ip = 0 /\ loc[p].dp = 0 /\ loc[p].put = 0
      /\ loc[p].then \notin Ends /\ proc[p].state = "used"
      /\ \A u \in Slots : ic[u].lock # p
  BY <1>1, AtIs DEF Fits, KeptAt, IpAt, DpAt, Iputs, Ends
<1>3. NoFiles(p)
  BY <1>1 DEF NoFiles, OpenFds
<1>4. PICK r : r = NoLoc
  OBVIOUS
<1>5. LocRec(r) /\ r.cur = 0 /\ r.ip = 0 /\ r.dp = 0
  BY <1>4, NoLocIs
<1>6. Fits("exited", r, c(p).op) /\ "exited" \in Ends
  BY <1>5 DEF Fits, Idle, Ends
<1>7. \A u \in Slots : Is(r.cur, u) + Is(r.ip, u) + Is(r.dp, u) = Held(loc[p], u)
  BY <1>2, <1>5, NotZero DEF Held, Is
<1>8. IcSet(ic') /\ One(ic') /\ OthersLocks(p)
      /\ \A u \in Slots : ic'[u].ref = ic[u].ref /\ ic'[u].lock # p
  BY <1>1, <1>2, Typed DEF OthersLocks
<1>9. PutThen(p, proc[p].cwd, "exited", r)
  BY <1>1, <1>4
<1> QED BY <1>1, <1>2, <1>3, <1>5, <1>6, <1>7, <1>8, <1>9, CwdStep

-----------------------------------------------------------------------------
(* Returning to user space.                                                *)

Returned(p) == OthersStay(p) /\ pc'[p] = "user" /\ loc'[p] = NoLoc

OthersKeep(p) == \A q \in Procs \ {p} :
    /\ proc'[q].cwd = proc[q].cwd /\ proc'[q].ofile = proc[q].ofile
    /\ proc'[q].state = proc[q].state \/ (pc[q] = "user" /\ proc[q].cwd = 0 /\ NoFiles(q))

\* Return ends the call of p and nobody else's.
LEMMA ReturnIs ==
  ASSUME IInv, NEW p \in Procs, NEW x, NEW y, Return(p, x, y)
  PROVE  Returned(p)
BY Typed, Zenon DEF Return, Returned, OthersStay

\* Locals without an entry hold no reference.
LEMMA HoldsNone ==
  ASSUME NEW r, r.cur = 0, r.ip = 0, r.dp = 0, r.put = 0
  PROVE  \A u \in Slots : Held(r, u) = 0
BY NotZero DEF Held, Is

\* A step of p that ends its call with no reference in a local and no lock.
LEMMA ReturnStep ==
  ASSUME IInv, NEW p \in Procs, Returned(p), proc'[p].state = "used", NEW g \in FileIds,
         IcSet(ic'), One(ic'), FtOK', ProcOK', OthersKeep(p), OthersLocks(p),
         \A u \in Slots : ic'[u].lock # p,
         \A f \in FileIds \ {g} : ft'[f].ip = ft[f].ip,
         \A u \in Slots :
            ic'[u].ref + (Held(loc[p], u) + InCwd(proc[p], loc[p], u)) + Is(ft[g].ip, u)
             = ic[u].ref + Is(proc'[p].cwd, u) + Is(ft'[g].ip, u),
         \A f \in FileIds :
            ft'[f].ref + Fdn(proc[p].ofile, f) = ft[f].ref + Fdn(proc'[p].ofile, f)
  PROVE  IInv'
<1>1. PICK r : r = NoLoc
  OBVIOUS
<1>2. /\ LocRec(r) /\ r.cur = 0 /\ r.ip = 0 /\ r.dp = 0 /\ r.put = 0 /\ r.then = ""
  BY <1>1, NoLocIs
<1>3. OthersStay(p) /\ pc'[p] = "user" /\ loc'[p] = r /\ Resume(p)' = "user"
  BY <1>1 DEF Returned, Resume, Iputs
<1>4. Place(p)'
  <2>1. Fits("user", r, c(p)'.op)
    BY <1>2 DEF Fits, Idle
  <2> QED BY <1>2, <1>3, <2>1 DEF Place, Ends
<1>5. LocksFollow(p)
  <2>1. Kept(p)' = {} /\ Freeing(p)' = {}
    BY <1>3 DEF Kept, KeptAt, Freeing
  <2> QED BY <2>1 DEF LocksFollow, OthersLocks
<1>6. ASSUME NEW u \in Slots
      PROVE  ic'[u].ref + (Held(loc[p], u) + InCwd(proc[p], loc[p], u)) + Is(ft[g].ip, u)
             = ic[u].ref + (Held(loc'[p], u) + InCwd(proc'[p], loc'[p], u)) + Is(ft'[g].ip, u)
  <2>1. Held(r, u) = 0
    BY <1>2, HoldsNone
  <2>2. InCwd(proc'[p], r, u) = Is(proc'[p].cwd, u)
    BY <1>2 DEF InCwd, Is, Ends
  <2> QED BY <1>3, <2>1, <2>2, IsNat
<1> QED BY <1>2, <1>3, <1>4, <1>5, <1>6, AnyStep DEF OthersKeep

\* What holds at the labels where p has no reference.
LEMMA IdleIs ==
  ASSUME IInv, NEW p \in Procs, pc[p] \in Idle \ {"exited"}
  PROVE  /\ loc[p].cur = 0 /\ loc[p].ip = 0 /\ loc[p].dp = 0 /\ loc[p].put = 0
         /\ loc[p].then \notin Ends /\ (pc[p] # "user" => proc[p].state = "used")
         /\ \A u \in Slots : /\ Held(loc[p], u) = 0 /\ InCwd(proc[p], loc[p], u) = Is(proc[p].cwd, u)
                             /\ ic[u].lock # p
<1>1. PICK l \in Idle : l = pc[p]
  OBVIOUS
<1>2. /\ loc[p].cur = 0 /\ loc[p].ip = 0 /\ loc[p].dp = 0 /\ loc[p].put = 0
      /\ loc[p].then \notin Ends /\ (pc[p] # "user" => proc[p].state = "used")
      /\ \A u \in Slots : ic[u].lock # p
  BY <1>1, AtIs DEF Fits, KeptAt, IpAt, DpAt, Iputs, Ends, Idle
<1>3. \A u \in Slots : Held(loc[p], u) = 0
  BY <1>2, NotZero DEF Held, Is
<1>4. \A u : InCwd(proc[p], loc[p], u) = Is(proc[p].cwd, u)
  BY <1>2 DEF InCwd, Is
<1> QED BY <1>2, <1>3, <1>4

\* Of the files and of the table entries nothing that the counts are about
\* changes.
FtQuiet == /\ DOMAIN ft' = FileIds
           /\ \A f \in FileIds : /\ DOMAIN ft'[f] = DOMAIN ft[f]
                                 /\ ft'[f].ref = ft[f].ref /\ ft'[f].ip = ft[f].ip
                                 /\ ft'[f].type = ft[f].type
ProcQuiet(p) == /\ DOMAIN proc' = Procs /\ proc'[p].state = "used"
                /\ \A q \in Procs : /\ DOMAIN proc'[q] = ProcFields
                                    /\ proc'[q].cwd = proc[q].cwd /\ proc'[q].ofile = proc[q].ofile
                /\ OthersKeep(p)
IcQuiet(p) == /\ IcSet(ic') /\ One(ic') /\ OthersLocks(p)
              /\ \A u \in Slots : ic'[u].ref = ic[u].ref /\ ic'[u].lock # p

\* A return from a place without references that changes no count.
LEMMA QuietReturn ==
  ASSUME IInv, NEW p \in Procs, pc[p] \in Idle \ {"exited"}, Returned(p),
         IcQuiet(p), FtQuiet, ProcQuiet(p)
  PROVE  IInv'
<1>1. 1 \in FileIds
  BY CallsAssumption DEF FileIds
<1>2. FtOK'
  BY DEF FtQuiet, IInv, FtOK, FileRec
<1>3. ProcOK'
  BY DEF ProcQuiet, IInv, ProcOK, ProcRec
<1>4. /\ \A f \in FileIds \ {1} : ft'[f].ip = ft[f].ip
      /\ \A f \in FileIds :
            ft'[f].ref + Fdn(proc[p].ofile, f) = ft[f].ref + Fdn(proc'[p].ofile, f)
  BY DEF FtQuiet, ProcQuiet
<1>5. ASSUME NEW u \in Slots
      PROVE  ic'[u].ref + (Held(loc[p], u) + InCwd(proc[p], loc[p], u)) + Is(ft[1].ip, u)
              = ic[u].ref + Is(proc'[p].cwd, u) + Is(ft'[1].ip, u)
  <2>1. ic'[u].ref = ic[u].ref /\ proc'[p].cwd = proc[p].cwd /\ ft'[1].ip = ft[1].ip
    BY <1>1 DEF IcQuiet, FtQuiet, ProcQuiet
  <2>2. Held(loc[p], u) = 0 /\ InCwd(proc[p], loc[p], u) = Is(proc[p].cwd, u)
    BY IdleIs
  <2> QED BY <2>1, <2>2, IsNat, RefNat
<1> QED BY <1>1, <1>2, <1>3, <1>4, <1>5, ReturnStep DEF IcQuiet, ProcQuiet

\* Nothing changes, of the cache, the files and the table entries.
LEMMA SameQuiet ==
  ASSUME IInv, NEW p \in Procs, pc[p] \in Idle \ {"exited"}
  PROVE  /\ UNCHANGED ic => IcQuiet(p)
         /\ UNCHANGED ft => FtQuiet
         /\ UNCHANGED proc /\ (pc[p] = "user" => proc[p].state = "used") => ProcQuiet(p)
<1>1. UNCHANGED ic => IcQuiet(p)
  BY IdleIs, Typed DEF IcQuiet, OthersLocks
<1>2. UNCHANGED ft => FtQuiet
  BY DEF FtQuiet, IInv, FtOK
<1>3. ASSUME UNCHANGED proc, pc[p] = "user" => proc[p].state = "used" PROVE ProcQuiet(p)
  <2>1. DOMAIN proc = Procs /\ \A q \in Procs : DOMAIN proc[q] = ProcFields
    BY DEF IInv, ProcOK, ProcRec
  <2>2. proc[p].state = "used"
    BY <1>3, IdleIs
  <2> QED BY <1>3, <2>1, <2>2 DEF ProcQuiet, OthersKeep
<1> QED BY <1>1, <1>2, <1>3

\* A return that changes neither the cache nor the two tables.
LEMMA PlainReturn ==
  ASSUME IInv, NEW p \in Procs, pc[p] \in Idle \ {"exited"}, pc[p] = "user" => proc[p].state = "used",
         NEW x, NEW y, Return(p, x, y), UNCHANGED <<ic, ft, proc>>
  PROVE  IInv'
BY ReturnIs, SameQuiet, QuietReturn

\* exec() and sbrk() change the memory of a process, kill() marks it.
LEMMA VmQuiet ==
  ASSUME IInv, NEW p \in Procs, proc[p].state = "used",
         \/ \E v, z : proc' = [proc EXCEPT ![p].vm = v, ![p].sz = z]
         \/ \E q \in Procs : proc' = [proc EXCEPT ![q].killed = TRUE]
  PROVE  ProcQuiet(p)
<1>1. DOMAIN proc = Procs /\ \A q \in Procs : DOMAIN proc[q] = ProcFields
  BY DEF IInv, ProcOK, ProcRec
<1>2. /\ DOMAIN proc' = Procs
      /\ \A q \in Procs : /\ DOMAIN proc'[q] = DOMAIN proc[q] /\ proc'[q].state = proc[q].state
                         /\ proc'[q].cwd = proc[q].cwd /\ proc'[q].ofile = proc[q].ofile
  <2>1. CASE \E v, z : proc' = [proc EXCEPT ![p].vm = v, ![p].sz = z]
    <3>1. PICK v, z : proc' = [proc EXCEPT ![p].vm = v, ![p].sz = z]
      BY <2>1
    <3> QED BY <1>1, <3>1 DEF ProcFields
  <2>2. CASE \E q \in Procs : proc' = [proc EXCEPT ![q].killed = TRUE]
    <3>1. PICK q \in Procs : proc' = [proc EXCEPT ![q].killed = TRUE]
      BY <2>2
    <3> QED BY <1>1, <3>1 DEF ProcFields
  <2> QED BY <2>1, <2>2, Zenon
<1> QED BY <1>1, <1>2 DEF ProcQuiet, OthersKeep

\* A path call that failed returns.
LEMMA StepFail == ASSUME IInv, NEW p \in Procs, Fail(p) PROVE IInv'
<1>1. pc[p] = "fail" /\ Return(p, -1, AnyData) /\ UNCHANGED <<ic, ft, proc>>
  BY Zenon DEF Fail, At, UNCH_end
<1> QED BY <1>1, PlainReturn DEF Idle

\* A path call returns.
LEMMA StepOk == ASSUME IInv, NEW p \in Procs, Ok(p) PROVE IInv'
<1>1. pc[p] = "ok" /\ Return(p, 0, AnyData) /\ UNCHANGED <<ic, ft, proc>>
  BY Zenon DEF Ok, At, UNCH_end
<1> QED BY <1>1, PlainReturn DEF Idle

\* A call is refused for its arguments.
LEMMA StepRefuse == ASSUME IInv, NEW p \in Procs, Refuse(p) PROVE IInv'
<1>1. /\ pc[p] = "user" /\ proc[p].state = "used" /\ Return(p, -1, AnyData)
      /\ UNCHANGED <<ic, ft, proc>>
  BY Zenon DEF Refuse, User, At
<1> QED BY <1>1, PlainReturn DEF Idle

\* write() of nothing.
LEMMA StepWriteNothing == ASSUME IInv, NEW p \in Procs, WriteNothing(p) PROVE IInv'
<1>1. pc[p] = "write" /\ Return(p, 0, AnyData) /\ UNCHANGED <<ic, ft, proc>>
  BY Zenon DEF WriteNothing, OnInode, At
<1> QED BY <1>1, PlainReturn DEF Idle

\* A pipe is read.
LEMMA StepReadPipe == ASSUME IInv, NEW p \in Procs, ReadPipe(p) PROVE IInv'
<1>1. /\ pc[p] = "read" /\ UNCHANGED <<ic, ft, proc>>
      /\ \E x, y : Return(p, x, y)
  BY Zenon DEF ReadPipe, OnPipe, At, UNCH_pipe
<1> QED BY <1>1, PlainReturn DEF Idle

\* getpid(), sleep() and uptime().
LEMMA StepPass == ASSUME IInv, NEW p \in Procs, Pass(p) PROVE IInv'
<1>1. /\ pc[p] = "user" /\ proc[p].state = "used" /\ UNCHANGED <<ic, ft, proc>>
      /\ \E x, y : Return(p, x, y)
  BY Zenon DEF Pass, User, At
<1> QED BY <1>1, PlainReturn DEF Idle

\* exec() changes the address space.
LEMMA StepExecStack == ASSUME IInv, NEW p \in Procs, ExecStack(p) PROVE IInv'
<1>1. pc[p] = "stack" /\ UNCHANGED <<ic, ft>>
  BY Zenon DEF ExecStack, At
<1>2. \/ Return(p, -1, AnyData) /\ UNCHANGED proc
      \/ Returned(p) /\ \E v, z : proc' = [proc EXCEPT ![p].vm = v, ![p].sz = z]
  <2>1. ASSUME NEW x, pc' = [pc EXCEPT ![p] = "user"], loc' = [loc EXCEPT ![p] = NoLoc],
               todo' = [todo EXCEPT ![p] = x]
        PROVE  Returned(p)
    BY <2>1, Typed DEF Returned, OthersStay
  <2> QED BY <2>1 DEF ExecStack
<1>3. CASE Return(p, -1, AnyData) /\ UNCHANGED proc
  BY <1>1, <1>3, PlainReturn DEF Idle
<1>4. CASE Returned(p) /\ \E v, z : proc' = [proc EXCEPT ![p].vm = v, ![p].sz = z]
  <2>1. IcQuiet(p) /\ FtQuiet
    BY <1>1, SameQuiet DEF Idle
  <2>2. proc[p].state = "used"
    BY <1>1, IdleIs DEF Idle
  <2>3. ProcQuiet(p)
    BY <1>4, <2>2, VmQuiet
  <2> QED BY <1>1, <1>4, <2>1, <2>3, QuietReturn DEF Idle
<1> QED BY <1>2, <1>3, <1>4

\* kill() marks a process.
LEMMA StepKill == ASSUME IInv, NEW p \in Procs, Kill(p) PROVE IInv'
<1>1. /\ pc[p] = "user" /\ proc[p].state = "used" /\ UNCHANGED <<ic, ft>>
      /\ \E x, y : Return(p, x, y)
      /\ UNCHANGED proc \/ \E q \in Procs : proc' = [proc EXCEPT ![q].killed = TRUE]
  BY Zenon DEF Kill, User, At
<1>2. IcQuiet(p) /\ FtQuiet /\ ProcQuiet(p) /\ Returned(p)
  BY <1>1, SameQuiet, VmQuiet, ReturnIs DEF Idle
<1> QED BY <1>1, <1>2, QuietReturn DEF Idle

\* sbrk() changes the address space.
LEMMA StepSbrk == ASSUME IInv, NEW p \in Procs, Sbrk(p) PROVE IInv'
<1>1. /\ pc[p] = "user" /\ proc[p].state = "used" /\ UNCHANGED <<ic, ft>>
      /\ \E x, y : Return(p, x, y)
      /\ \E v, z : proc' = [proc EXCEPT ![p].vm = v, ![p].sz = z]
  BY Zenon DEF Sbrk, User, At
<1>2. IcQuiet(p) /\ FtQuiet /\ ProcQuiet(p) /\ Returned(p)
  BY <1>1, SameQuiet, VmQuiet, ReturnIs DEF Idle
<1> QED BY <1>1, <1>2, QuietReturn DEF Idle

\* The table entry of a zombie, which has no file and no working directory.
LEMMA ReapQuiet ==
  ASSUME IInv, NEW p \in Procs, NEW q \in Procs, q # p, proc[p].state = "used",
         proc[q].state = "zombie", proc' = [proc EXCEPT ![q] = NoProc]
  PROVE  ProcQuiet(p)
<1>1. DOMAIN proc = Procs /\ \A x \in Procs : ProcRec(proc[x])
  BY DEF IInv, ProcOK
<1>2. pc[q] = "user" /\ proc[q].cwd = 0 /\ NoFiles(q)
  BY Typed DEF Place
<1>3. /\ DOMAIN NoProc = ProcFields /\ NoProc.cwd = 0 /\ NoProc.ofile = [fd \in Fds |-> 0]
  BY DEF NoProc, ProcFields
<1>4. proc[q].ofile = [fd \in Fds |-> 0]
  BY <1>1, <1>2 DEF NoFiles, ProcRec
<1>5. \A x \in Procs : proc'[x] = IF x = q THEN NoProc ELSE proc[x]
  BY <1>1
<1>6. DOMAIN proc' = Procs
  BY <1>1
<1> QED BY <1>1, <1>2, <1>3, <1>4, <1>5, <1>6 DEF ProcQuiet, OthersKeep, ProcRec

\* The least process of a set is one of it.
LEMMA MinProc == ASSUME NEW S \in SUBSET Procs, S # {} PROVE Min(S) \in S
<1>1. NPROC \in Nat /\ S \in SUBSET (0 .. NPROC)
  BY CallsAssumption DEF Procs
<1> QED BY <1>1, MinIn

\* wait() frees a zombie, which has neither a file nor a directory.
LEMMA StepWait == ASSUME IInv, NEW p \in Procs, Wait(p) PROVE IInv'
<1> DEFINE dead == {q \in Children(p) : proc[q].state = "zombie"}
<1>1. /\ pc[p] = "user" /\ proc[p].state = "used" /\ UNCHANGED <<ic, ft>>
      /\ \E x, y : Return(p, x, y)
      /\ UNCHANGED proc \/ (dead # {} /\ Reap(Min(dead)))
  BY Zenon DEF Wait, At
<1>2. IcQuiet(p) /\ FtQuiet /\ Returned(p)
  BY <1>1, SameQuiet, ReturnIs DEF Idle
<1>3. ProcQuiet(p)
  <2>1. CASE UNCHANGED proc
    BY <1>1, <2>1, SameQuiet DEF Idle
  <2>2. CASE dead # {} /\ Reap(Min(dead))
    <3>1. PICK q : q = Min(dead)
      OBVIOUS
    <3>2. q \in dead
      BY <2>2, <3>1, MinProc DEF Children
    <3>3. q \in Procs /\ q # p /\ proc[q].state = "zombie"
      BY <1>1, <3>2 DEF Children
    <3>4. proc' = [proc EXCEPT ![q] = NoProc]
      BY <2>2, <3>1 DEF Reap
    <3> QED BY <1>1, <3>3, <3>4, ReapQuiet
  <2> QED BY <1>1, <2>1, <2>2
<1> QED BY <1>1, <1>2, <1>3, QuietReturn DEF Idle

-----------------------------------------------------------------------------
(* Steps between the labels where p has no reference.                      *)

\* p goes on at l with locals that hold nothing.
Moved(p, l) ==
    /\ OthersStay(p) /\ todo'[p] = todo[p] /\ pc'[p] = l /\ LocRec(loc'[p])
    /\ loc'[p].cur = 0 /\ loc'[p].ip = 0 /\ loc'[p].dp = 0 /\ loc'[p].put = 0
    /\ loc'[p].then \notin Ends

\* Goto takes p on, with at most the index i changed.
LEMMA MovedIs ==
  ASSUME IInv, NEW p \in Procs, pc[p] \in Idle \ {"exited"}, NEW l, Goto(p, l),
         \/ UNCHANGED loc
         \/ \E n : loc' = [loc EXCEPT ![p].i = n]
  PROVE  Moved(p, l)
<1>1. /\ DOMAIN pc' = Procs /\ DOMAIN todo' = Procs /\ pc'[p] = l /\ todo'[p] = todo[p]
      /\ \A q \in Procs \ {p} : pc'[q] = pc[q] /\ todo'[q] = todo[q]
  BY Typed DEF Goto, Stay
<1>2. /\ loc[p].cur = 0 /\ loc[p].ip = 0 /\ loc[p].dp = 0 /\ loc[p].put = 0
      /\ loc[p].then \notin Ends /\ LocRec(loc[p]) /\ DOMAIN loc = Procs
  BY IdleIs, Typed
<1>3. CASE UNCHANGED loc
  BY <1>1, <1>2, <1>3 DEF Moved, OthersStay
<1>4. CASE \E n : loc' = [loc EXCEPT ![p].i = n]
  <2>1. PICK n : loc' = [loc EXCEPT ![p].i = n]
    BY <1>4
  <2>2. /\ LocRec(loc'[p]) /\ loc'[p].cur = 0 /\ loc'[p].ip = 0 /\ loc'[p].dp = 0
        /\ loc'[p].put = 0 /\ loc'[p].then = loc[p].then
    BY <1>2, <2>1, ZeroSlot DEF LocRec, LocFields
  <2>3. DOMAIN loc' = Procs /\ \A q \in Procs \ {p} : loc'[q] = loc[q]
    BY <1>2, <2>1
  <2> QED BY <1>1, <1>2, <2>2, <2>3 DEF Moved, OthersStay
<1> QED BY <1>3, <1>4

\* A step between places without references that changes no count.
LEMMA QuietMove ==
  ASSUME IInv, NEW p \in Procs, pc[p] \in Idle \ {"exited"}, NEW l \in Idle \ {"exited"}, Moved(p, l),
         l \in {"read", "write", "fstat"} => c(p).fd \in OpenFds(p),
         IcQuiet(p), FtQuiet, ProcQuiet(p)
  PROVE  IInv'
<1>1. 1 \in FileIds
  BY CallsAssumption DEF FileIds
<1>2. FtOK'
  BY DEF FtQuiet, IInv, FtOK, FileRec
<1>3. ProcOK'
  BY DEF ProcQuiet, IInv, ProcOK, ProcRec
<1>4. /\ \A f \in FileIds \ {1} : ft'[f].ip = ft[f].ip
      /\ \A f \in FileIds :
            ft'[f].ref + Fdn(proc[p].ofile, f) = ft[f].ref + Fdn(proc'[p].ofile, f)
  BY DEF FtQuiet, ProcQuiet
<1>5. PICK r : r = loc'[p]
  OBVIOUS
<1>6. /\ OthersStay(p) /\ todo'[p] = todo[p] /\ pc'[p] = l /\ LocRec(r)
      /\ r.cur = 0 /\ r.ip = 0 /\ r.dp = 0 /\ r.put = 0 /\ r.then \notin Ends
  BY <1>5 DEF Moved
<1>7. Resume(p)' = l /\ Kept(p)' = {} /\ Freeing(p)' = {}
  BY <1>6 DEF Resume, Kept, KeptAt, Freeing, Idle, Iputs
<1>8. Place(p)'
  <2>1. c(p)' = c(p) /\ OpenFds(p)' = OpenFds(p) /\ proc'[p].state = "used"
    BY <1>6 DEF c, OpenFds, ProcQuiet
  <2>2. Fits(l, r, c(p).op)
    BY <1>6 DEF Fits, Idle
  <2>3. l \notin Ends
    BY DEF Idle, Ends
  <2> QED BY <1>5, <1>6, <1>7, <2>1, <2>2, <2>3 DEF Place, Ends
<1>9. LocksFollow(p)
  BY <1>7 DEF LocksFollow, IcQuiet, OthersLocks
<1>10. ASSUME NEW u \in Slots
       PROVE  ic'[u].ref + (Held(loc[p], u) + InCwd(proc[p], loc[p], u)) + Is(ft[1].ip, u)
              = ic[u].ref + (Held(loc'[p], u) + InCwd(proc'[p], loc'[p], u)) + Is(ft'[1].ip, u)
  <2>1. ic'[u].ref = ic[u].ref /\ proc'[p].cwd = proc[p].cwd /\ ft'[1].ip = ft[1].ip
    BY <1>1 DEF IcQuiet, FtQuiet, ProcQuiet
  <2>2. Held(loc[p], u) = 0 /\ InCwd(proc[p], loc[p], u) = Is(proc[p].cwd, u)
    BY IdleIs
  <2>3. Held(r, u) = 0
    BY <1>6, HoldsNone
  <2>4. InCwd(proc'[p], r, u) = Is(proc'[p].cwd, u)
    BY <1>6 DEF InCwd, Is
  <2> QED BY <1>5, <2>1, <2>2, <2>3, <2>4
<1> QED BY <1>1, <1>2, <1>3, <1>4, <1>5, <1>6, <1>8, <1>9, <1>10, AnyStep DEF IcQuiet, ProcQuiet, OthersKeep

\* A descriptor call that locks and unlocks its inode in one step.
LEMMA EntryQuiet ==
  ASSUME IInv, NEW p \in Procs, pc[p] \in Idle \ {"exited"}, NEW s, NEW d, ic[s].lock = 0,
         ic' = Entry(ic, s, d, 0)
  PROVE  IcQuiet(p)
<1>1. /\ IcSet(ic') /\ One(ic')
      /\ \A u \in Slots : /\ ic'[u].ref = ic[u].ref
                          /\ ic'[u].lock = IF u = s THEN 0 ELSE ic[u].lock
  BY EntryIs, Typed
<1> QED BY <1>1, IdleIs, NotZero DEF IcQuiet, OthersLocks

\* The offset of a file is not counted.
LEMMA OffQuiet ==
  ASSUME IInv, NEW f, NEW x, ft' = [ft EXCEPT ![f].off = x]
  PROVE  FtQuiet
<1>1. DOMAIN ft = FileIds /\ \A g \in FileIds : DOMAIN ft[g] = FileFields
  BY DEF IInv, FtOK, FileRec
<1> QED BY <1>1 DEF FtQuiet, FileFields

\* The file of a descriptor call and the entry it locks.
LEMMA InodeCall ==
  ASSUME NEW p \in Procs, NEW op \in {"read", "write", "fstat"}, OnInode(p, op), Ilock(p),
         op = "write" => c(p).n # 0
  PROVE  pc[p] = op /\ ic[ft[FileOf(p)].ip].lock = 0
BY DEF OnInode, At, Ilock, Wanted

\* fstat() locks the inode and unlocks it.
LEMMA StepFstat == ASSUME IInv, NEW p \in Procs, Fstat(p) PROVE IInv'
<1>1. PICK s : s = ft[FileOf(p)].ip
  OBVIOUS
<1>2. /\ OnInode(p, "fstat") /\ Ilock(p) /\ UNCHANGED <<ft, proc>>
      /\ \E d : ic' = Entry(ic, s, d, 0)
      /\ \E x, y : Return(p, x, y)
  BY <1>1, Zenon DEF Fstat
<1>3. pc[p] = "fstat" /\ ic[s].lock = 0
  BY <1>1, <1>2, InodeCall
<1>4. IcQuiet(p) /\ FtQuiet /\ ProcQuiet(p) /\ Returned(p)
  BY <1>2, <1>3, SameQuiet, EntryQuiet, ReturnIs DEF Idle
<1> QED BY <1>3, <1>4, QuietReturn DEF Idle

\* So does a read of a file,
LEMMA StepReadInode == ASSUME IInv, NEW p \in Procs, ReadInode(p) PROVE IInv'
<1>1. PICK f, s : f = FileOf(p) /\ s = ft[f].ip
  OBVIOUS
<1>2. /\ OnInode(p, "read") /\ Ilock(p) /\ UNCHANGED proc
      /\ \E d : ic' = Entry(ic, s, d, 0)
      /\ \E x, y : Return(p, x, y)
      /\ \E x : ft' = [ft EXCEPT ![f].off = x]
  BY <1>1, Zenon DEF ReadInode
<1>3. pc[p] = "read" /\ ic[s].lock = 0
  BY <1>1, <1>2, InodeCall
<1>4. FtQuiet
  <2>1. PICK x : ft' = [ft EXCEPT ![f].off = x]
    BY <1>2
  <2> QED BY <2>1, OffQuiet
<1>5. IcQuiet(p) /\ ProcQuiet(p) /\ Returned(p)
  BY <1>2, <1>3, SameQuiet, EntryQuiet, ReturnIs DEF Idle
<1> QED BY <1>3, <1>4, <1>5, QuietReturn DEF Idle

\* and every part of a write.
LEMMA StepWriteInode == ASSUME IInv, NEW p \in Procs, WriteInode(p) PROVE IInv'
<1>1. PICK f, s : f = FileOf(p) /\ s = ft[f].ip
  OBVIOUS
<1>2. /\ OnInode(p, "write") /\ Ilock(p) /\ c(p).n > 0 /\ UNCHANGED proc
      /\ \E d : ic' = Entry(ic, s, d, 0)
      /\ \E x : ft' = [ft EXCEPT ![f].off = x]
      /\ \/ \E x, y : Return(p, x, y)
         \/ Goto(p, "write") /\ \E n : loc' = [loc EXCEPT ![p].i = n]
  BY <1>1, Zenon DEF WriteInode
<1>3. pc[p] = "write" /\ ic[s].lock = 0
  <2>1. c(p).n # 0
    BY <1>2
  <2> QED BY <1>1, <1>2, <2>1, InodeCall
<1>4. FtQuiet
  <2>1. PICK x : ft' = [ft EXCEPT ![f].off = x]
    BY <1>2
  <2> QED BY <2>1, OffQuiet
<1>5. IcQuiet(p) /\ ProcQuiet(p)
  BY <1>2, <1>3, SameQuiet, EntryQuiet DEF Idle
<1>6. CASE \E x, y : Return(p, x, y)
  BY <1>3, <1>4, <1>5, <1>6, ReturnIs, QuietReturn DEF Idle
<1>7. CASE Goto(p, "write") /\ \E n : loc' = [loc EXCEPT ![p].i = n]
  <2>1. Moved(p, "write")
    BY <1>3, <1>7, MovedIs DEF Idle
  <2>2. c(p).fd \in OpenFds(p)
    BY <1>3, Typed DEF Place, Resume, Iputs
  <2> QED BY <1>3, <1>4, <1>5, <2>1, <2>2, QuietMove DEF Idle
<1> QED BY <1>2, <1>6, <1>7

\* A pipe is written, in parts.
LEMMA StepWritePipe == ASSUME IInv, NEW p \in Procs, WritePipe(p) PROVE IInv'
<1>1. /\ pc[p] = "write" /\ UNCHANGED <<ic, ft, proc>>
      /\ \/ \E x, y : Return(p, x, y)
         \/ Goto(p, "write") /\ \E n : loc' = [loc EXCEPT ![p].i = n]
  BY Zenon DEF WritePipe, OnPipe, At, UNCH_pipe
<1>2. IcQuiet(p) /\ FtQuiet /\ ProcQuiet(p)
  BY <1>1, SameQuiet DEF Idle
<1>3. CASE \E x, y : Return(p, x, y)
  BY <1>1, <1>2, <1>3, ReturnIs, QuietReturn DEF Idle
<1>4. CASE Goto(p, "write") /\ \E n : loc' = [loc EXCEPT ![p].i = n]
  <2>1. Moved(p, "write")
    BY <1>1, <1>4, MovedIs DEF Idle
  <2>2. c(p).fd \in OpenFds(p)
    BY <1>1, Typed DEF Place, Resume, Iputs
  <2> QED BY <1>1, <1>2, <2>1, <2>2, QuietMove DEF Idle
<1> QED BY <1>1, <1>3, <1>4

\* A descriptor call that is not refused has an open file.
LEMMA StepBeginFd == ASSUME IInv, NEW p \in Procs, BeginFd(p) PROVE IInv'
<1>1. PICK op \in {"read", "write", "fstat"} : op = c(p).op
  BY DEF BeginFd, User
<1>2. /\ pc[p] = "user" /\ proc[p].state = "used" /\ Goto(p, op) /\ UNCHANGED <<ic, ft, proc, loc>>
      /\ ~Refused(p)
  BY <1>1 DEF BeginFd, User, At
<1>3. c(p).fd \in OpenFds(p)
  <2> SUFFICES ASSUME BadFd(p) PROVE Refused(p)
    BY <1>2 DEF BadFd
  <2>1. ~OpenFile(p).readable /\ ~OpenFile(p).writable /\ OpenFile(p).type # "inode"
    BY DEF OpenFile, NoFile
  <2> QED BY <1>1, <2>1 DEF Refused, PathOps
<1>4. Moved(p, op)
  BY <1>2, MovedIs DEF Idle
<1>5. IcQuiet(p) /\ FtQuiet /\ ProcQuiet(p)
  BY <1>2, SameQuiet DEF Idle
<1>6. op \in Idle \ {"exited"} /\ pc[p] \in Idle \ {"exited"}
  BY <1>2 DEF Idle
<1> QED BY <1>3, <1>4, <1>5, <1>6, QuietMove

\* A process goes into exit().
LEMMA StepDie == ASSUME IInv, NEW p \in Procs, Die(p) PROVE IInv'
<1>1. /\ pc[p] = "user" /\ proc[p].state = "used" /\ Goto(p, "exit")
      /\ UNCHANGED <<ic, ft, proc, loc>>
  BY Zenon DEF Die, User, At
<1>2. Moved(p, "exit") /\ IcQuiet(p) /\ FtQuiet /\ ProcQuiet(p)
  BY <1>1, MovedIs, SameQuiet DEF Idle
<1> QED BY <1>1, <1>2, QuietMove DEF Idle

\* exit() has closed a file.
LEMMA StepExitEnd == ASSUME IInv, NEW p \in Procs, ExitEnd(p) PROVE IInv'
<1>1. /\ pc[p] = "exitend" /\ Goto(p, "exit") /\ UNCHANGED <<ic, ft, proc, loc>>
  BY Zenon DEF ExitEnd, At
<1>2. Moved(p, "exit") /\ IcQuiet(p) /\ FtQuiet /\ ProcQuiet(p)
  BY <1>1, MovedIs, SameQuiet DEF Idle
<1> QED BY <1>1, <1>2, QuietMove DEF Idle

\* A fault kills the process.
LEMMA StepTouch == ASSUME IInv, NEW p \in Procs, Touch(p) PROVE IInv'
<1>1. /\ pc[p] = "user" /\ proc[p].state = "used" /\ UNCHANGED <<ic, ft>>
      /\ \/ Return(p, 0, AnyData) /\ UNCHANGED proc
         \/ proc' = [proc EXCEPT ![p].killed = TRUE] /\ UNCHANGED <<pc, loc, todo>>
  BY Zenon DEF Touch, User, At, Stay
<1>2. CASE Return(p, 0, AnyData) /\ UNCHANGED proc
  BY <1>1, <1>2, PlainReturn DEF Idle
<1>3. CASE proc' = [proc EXCEPT ![p].killed = TRUE] /\ UNCHANGED <<pc, loc, todo>>
  <2>1. Moved(p, "user")
    BY <1>1, <1>3, IdleIs, Typed DEF Moved, OthersStay, Idle
  <2>2. IcQuiet(p) /\ FtQuiet /\ ProcQuiet(p)
    BY <1>1, <1>3, SameQuiet, VmQuiet DEF Idle
  <2> QED BY <1>1, <2>1, <2>2, QuietMove DEF Idle
<1> QED BY <1>1, <1>2, <1>3

\* init frees a zombie without a parent.
LEMMA StepInitReaps == ASSUME IInv, NEW q \in Procs, InitReaps(q) PROVE IInv'
<1>1. /\ pc[q] = "user" /\ proc[q].state = "zombie" /\ proc' = [proc EXCEPT ![q] = NoProc]
      /\ UNCHANGED <<ic, ft, pc, loc, todo>>
  BY Zenon DEF InitReaps, At, Reap
<1>2. DOMAIN proc = Procs /\ \A x \in Procs : ProcRec(proc[x])
  BY DEF IInv, ProcOK
<1>3. proc[q].cwd = 0 /\ NoFiles(q)
  BY <1>1, Typed DEF Place
<1>4. /\ ProcRec(NoProc) /\ NoProc.cwd = 0 /\ NoProc.ofile = [fd \in Fds |-> 0]
  BY ZeroSlot DEF NoProc, ProcFields, ProcRec
<1>5. proc[q].ofile = [fd \in Fds |-> 0]
  BY <1>2, <1>3 DEF NoFiles, ProcRec
<1>6. DOMAIN proc' = Procs /\ proc'[q] = NoProc /\ \A x \in Procs \ {q} : proc'[x] = proc[x]
  BY <1>1, <1>2
<1>7. ProcOK' /\ FtOK' /\ OthersStay(q) /\ LocRec(loc'[q])
  BY <1>1, <1>2, <1>4, <1>6, Typed DEF ProcOK, OthersStay, IInv, FtOK
<1>8. Place(q)'
  <2>1. NoFiles(q)' /\ c(q)' = c(q) /\ Resume(q)' = "user" /\ Resume(q) = "user"
    BY <1>1, <1>4, <1>6 DEF NoFiles, c, Resume, Iputs
  <2> QED BY <1>1, <1>4, <1>6, <2>1, Typed DEF Place
<1>9. LocksFollow(q)
  <2>1. Kept(q)' = Kept(q) /\ Freeing(q)' = Freeing(q)
    BY <1>1 DEF Kept, Freeing, Resume
  <2> QED BY <1>1, <2>1, Typed DEF LocksFollow
<1>10. 1 \in FileIds
  BY CallsAssumption DEF FileIds
<1>11. \A s \in Slots :
            ic'[s].ref + (Held(loc[q], s) + InCwd(proc[q], loc[q], s)) + Is(ft[1].ip, s)
             = ic[s].ref + (Held(loc'[q], s) + InCwd(proc'[q], loc'[q], s)) + Is(ft'[1].ip, s)
  <2>1. \A s : InCwd(proc'[q], loc'[q], s) = InCwd(proc[q], loc[q], s)
    BY <1>1, <1>3, <1>4, <1>6 DEF InCwd
  <2> QED BY <1>1, <2>1
<1>12. \A f \in FileIds : ft'[f].ref + Fdn(proc[q].ofile, f) = ft[f].ref + Fdn(proc'[q].ofile, f)
  BY <1>1, <1>4, <1>5, <1>6
<1> QED BY <1>1, <1>6, <1>7, <1>8, <1>9, <1>10, <1>11, <1>12, Typed, AnyStep

\* exit() ends: a zombie without a directory.
LEMMA StepExited == ASSUME IInv, NEW p \in Procs, Exited(p) PROVE IInv'
<1>1. /\ pc[p] = "exited" /\ UNCHANGED <<ic, ft>>
      /\ proc' = [q \in Procs |-> IF q = p THEN [proc[q] EXCEPT !.state = "zombie", !.cwd = 0]
                               ELSE IF proc[q].parent = p THEN [proc[q] EXCEPT !.parent = 0]
                               ELSE proc[q]]
      /\ pc' = [pc EXCEPT ![p] = "user"] /\ loc' = [loc EXCEPT ![p] = NoLoc]
      /\ todo' = [todo EXCEPT ![p] = <<>>]
  BY Zenon DEF Exited, At
<1>2. DOMAIN proc = Procs /\ \A x \in Procs : ProcRec(proc[x])
  BY DEF IInv, ProcOK
<1>3. /\ loc[p].cur = 0 /\ loc[p].ip = 0 /\ loc[p].dp = 0 /\ loc[p].put = 0
      /\ loc[p].then = "exited" /\ NoFiles(p) /\ \A u \in Slots : ic[u].lock # p
  <2>1. /\ Resume(p) = "exited" /\ loc[p].put = 0 /\ Fits("exited", loc[p], c(p).op)
        /\ \A u \in Slots : ic[u].lock = p <=> u \in KeptAt("exited", loc[p])
    BY <1>1, AtIs DEF Iputs
  <2>2. loc[p].then = "exited" /\ NoFiles(p)
    BY <2>1, Typed DEF Place, Ends
  <2> QED BY <2>1, <2>2 DEF Fits, KeptAt, IpAt, DpAt
<1>4. Returned(p)
  BY <1>1, Typed DEF Returned, OthersStay
<1>5. ASSUME NEW q \in Procs, q # p
      PROVE  /\ DOMAIN proc'[q] = ProcFields /\ proc'[q].cwd = proc[q].cwd
             /\ proc'[q].ofile = proc[q].ofile /\ proc'[q].state = proc[q].state
  BY <1>1, <1>2, <1>5 DEF ProcRec, ProcFields
<1>6. /\ DOMAIN proc'[p] = ProcFields /\ proc'[p].cwd = 0 /\ proc'[p].ofile = proc[p].ofile
      /\ proc'[p].state = "zombie"
  BY <1>1, <1>2 DEF ProcRec, ProcFields
<1>7. ProcOK' /\ FtOK'
  <2>1. DOMAIN proc' = Procs
    BY <1>1
  <2>2. FtOK'
    BY <1>1 DEF IInv, FtOK
  <2> QED BY <1>2, <1>5, <1>6, <2>1, <2>2, ZeroSlot DEF ProcOK, ProcRec
<1>8. PICK r : r = NoLoc
  OBVIOUS
<1>9. /\ LocRec(r) /\ r.cur = 0 /\ r.ip = 0 /\ r.dp = 0 /\ r.put = 0 /\ r.then = ""
  BY <1>8, NoLocIs
<1>10. OthersStay(p) /\ pc'[p] = "user" /\ loc'[p] = r /\ Resume(p)' = "user"
  BY <1>4, <1>8 DEF Returned, Resume, Iputs
<1>11. Place(p)'
  <2>1. Fits("user", r, c(p)'.op)
    BY <1>9 DEF Fits, Idle
  <2>2. NoFiles(p)'
    BY <1>3, <1>6 DEF NoFiles
  <2> QED BY <1>6, <1>9, <1>10, <2>1, <2>2 DEF Place, Ends
<1>12. LocksFollow(p)
  <2>1. Kept(p)' = {} /\ Freeing(p)' = {}
    BY <1>10 DEF Kept, KeptAt, Freeing
  <2> QED BY <1>1, <1>3, <2>1 DEF LocksFollow
<1>13. 1 \in FileIds
  BY CallsAssumption DEF FileIds
<1>14. ASSUME NEW u \in Slots
       PROVE  ic'[u].ref + (Held(loc[p], u) + InCwd(proc[p], loc[p], u)) + Is(ft[1].ip, u)
             = ic[u].ref + (Held(loc'[p], u) + InCwd(proc'[p], loc'[p], u)) + Is(ft'[1].ip, u)
  <2>1. Held(r, u) = 0 /\ Held(loc[p], u) = 0
    BY <1>3, <1>9, HoldsNone
  <2>2. InCwd(proc[p], loc[p], u) = 0
    BY <1>3 DEF InCwd, Ends
  <2>3. InCwd(proc'[p], r, u) = 0
    BY <1>6, NotZero DEF InCwd
  <2> QED BY <1>1, <1>10, <2>1, <2>2, <2>3
<1>15. \A f \in FileIds : ft'[f].ref + Fdn(proc[p].ofile, f) = ft[f].ref + Fdn(proc'[p].ofile, f)
  BY <1>1, <1>6
<1>16. /\ \A q \in Procs \ {p} : /\ proc'[q].cwd = proc[q].cwd /\ proc'[q].ofile = proc[q].ofile
                                /\ proc'[q].state = proc[q].state
       /\ IcSet(ic') /\ One(ic') /\ LocRec(loc'[p])
       /\ \A f \in FileIds \ {1} : ft'[f].ip = ft[f].ip
  BY <1>1, <1>5, <1>9, <1>10, Typed
<1> QED BY <1>7, <1>10, <1>11, <1>12, <1>13, <1>14, <1>15, <1>16, AnyStep

\* chdir() has dropped the old directory: the new one takes its place.
LEMMA StepCd == ASSUME IInv, NEW p \in Procs, Cd(p) PROVE IInv'
<1>1. PICK x : x = loc[p].ip
  OBVIOUS
<1>2. /\ pc[p] = "cd" /\ UNCHANGED <<ic, ft>> /\ proc' = [proc EXCEPT ![p].cwd = x]
      /\ Return(p, 0, AnyData)
  BY <1>1, Zenon DEF Cd, At
<1>3. /\ loc[p].cur = 0 /\ loc[p].ip = x /\ loc[p].dp = 0 /\ loc[p].put = 0 /\ x \in Slots0
      /\ loc[p].then = "cd" /\ proc[p].state = "used" /\ \A u \in Slots : ic[u].lock # p
  BY <1>1, <1>2, AtIs, Typed DEF Fits, KeptAt, IpAt, DpAt, Iputs, Ends, Place, LocRec
<1>4. DOMAIN proc = Procs /\ \A q \in Procs : ProcRec(proc[q])
  BY DEF IInv, ProcOK
<1>5. /\ DOMAIN proc' = Procs /\ \A q \in Procs \ {p} : proc'[q] = proc[q]
      /\ DOMAIN proc'[p] = ProcFields /\ proc'[p].cwd = x /\ proc'[p].ofile = proc[p].ofile
      /\ proc'[p].state = "used"
  BY <1>2, <1>3, <1>4 DEF ProcRec, ProcFields
<1>6. ProcOK' /\ FtOK' /\ OthersKeep(p)
  BY <1>2, <1>3, <1>4, <1>5 DEF ProcOK, ProcRec, IInv, FtOK, OthersKeep
<1>7. 1 \in FileIds
  BY CallsAssumption DEF FileIds
<1>8. ASSUME NEW u \in Slots
      PROVE  ic'[u].ref + (Held(loc[p], u) + InCwd(proc[p], loc[p], u)) + Is(ft[1].ip, u)
              = ic[u].ref + Is(proc'[p].cwd, u) + Is(ft'[1].ip, u)
  <2>1. InCwd(proc[p], loc[p], u) = 0
    BY <1>3 DEF InCwd, Ends
  <2>2. Held(loc[p], u) = Is(x, u)
    BY <1>3, NotZero DEF Held, Is
  <2> QED BY <1>2, <1>5, <2>1, <2>2, IsNat
<1>9. \A f \in FileIds : ft'[f].ref + Fdn(proc[p].ofile, f) = ft[f].ref + Fdn(proc'[p].ofile, f)
  BY <1>2, <1>5
<1>10. Returned(p) /\ OthersLocks(p) /\ IcSet(ic') /\ One(ic') /\ \A u \in Slots : ic'[u].lock # p
  BY <1>2, <1>3, ReturnIs, Typed DEF OthersLocks
<1> QED BY <1>2, <1>5, <1>6, <1>7, <1>8, <1>9, <1>10, ReturnStep

-----------------------------------------------------------------------------
(* Files and descriptors.                                                  *)

\* The least free file or descriptor is one of them.
LEMMA MinFile ==
  /\ \A S \in SUBSET FileIds : S # {} => Min(S) \in S
  /\ \A S \in SUBSET Fds : S # {} => Min(S) \in S
<1>1. NFILE \in Nat /\ NOFILE - 1 \in Nat
  BY CallsAssumption
<1>2. ASSUME NEW S \in SUBSET FileIds, S # {} PROVE Min(S) \in S
  <2>1. S \in SUBSET (0 .. NFILE)
    BY <1>1 DEF FileIds
  <2> QED BY <1>1, <1>2, <2>1, MinIn
<1>3. ASSUME NEW S \in SUBSET Fds, S # {} PROVE Min(S) \in S
  <2>1. S \in SUBSET (0 .. NOFILE - 1)
    BY DEF Fds
  <2> QED BY <1>1, <1>3, <2>1, MinIn
<1> QED BY <1>2, <1>3

\* What a step does to the file g and the descriptors of p agrees: all but the
\* entry that g holds.
Counts(p, g) ==
    /\ FtOK' /\ ProcOK' /\ OthersKeep(p) /\ proc'[p].state = "used" /\ proc'[p].cwd = proc[p].cwd
    /\ \A f \in FileIds \ {g} : ft'[f].ip = ft[f].ip
    /\ \A f \in FileIds : ft'[f].ref + Fdn(proc[p].ofile, f) = ft[f].ref + Fdn(proc'[p].ofile, f)

\* The file table and the process table, from the invariant.
LEMMA FilesTyped ==
  IInv => /\ DOMAIN ft = FileIds /\ \A f \in FileIds : FileRec(ft[f])
          /\ DOMAIN proc = Procs /\ \A q \in Procs : ProcRec(proc[q])
          /\ 0 \notin FileIds
BY DEF IInv, FtOK, ProcOK, FileIds

\* The descriptor fd of p is given the file x; the file g becomes r.
FdSet(p, fd, x) == proc' = [proc EXCEPT ![p].ofile[fd] = x]
FileSet(g, r) == ft' = [ft EXCEPT ![g] = r]

\* One descriptor of p is given the file x.
LEMMA SetFd ==
  ASSUME IInv, NEW p \in Procs, NEW fd \in Fds, NEW x \in FileIds \cup {0}, FdSet(p, fd, x)
  PROVE  /\ ProcOK' /\ OthersKeep(p) /\ proc'[p].state = proc[p].state /\ proc'[p].cwd = proc[p].cwd
         /\ \A f : /\ Fdn(proc[p].ofile, f) \in Nat /\ Fdn(proc'[p].ofile, f) \in Nat
                   /\ Fdn(proc'[p].ofile, f) + Is(proc[p].ofile[fd], f)
                        = Fdn(proc[p].ofile, f) + Is(x, f)
<1>1. PICK o : o = proc[p].ofile
  OBVIOUS
<1>2. o \in [Fds -> FileIds \cup {0}] /\ DOMAIN proc[p] = ProcFields
  BY <1>1, FilesTyped DEF ProcRec
<1>3. PICK u : u = [o EXCEPT ![fd] = x]
  OBVIOUS
<1>4. u \in [Fds -> FileIds \cup {0}] /\ SetTo(o, u, fd, x)
  BY <1>2, <1>3 DEF SetTo
<1>5. /\ DOMAIN proc' = Procs /\ \A q \in Procs \ {p} : proc'[q] = proc[q]
      /\ DOMAIN proc'[p] = ProcFields /\ proc'[p].state = proc[p].state
      /\ proc'[p].cwd = proc[p].cwd /\ proc'[p].ofile = u
  BY <1>1, <1>2, <1>3, FilesTyped DEF ProcFields, FdSet
<1>6. ProcOK' /\ OthersKeep(p)
  BY <1>4, <1>5, FilesTyped DEF ProcOK, ProcRec, OthersKeep
<1>7. ASSUME NEW f
      PROVE  /\ Fdn(o, f) \in Nat /\ Fdn(u, f) \in Nat
             /\ Fdn(u, f) + Is(o[fd], f) = Fdn(o, f) + Is(x, f)
  BY <1>4, FdnSet
<1> QED BY <1>1, <1>5, <1>6, <1>7

\* One file and one descriptor of p change, which is open for that file before
\* or after the step.
LEMMA CountsIs ==
  ASSUME IInv, NEW p \in Procs, proc[p].state = "used", NEW fd \in Fds, NEW x \in FileIds \cup {0},
         FdSet(p, fd, x),
         NEW g \in FileIds, NEW r, FileSet(g, r), FileRec(r),
         \/ proc[p].ofile[fd] = 0 /\ x = g /\ r.ref = ft[g].ref + 1
         \/ proc[p].ofile[fd] = g /\ x = 0 /\ r.ref + 1 = ft[g].ref
  PROVE  Counts(p, g) /\ ft'[g].ip = r.ip
<1>1. /\ DOMAIN ft' = FileIds /\ ft'[g] = r /\ \A f \in FileIds \ {g} : ft'[f] = ft[f]
  BY FilesTyped DEF FileSet
<1>2. FtOK'
  BY <1>1, FilesTyped DEF FtOK
<1>3. ASSUME NEW f \in FileIds
      PROVE  ft'[f].ref + Fdn(proc[p].ofile, f) = ft[f].ref + Fdn(proc'[p].ofile, f)
  <2>1. PICK a, b : a = Fdn(proc[p].ofile, f) /\ b = Fdn(proc'[p].ofile, f)
    OBVIOUS
  <2>2. a \in Nat /\ b \in Nat /\ b + Is(proc[p].ofile[fd], f) = a + Is(x, f)
    BY <2>1, SetFd
  <2>3. ft'[f].ref \in Nat /\ ft[f].ref \in Nat /\ r.ref \in Nat
    BY <1>2, FilesTyped DEF FtOK, FileRec
  <2>4. CASE f = g
    <3>1. \/ Is(proc[p].ofile[fd], f) = 0 /\ Is(x, f) = 1 /\ r.ref = ft[g].ref + 1
          \/ Is(proc[p].ofile[fd], f) = 1 /\ Is(x, f) = 0 /\ r.ref + 1 = ft[g].ref
      BY <2>4, FilesTyped DEF Is
    <3>2. ft'[f].ref = r.ref
      BY <1>1, <2>4
    <3> QED BY <2>1, <2>2, <2>3, <2>4, <3>1, <3>2
  <2>5. CASE f # g
    <3>1. Is(proc[p].ofile[fd], f) = 0 /\ Is(x, f) = 0
      BY <2>5, FilesTyped DEF Is
    <3>2. ft'[f].ref = ft[f].ref
      BY <1>1, <2>5
    <3> QED BY <2>1, <2>2, <2>3, <3>1, <3>2
  <2> QED BY <2>4, <2>5
<1>4. ProcOK' /\ OthersKeep(p) /\ proc'[p].state = proc[p].state /\ proc'[p].cwd = proc[p].cwd
  BY SetFd
<1> QED BY <1>1, <1>2, <1>3, <1>4 DEF Counts

\* A call that has changed a file and a descriptor returns.
LEMMA CountReturn ==
  ASSUME IInv, NEW p \in Procs, NEW g \in FileIds, Counts(p, g), Returned(p), IcQuiet(p),
         loc[p].then \notin Ends,
         \A u \in Slots : Held(loc[p], u) + Is(ft[g].ip, u) = Is(ft'[g].ip, u)
  PROVE  IInv'
<1>1. ASSUME NEW u \in Slots
      PROVE  ic'[u].ref + (Held(loc[p], u) + InCwd(proc[p], loc[p], u)) + Is(ft[g].ip, u)
              = ic[u].ref + Is(proc'[p].cwd, u) + Is(ft'[g].ip, u)
  <2>1. ic'[u].ref = ic[u].ref /\ proc'[p].cwd = proc[p].cwd
    BY DEF IcQuiet, Counts
  <2>2. InCwd(proc[p], loc[p], u) = Is(proc[p].cwd, u)
    BY DEF InCwd, Is
  <2>3. /\ ic[u].ref \in Nat /\ Held(loc[p], u) \in Nat /\ Is(proc[p].cwd, u) \in Nat
        /\ Is(ft[g].ip, u) \in Nat /\ Is(ft'[g].ip, u) \in Nat
        /\ Held(loc[p], u) + Is(ft[g].ip, u) = Is(ft'[g].ip, u)
    BY RefNat, HeldNat, IsNat
  <2> QED BY <2>1, <2>2, <2>3
<1> QED BY <1>1, ReturnStep DEF Counts, IcQuiet

\* The file of an open descriptor.
LEMMA OpenIs ==
  ASSUME IInv, NEW p \in Procs, NEW fd \in OpenFds(p)
  PROVE  fd \in Fds /\ proc[p].ofile[fd] \in FileIds
BY FilesTyped DEF OpenFds, ProcRec

\* dup(): a descriptor and a reference more.
LEMMA StepDup == ASSUME IInv, NEW p \in Procs, Dup(p) PROVE IInv'
<1>1. PICK f, d : f = FileOf(p) /\ d = Min(FreeFds(p))
  OBVIOUS
<1>2. /\ pc[p] = "user" /\ proc[p].state = "used" /\ UNCHANGED ic /\ Return(p, d, AnyData)
      /\ FdSet(p, d, f) /\ ft' = [ft EXCEPT ![f].ref = @ + 1]
      /\ ~Refused(p) /\ c(p).op = "dup"
  BY <1>1, Zenon DEF Dup, User, At, FdSet
<1>3. c(p).fd \in OpenFds(p) /\ FreeFds(p) # {}
  BY <1>2 DEF Refused, BadFd, PathOps
<1>4. f \in FileIds /\ d \in Fds /\ proc[p].ofile[d] = 0
  BY <1>1, <1>3, OpenIs, MinFile DEF FileOf, FreeFds
<1>5. PICK r : r = [ft[f] EXCEPT !.ref = @ + 1]
  OBVIOUS
<1>6. FileRec(r) /\ r.ref = ft[f].ref + 1 /\ r.ip = ft[f].ip /\ FileSet(f, r)
  <2>1. FileRec(ft[f]) /\ ft[f].ref > 0
    <3>1. FileRec(ft[f]) /\ ft[f].ref = Cardinality(FdsOf(proc, f))
      BY <1>4, FilesTyped, RefsAre DEF IInv
    <3>2. <<p, c(p).fd>> \in FdsOf(proc, f)
      BY <1>1, <1>3 DEF FdsOf, OpenFds, FileOf
    <3>3. IsFiniteSet(FdsOf(proc, f))
      BY Finites, FS_Subset DEF FdsOf
    <3> QED BY <3>1, <3>2, <3>3, FS_EmptySet, FS_CardinalityType DEF FileRec
  <2>2. FileRec(r) /\ r.ref = ft[f].ref + 1 /\ r.ip = ft[f].ip
    BY <1>5, <2>1 DEF FileRec, FileFields
  <2> QED BY <1>2, <1>5, <2>2 DEF FileSet
<1>7. Counts(p, f) /\ ft'[f].ip = r.ip
  BY <1>2, <1>4, <1>6, CountsIs
<1>8. IcQuiet(p) /\ Returned(p)
  BY <1>2, SameQuiet, ReturnIs DEF Idle
<1>9. loc[p].then \notin Ends
  BY <1>2, IdleIs DEF Idle
<1>10. \A u \in Slots : Held(loc[p], u) + Is(ft[f].ip, u) = Is(ft'[f].ip, u)
  BY <1>2, <1>6, <1>7, IdleIs, IsNat DEF Idle
<1> QED BY <1>4, <1>7, <1>8, <1>9, <1>10, CountReturn


\* The files with no reference, of which the least is taken.
LEMMA FreeIs ==
  ASSUME IInv, NEW f \in FreeFiles
  PROVE  f \in FileIds /\ ft[f].ref = 0 /\ ft[f].ip = 0
BY FilesTyped DEF FreeFiles, FileRec

\* open() has its inode locked: the reference goes to the new file, or to iput().
LEMMA StepOpened == ASSUME IInv, NEW p \in Procs, Opened(p) PROVE IInv'
<1>1. PICK s, f, d : s = loc[p].ip /\ f = Min(FreeFiles) /\ d = Min(FreeFds(p))
  OBVIOUS
<1>2. pc[p] = "opened"
  BY DEF Opened, At
<1>3. \/ ic' = SetLock(ic, s, 0) /\ PutThen(p, s, "fail", NoLoc) /\ UNCHANGED <<ft, proc>>
      \/ /\ ic' = SetLock(ic, s, 0) /\ FreeFiles # {} /\ FreeFds(p) # {}
         /\ \E r : FileSet(f, r) /\ r.ref = 1 /\ r.ip = s /\ DOMAIN r = FileFields /\ r.type = "inode"
         /\ FdSet(p, d, f) /\ Return(p, d, AnyData)
  <2>1. CASE FreeFiles = {} \/ FreeFds(p) = {}
    BY <1>1, <2>1, Zenon DEF Opened, UnlockPut, SetLock
  <2>2. CASE ~(FreeFiles = {} \/ FreeFds(p) = {})
    <3>1. PICK r : r = [NoFile EXCEPT !.ref = 1, !.type = "inode", !.ip = s,
                                      !.readable = "WRONLY" \notin c(p).mode,
                                      !.writable = c(p).mode \cap {"WRONLY", "RDWR"} # {}]
      OBVIOUS
    <3>2. ft' = [ft EXCEPT ![f] = r]
      BY <1>1, <2>2, <3>1 DEF Opened
    <3>3. r.ref = 1 /\ r.ip = s /\ DOMAIN r = FileFields /\ r.type = "inode"
      BY <3>1 DEF NoFile, FileFields
    <3>4. FileSet(f, r)
      BY <3>2 DEF FileSet
    <3>5. /\ ic' = SetLock(ic, s, 0) /\ FdSet(p, d, f) /\ Return(p, d, AnyData)
      BY <1>1, <2>2, Zenon DEF Opened, SetLock, FdSet
    <3> QED BY <2>2, <3>3, <3>4, <3>5
  <2> QED BY <2>1, <2>2
<1>4. /\ loc[p].cur = 0 /\ loc[p].ip = s /\ loc[p].dp = 0 /\ loc[p].put = 0
      /\ loc[p].then \notin Ends /\ proc[p].state = "used" /\ s \in Slots0
      /\ \A u \in Slots : ic[u].lock = p <=> u = s
  BY <1>1, <1>2, AtIs, Typed DEF Fits, KeptAt, IpAt, DpAt, Iputs, Ends, LocRec
<1>5. /\ IcSet(ic') /\ One(ic')
      /\ \A u \in Slots : /\ ic'[u].ref = ic[u].ref
                          /\ ic'[u].lock = IF u = s THEN 0 ELSE ic[u].lock
  BY <1>3, LockIs, Typed
<1>6. OthersLocks(p) /\ \A u \in Slots : ic'[u].lock # p
  BY <1>4, <1>5, NotZero DEF OthersLocks
<1>7. \A u \in Slots : Held(loc[p], u) = Is(s, u)
  BY <1>4, NotZero DEF Held, Is
<1>8. CASE PutThen(p, s, "fail", NoLoc) /\ UNCHANGED <<ft, proc>>
  <2>1. PICK r : r = NoLoc
    OBVIOUS
  <2>2. LocRec(r) /\ r.cur = 0 /\ r.ip = 0 /\ r.dp = 0 /\ r.put = 0 /\ r.then = ""
    BY <2>1, NoLocIs
  <2>3. Fits("fail", r, c(p).op) /\ "fail" \notin Elsewhere \cup Iputs
    BY <2>2 DEF Fits, Idle, Elsewhere, Iputs, Ends
  <2>4. ASSUME NEW u \in Slots
        PROVE  Held(loc[p], u) + Is(u, 0) = Is(r.cur, u) + Is(r.ip, u) + Is(r.dp, u) + Is(s, u)
    <3>1. Is(u, 0) = 0 /\ Is(r.cur, u) = 0 /\ Is(r.ip, u) = 0 /\ Is(r.dp, u) = 0
      BY <2>2, IsNat
    <3>2. Held(loc[p], u) = Is(s, u) /\ Is(s, u) \in Nat
      BY <1>7, IsNat
    <3> QED BY <3>1, <3>2
  <2>5. \A u \in Slots : ic'[u].lock = p <=> u \in KeptAt("fail", r)
    BY <1>6 DEF KeptAt
  <2>6. \A u \in Slots : ic'[u].ref = ic[u].ref + Is(u, 0)
    BY <1>5, IsNat, RefNat
  <2>7. PutThen(p, s, "fail", r)
    BY <1>8, <2>1
  <2>8. Puts(p, 0, s, "fail", r)
    BY <1>4, <1>5, <1>6, <1>8, <2>2, <2>3, <2>4, <2>5, <2>6, <2>7 DEF Puts, InCall
  <2> QED BY <2>8, PutStep
<1>9. CASE /\ FreeFiles # {} /\ FreeFds(p) # {}
           /\ \E r : FileSet(f, r) /\ r.ref = 1 /\ r.ip = s /\ DOMAIN r = FileFields /\ r.type = "inode"
           /\ FdSet(p, d, f) /\ Return(p, d, AnyData)
  <2>1. PICK r : FileSet(f, r) /\ r.ref = 1 /\ r.ip = s /\ DOMAIN r = FileFields /\ r.type = "inode"
    BY <1>9
  <2>2. FileRec(r)
    BY <1>4, <2>1 DEF FileRec
  <2>3. f \in FreeFiles /\ d \in Fds /\ proc[p].ofile[d] = 0
    BY <1>1, <1>9, MinFile DEF FreeFiles, FreeFds
  <2>4. f \in FileIds /\ ft[f].ref = 0 /\ ft[f].ip = 0
    BY <2>3, FreeIs
  <2>5. Counts(p, f) /\ ft'[f].ip = s
    BY <1>4, <1>9, <2>1, <2>2, <2>3, <2>4, CountsIs
  <2>6. IcQuiet(p) /\ Returned(p)
    BY <1>5, <1>6, <1>9, ReturnIs DEF IcQuiet
  <2>7. \A u \in Slots : Held(loc[p], u) + Is(ft[f].ip, u) = Is(ft'[f].ip, u)
    BY <1>7, <2>4, <2>5, IsNat
  <2> QED BY <1>4, <2>4, <2>5, <2>6, <2>7, CountReturn
<1> QED BY <1>3, <1>8, <1>9

\* A descriptor of p for the file f is closed.
Fewer(f) == ft' = [ft EXCEPT ![f].ref = @ - 1]
Gone(f) == FileSet(f, NoFile)
Closes(f) == \/ ft[f].ref > 1 /\ Fewer(f)
             \/ ft[f].ref = 1 /\ Gone(f)

\* Closing a descriptor drops one reference of its file, the last with the inode.
LEMMA ClosedIs ==
  ASSUME IInv, NEW p \in Procs, proc[p].state = "used", NEW fd \in OpenFds(p),
         NEW f, f = proc[p].ofile[fd], FdSet(p, fd, 0), Closes(f)
  PROVE  /\ f \in FileIds /\ Counts(p, f)
         /\ ft[f].ref > 1 => ft'[f].ip = ft[f].ip
         /\ ft[f].ref = 1 => ft'[f].ip = 0
<1>1. fd \in Fds /\ f \in FileIds
  BY OpenIs
<1>2. FileRec(ft[f])
  BY <1>1, FilesTyped
<1>3. CASE ft[f].ref > 1 /\ Fewer(f)
  <2>1. PICK r : r = [ft[f] EXCEPT !.ref = @ - 1]
    OBVIOUS
  <2>2. FileRec(r) /\ r.ref + 1 = ft[f].ref /\ r.ip = ft[f].ip
    BY <1>2, <1>3, <2>1 DEF FileRec, FileFields
  <2>3. FileSet(f, r)
    BY <1>3, <2>1 DEF Fewer, FileSet
  <2>4. Counts(p, f) /\ ft'[f].ip = r.ip
    BY <1>1, <2>2, <2>3, CountsIs
  <2> QED BY <1>1, <1>3, <2>2, <2>4
<1>4. CASE ft[f].ref = 1 /\ Gone(f)
  <2>1. PICK r : r = NoFile
    OBVIOUS
  <2>2. FileRec(r) /\ r.ref = 0 /\ r.ip = 0
    BY <2>1, ZeroSlot DEF FileRec, FileFields, NoFile
  <2>3. FileSet(f, r)
    BY <1>4, <2>1 DEF Gone
  <2>4. Counts(p, f) /\ ft'[f].ip = r.ip
    BY <1>1, <1>4, <2>2, <2>3, CountsIs
  <2> QED BY <1>1, <1>4, <2>2, <2>4
<1> QED BY <1>3, <1>4 DEF Closes

\* A process on its way out has closed a descriptor.
LEMMA CountMove ==
  ASSUME IInv, NEW p \in Procs, pc[p] \in Idle \ {"exited"}, Moved(p, "exit"), NEW g \in FileIds,
         Counts(p, g), IcQuiet(p), \A u \in Slots : Is(ft'[g].ip, u) = Is(ft[g].ip, u)
  PROVE  IInv'
<1>1. PICK r : r = loc'[p]
  OBVIOUS
<1>2. /\ OthersStay(p) /\ todo'[p] = todo[p] /\ pc'[p] = "exit" /\ LocRec(r)
      /\ r.cur = 0 /\ r.ip = 0 /\ r.dp = 0 /\ r.put = 0 /\ r.then \notin Ends
  BY <1>1 DEF Moved
<1>3. Resume(p)' = "exit" /\ Kept(p)' = {} /\ Freeing(p)' = {}
  BY <1>2 DEF Resume, Kept, KeptAt, Freeing, Iputs
<1>4. Place(p)'
  <2>1. Fits("exit", r, c(p)'.op)
    BY <1>2 DEF Fits, Idle
  <2>2. proc'[p].state = "used" /\ "exit" \notin Ends
    BY DEF Counts, Ends
  <2> QED BY <1>1, <1>2, <1>3, <2>1, <2>2 DEF Place
<1>5. LocksFollow(p)
  BY <1>3 DEF LocksFollow, IcQuiet, OthersLocks
<1>6. ASSUME NEW u \in Slots
      PROVE  ic'[u].ref + (Held(loc[p], u) + InCwd(proc[p], loc[p], u)) + Is(ft[g].ip, u)
             = ic[u].ref + (Held(loc'[p], u) + InCwd(proc'[p], loc'[p], u)) + Is(ft'[g].ip, u)
  <2>1. ic'[u].ref = ic[u].ref /\ proc'[p].cwd = proc[p].cwd /\ Is(ft'[g].ip, u) = Is(ft[g].ip, u)
    BY DEF IcQuiet, Counts
  <2>2. Held(loc[p], u) = 0 /\ InCwd(proc[p], loc[p], u) = Is(proc[p].cwd, u)
    BY IdleIs
  <2>3. Held(r, u) = 0
    BY <1>2, HoldsNone
  <2>4. InCwd(proc'[p], r, u) = Is(proc'[p].cwd, u)
    BY <1>2 DEF InCwd, Is
  <2> QED BY <1>1, <2>1, <2>2, <2>3, <2>4
<1> QED BY <1>1, <1>2, <1>4, <1>5, <1>6, AnyStep DEF IcQuiet, Counts, OthersKeep

\* The last descriptor of an inode is closed: the reference of the file g goes
\* to the iput() of p.
LEMMA ClosePut ==
  ASSUME IInv, NEW p \in Procs, pc[p] \in Idle \ {"exited"}, NEW l \in {"ok", "exitend"},
         NEW g \in FileIds, Counts(p, g), IcQuiet(p), ft'[g].ip = 0,
         PutThen(p, ft[g].ip, l, NoLoc)
  PROVE  IInv'
<1>1. PICK s, r : s = ft[g].ip /\ r = NoLoc
  OBVIOUS
<1>2. LocRec(r) /\ r.cur = 0 /\ r.ip = 0 /\ r.dp = 0 /\ s \in Slots0
  BY <1>1, NoLocIs, FilesTyped DEF FileRec
<1>3. PutThen(p, s, l, r)
  BY <1>1
<1>4. PICK n : n = loc'[p]
  OBVIOUS
<1>5. /\ OthersStay(p) /\ todo'[p] = todo[p] /\ pc'[p] = "put" /\ Resume(p)' = l
      /\ LocRec(n) /\ n.then = l /\ n.put = s /\ n.cur = 0 /\ n.ip = 0 /\ n.dp = 0
  BY <1>2, <1>3, <1>4, PutThenIs
<1>6. Place(p)'
  <2>1. Fits(l, n, c(p)'.op)
    BY <1>5 DEF Fits, Idle
  <2>2. proc'[p].state = "used" /\ l \notin Ends
    BY DEF Counts, Ends
  <2> QED BY <1>4, <1>5, <2>1, <2>2 DEF Place, Iputs
<1>7. LocksFollow(p)
  <2>1. Kept(p)' = {} /\ Freeing(p)' = {}
    BY <1>5 DEF Kept, KeptAt, Freeing
  <2> QED BY <2>1 DEF LocksFollow, IcQuiet, OthersLocks
<1>8. ASSUME NEW u \in Slots
      PROVE  ic'[u].ref + (Held(loc[p], u) + InCwd(proc[p], loc[p], u)) + Is(ft[g].ip, u)
             = ic[u].ref + (Held(loc'[p], u) + InCwd(proc'[p], loc'[p], u)) + Is(ft'[g].ip, u)
  <2>1. ic'[u].ref = ic[u].ref /\ proc'[p].cwd = proc[p].cwd /\ Is(ft'[g].ip, u) = 0
    BY IsNat DEF IcQuiet, Counts
  <2>2. Held(loc[p], u) = 0 /\ InCwd(proc[p], loc[p], u) = Is(proc[p].cwd, u)
    BY IdleIs
  <2>3. Held(n, u) = Is(s, u)
    BY <1>5, IsNat DEF Held
  <2>4. InCwd(proc'[p], n, u) = Is(proc'[p].cwd, u)
    BY <1>5 DEF InCwd, Is, Ends
  <2>5. ic[u].ref \in Nat /\ Is(s, u) \in Nat /\ Is(proc[p].cwd, u) \in Nat
    BY RefNat, IsNat
  <2> QED BY <1>1, <1>4, <2>1, <2>2, <2>3, <2>4, <2>5
<1> QED BY <1>4, <1>5, <1>6, <1>7, <1>8, AnyStep DEF IcQuiet, Counts, OthersKeep

\* close(): the last reference of an inode goes to iput().
LEMMA StepClose == ASSUME IInv, NEW p \in Procs, Close(p) PROVE IInv'
<1>1. PICK f, fd : f = FileOf(p) /\ fd = c(p).fd
  OBVIOUS
<1>2. /\ pc[p] = "user" /\ proc[p].state = "used" /\ UNCHANGED ic /\ ~Refused(p)
      /\ c(p).op = "close" /\ FdSet(p, fd, 0)
      /\ \/ ft[f].ref > 1 /\ Fewer(f) /\ Return(p, 0, AnyData)
         \/ ft[f].ref = 1 /\ ft[f].type = "pipe" /\ Gone(f) /\ Return(p, 0, AnyData)
         \/ ft[f].ref = 1 /\ Gone(f) /\ PutThen(p, ft[f].ip, "ok", NoLoc)
  BY <1>1, Zenon DEF Close, User, At, Fileclose, FdSet, Fewer, Gone, FileSet
<1>3. fd \in OpenFds(p) /\ f = proc[p].ofile[fd]
  BY <1>1, <1>2 DEF Refused, BadFd, PathOps, FileOf
<1>4. /\ f \in FileIds /\ Counts(p, f)
      /\ ft[f].ref > 1 => ft'[f].ip = ft[f].ip
      /\ ft[f].ref = 1 => ft'[f].ip = 0
  <2>1. Closes(f)
    BY <1>2, Zenon DEF Closes
  <2> QED BY <1>2, <1>3, <2>1, ClosedIs
<1>5. IcQuiet(p) /\ loc[p].then \notin Ends /\ pc[p] \in Idle \ {"exited"}
  BY <1>2, SameQuiet, IdleIs DEF Idle
<1>6. CASE /\ Return(p, 0, AnyData)
           /\ ft[f].ref > 1 \/ (ft[f].ref = 1 /\ ft[f].type = "pipe")
  <2>1. Returned(p)
    BY <1>6, ReturnIs
  <2>2. ft'[f].ip = ft[f].ip
    BY <1>4, <1>6, FilesTyped DEF FileRec
  <2>3. ASSUME NEW u \in Slots PROVE Held(loc[p], u) + Is(ft[f].ip, u) = Is(ft'[f].ip, u)
    <3>1. Held(loc[p], u) = 0 /\ Is(ft[f].ip, u) \in Nat
      BY <1>5, IdleIs, IsNat
    <3> QED BY <2>2, <3>1
  <2> QED BY <1>4, <1>5, <2>1, <2>3, CountReturn
<1>7. CASE ft[f].ref = 1 /\ PutThen(p, ft[f].ip, "ok", NoLoc)
  BY <1>4, <1>5, <1>7, ClosePut
<1> QED BY <1>2, <1>6, <1>7

\* exit() closes a descriptor, as close() does.
LEMMA StepExitClose == ASSUME IInv, NEW p \in Procs, ExitClose(p) PROVE IInv'
<1>1. PICK fd, f : fd = Min(OpenFds(p)) /\ f = proc[p].ofile[fd]
  OBVIOUS
<1>2. /\ pc[p] = "exit" /\ UNCHANGED ic /\ OpenFds(p) # {} /\ FdSet(p, fd, 0)
      /\ \/ ft[f].ref > 1 /\ Fewer(f) /\ Goto(p, "exit") /\ UNCHANGED loc
         \/ ft[f].ref = 1 /\ ft[f].type = "pipe" /\ Gone(f) /\ Goto(p, "exit") /\ UNCHANGED loc
         \/ ft[f].ref = 1 /\ Gone(f) /\ PutThen(p, ft[f].ip, "exitend", NoLoc)
  BY <1>1, Zenon DEF ExitClose, At, Fileclose, FdSet, Fewer, Gone, FileSet
<1>3. fd \in OpenFds(p)
  BY <1>1, <1>2, MinFile DEF OpenFds
<1>4. pc[p] \in Idle \ {"exited"} /\ IcQuiet(p) /\ proc[p].state = "used"
  BY <1>2, SameQuiet, IdleIs DEF Idle
<1>5. /\ f \in FileIds /\ Counts(p, f)
      /\ ft[f].ref > 1 => ft'[f].ip = ft[f].ip
      /\ ft[f].ref = 1 => ft'[f].ip = 0
  <2>1. Closes(f)
    BY <1>2, Zenon DEF Closes
  <2> QED BY <1>1, <1>2, <1>3, <1>4, <2>1, ClosedIs
<1>6. CASE /\ Goto(p, "exit") /\ UNCHANGED loc
           /\ ft[f].ref > 1 \/ (ft[f].ref = 1 /\ ft[f].type = "pipe")
  <2>1. Moved(p, "exit")
    BY <1>4, <1>6, MovedIs
  <2>2. ft'[f].ip = ft[f].ip
    BY <1>5, <1>6, FilesTyped DEF FileRec
  <2> QED BY <1>4, <1>5, <2>1, <2>2, CountMove
<1>7. CASE ft[f].ref = 1 /\ PutThen(p, ft[f].ip, "exitend", NoLoc)
  BY <1>4, <1>5, <1>7, ClosePut
<1> QED BY <1>2, <1>6, <1>7

\* A set of more than one element has another than x.
LEMMA Another ==
  ASSUME NEW S, IsFiniteSet(S), Cardinality(S) > 1, NEW x
  PROVE  S # {} /\ S \ {x} # {}
<1>1. /\ IsFiniteSet(S \ {x}) /\ Cardinality(S \ {x}) \in Nat
      /\ Cardinality(S) = Cardinality(S \ {x}) + (IF x \in S THEN 1 ELSE 0)
  BY Without
<1>2. Cardinality(S \ {x}) # 0
  BY <1>1
<1>3. S \ {x} # {}
  <2> SUFFICES ASSUME S \ {x} = {} PROVE FALSE
    OBVIOUS
  <2>1. Cardinality({}) = 0
    BY FS_EmptySet
  <2> QED BY <1>2, <2>1
<1> QED BY <1>3

\* pipe() opens two free files, f at the free descriptor d and h at e.
TwoFds(p, d, f, e, h) == proc' = [proc EXCEPT ![p].ofile[d] = f, ![p].ofile[e] = h]
TwoFiles(f, h, a, b) == ft' = [ft EXCEPT ![f] = a, ![h] = b]

\* pipe() opens two files without an inode.
LEMMA StepPipe == ASSUME IInv, NEW p \in Procs, Pipe(p) PROVE IInv'
<1>1. PICK f, h, d, e : /\ f = Min(FreeFiles) /\ h = Min(FreeFiles \ {f})
                        /\ d = Min(FreeFds(p)) /\ e = Min(FreeFds(p) \ {d})
  OBVIOUS
<1>2. pc[p] = "user" /\ proc[p].state = "used" /\ UNCHANGED ic
  BY DEF Pipe, User, At
<1>3. \/ Return(p, -1, AnyData) /\ UNCHANGED <<ft, proc>>
      \/ /\ Cardinality(FreeFiles) > 1 /\ Cardinality(FreeFds(p)) > 1 /\ Return(p, 0, AnyData)
         /\ TwoFds(p, d, f, e, h)
         /\ \E a, b : /\ TwoFiles(f, h, a, b)
                      /\ \A r \in {a, b} : FileRec(r) /\ r.ref = 1 /\ r.ip = 0
  <2>1. CASE Return(p, -1, AnyData) /\ UNCHANGED <<ft, proc>>
    BY <2>1
  <2>2. CASE ~(Return(p, -1, AnyData) /\ UNCHANGED <<ft, proc>>)
    <3>1. PICK n : n = Kalloc(mem)[2]
      OBVIOUS
    <3>2. PICK k : k = [NoFile EXCEPT !.ref = 1, !.type = "pipe", !.pipe = n]
      OBVIOUS
    <3>3. PICK a, b : a = [k EXCEPT !.readable = TRUE] /\ b = [k EXCEPT !.writable = TRUE]
      OBVIOUS
    <3>4. \A r \in {a, b} : FileRec(r) /\ r.ref = 1 /\ r.ip = 0
      <4>1. DOMAIN k = FileFields /\ k.ref = 1 /\ k.type = "pipe" /\ k.ip = 0
        BY <3>2 DEF FileFields, NoFile
      <4>2. ASSUME NEW r \in {a, b}
            PROVE  DOMAIN r = FileFields /\ r.ref = 1 /\ r.type = "pipe" /\ r.ip = 0
        BY <3>3, <4>1 DEF FileFields
      <4> QED BY <4>2, ZeroSlot DEF FileRec
    <3>5. ft' = [ft EXCEPT ![f] = a, ![h] = b]
      BY <1>1, <2>2, <3>1, <3>2, <3>3, Zenon DEF Pipe
    <3>6. /\ Cardinality(FreeFiles) > 1 /\ Cardinality(FreeFds(p)) > 1 /\ Return(p, 0, AnyData)
          /\ TwoFds(p, d, f, e, h)
      BY <1>1, <2>2, Zenon DEF Pipe, TwoFds
    <3> QED BY <3>4, <3>5, <3>6 DEF TwoFiles
  <2> QED BY <2>1, <2>2
<1>4. CASE Return(p, -1, AnyData) /\ UNCHANGED <<ft, proc>>
  BY <1>2, <1>4, PlainReturn DEF Idle
<1>5. ASSUME Cardinality(FreeFiles) > 1, Cardinality(FreeFds(p)) > 1, Return(p, 0, AnyData),
             TwoFds(p, d, f, e, h), NEW a, NEW b, TwoFiles(f, h, a, b),
             \A r \in {a, b} : FileRec(r) /\ r.ref = 1 /\ r.ip = 0
      PROVE  IInv'
  <2>1. f \in FreeFiles /\ h \in FreeFiles /\ f # h
    <3>1. FreeFiles \subseteq FileIds /\ IsFiniteSet(FreeFiles)
      BY Finites, FS_Subset DEF FreeFiles
    <3>2. FreeFiles # {} /\ FreeFiles \ {f} # {}
      BY <1>5, <3>1, Another
    <3>3. f \in FreeFiles
      BY <1>1, <3>1, <3>2, MinFile
    <3>4. h \in FreeFiles \ {f}
      BY <1>1, <3>1, <3>2, MinFile
    <3> QED BY <3>3, <3>4
  <2>2. d \in FreeFds(p) /\ e \in FreeFds(p) /\ d # e
    <3>1. FreeFds(p) \subseteq Fds /\ IsFiniteSet(FreeFds(p))
      BY Finites, FS_Subset DEF FreeFds
    <3>2. FreeFds(p) # {} /\ FreeFds(p) \ {d} # {}
      BY <1>5, <3>1, Another
    <3>3. d \in FreeFds(p)
      BY <1>1, <3>1, <3>2, MinFile
    <3>4. e \in FreeFds(p) \ {d}
      BY <1>1, <3>1, <3>2, MinFile
    <3> QED BY <3>3, <3>4
  <2>3. /\ f \in FileIds /\ ft[f].ref = 0 /\ ft[f].ip = 0
        /\ h \in FileIds /\ ft[h].ref = 0 /\ ft[h].ip = 0
    BY <2>1, FreeIs
  <2>4. d \in Fds /\ e \in Fds /\ proc[p].ofile[d] = 0 /\ proc[p].ofile[e] = 0
    BY <2>2 DEF FreeFds
  <2>5. PICK o, u, v : o = proc[p].ofile /\ u = [o EXCEPT ![d] = f] /\ v = [u EXCEPT ![e] = h]
    OBVIOUS
  <2>6. o \in [Fds -> FileIds \cup {0}] /\ DOMAIN proc[p] = ProcFields
    BY <2>5, FilesTyped DEF ProcRec
  <2>7. /\ SetTo(o, u, d, f) /\ SetTo(u, v, e, h) /\ o[d] = 0 /\ u[e] = 0
        /\ v \in [Fds -> FileIds \cup {0}]
    BY <2>2, <2>3, <2>4, <2>5, <2>6 DEF SetTo
  <2>8. /\ DOMAIN proc' = Procs /\ \A q \in Procs \ {p} : proc'[q] = proc[q]
        /\ DOMAIN proc'[p] = ProcFields /\ proc'[p].state = proc[p].state
        /\ proc'[p].cwd = proc[p].cwd /\ proc'[p].ofile = v
    BY <1>5, <2>5, <2>6, FilesTyped DEF ProcFields, TwoFds
  <2>9. ProcOK' /\ OthersKeep(p)
    BY <2>7, <2>8, FilesTyped DEF ProcOK, ProcRec, OthersKeep
  <2>10. /\ DOMAIN ft' = FileIds /\ ft'[f] = a /\ ft'[h] = b
         /\ \A g \in FileIds : g # f /\ g # h => ft'[g] = ft[g]
    BY <1>5, <2>1, <2>3, FilesTyped DEF TwoFiles
  <2>11. FtOK' /\ \A g \in FileIds : ft'[g].ip = ft[g].ip
    BY <1>5, <2>3, <2>10, FilesTyped DEF FtOK
  <2>12. ASSUME NEW g \in FileIds
         PROVE  ft'[g].ref + Fdn(proc[p].ofile, g) = ft[g].ref + Fdn(proc'[p].ofile, g)
    <3>1. PICK i, j, k : i = Fdn(o, g) /\ j = Fdn(u, g) /\ k = Fdn(v, g)
      OBVIOUS
    <3>2. i \in Nat /\ j \in Nat /\ j + Is(o[d], g) = i + Is(f, g)
      BY <2>4, <2>7, <3>1, FdnSet
    <3>3. k \in Nat /\ k + Is(u[e], g) = j + Is(h, g)
      BY <2>4, <2>7, <3>1, FdnSet
    <3>4. Is(o[d], g) = 0 /\ Is(u[e], g) = 0
      BY <2>7, FilesTyped DEF Is
    <3>5. PICK m, n : m = ft'[g].ref /\ n = ft[g].ref
      OBVIOUS
    <3>6. n \in Nat /\ m = n + Is(f, g) + Is(h, g)
      BY <1>5, <2>1, <2>3, <2>10, <3>5, FilesTyped DEF FileRec, Is
    <3>7. m + i = n + k
      BY <3>2, <3>3, <3>4, <3>6, IsNat
    <3> QED BY <2>5, <2>8, <3>1, <3>5, <3>7
  <2>13. Counts(p, f)
    BY <1>2, <2>8, <2>9, <2>11, <2>12 DEF Counts
  <2>14. IcQuiet(p) /\ Returned(p) /\ loc[p].then \notin Ends
    BY <1>2, <1>5, SameQuiet, ReturnIs, IdleIs DEF Idle
  <2>15. \A u1 \in Slots : Held(loc[p], u1) + Is(ft[f].ip, u1) = Is(ft'[f].ip, u1)
    BY <1>2, <2>3, <2>11, IdleIs, IsNat DEF Idle
  <2> QED BY <2>3, <2>13, <2>14, <2>15, CountReturn
<1> QED BY <1>3, <1>4, <1>5

-----------------------------------------------------------------------------
(* fork().                                                                 *)

\* p copies its open files and its directory to q, which was unused, and
\* which starts with the calls todo'[q].
Copies(p, q) ==
    /\ UNCHANGED <<pc, loc>> /\ DOMAIN todo' = Procs
    /\ \A x \in Procs \ {p, q} : todo'[x] = todo[x]
    /\ DOMAIN proc' = Procs /\ \A x \in Procs \ {q} : proc'[x] = proc[x]
    /\ DOMAIN proc'[q] = ProcFields /\ proc'[q].state = "used"
    /\ proc'[q].cwd = proc[p].cwd /\ proc'[q].ofile = proc[p].ofile
    /\ DOMAIN ft' = FileIds
    /\ \A f \in FileIds : /\ DOMAIN ft'[f] = DOMAIN ft[f] /\ ft'[f].ip = ft[f].ip
                          /\ ft'[f].type = ft[f].type
                          /\ ft'[f].ref = ft[f].ref + Fdn(proc[p].ofile, f)
    /\ ic' = Idup(ic, proc[p].cwd)

\* fork() returns -1 with nothing changed, or copies p to an unused entry.
LEMMA ForkIs ==
  ASSUME IInv, NEW p \in Procs, Fork(p)
  PROVE  /\ pc[p] = "user" /\ proc[p].state = "used"
         /\ \/ Return(p, -1, AnyData) /\ UNCHANGED <<ic, ft, proc>>
            \/ \E q \in Procs : proc[q].state = "unused" /\ Copies(p, q)
<1> DEFINE unused == {q \in Procs : proc[q].state = "unused"}
<1>1. pc[p] = "user" /\ proc[p].state = "used"
  BY DEF Fork, User, At
<1>2. CASE ~(Return(p, -1, AnyData) /\ UNCHANGED <<ic, ft, proc>>)
  <2>1. PICK q, o, w : q = Min(unused) /\ o = proc[p].ofile /\ w = proc[p].cwd
    OBVIOUS
  <2>2. unused # {} /\ UNCHANGED <<pc, loc>> /\ ic' = [ic EXCEPT ![w].ref = @ + 1]
    BY <1>2, <2>1, Zenon DEF Fork
  <2>3. q \in Procs /\ proc[q].state = "unused" /\ q # p
    <3>1. q \in unused
      BY <2>1, <2>2, MinProc
    <3> QED BY <1>1, <3>1
  <2>4. PICK v, k : proc' = [proc EXCEPT ![q] = [proc[p] EXCEPT !.parent = p, !.killed = FALSE,
                                                               !.vm = v, !.kstack = k]]
    <3>1. PICK k : k = Kalloc(mem)
      OBVIOUS
    <3>2. PICK v : v = Copyuvm(k[1], proc[p].vm, proc[p].sz)
      OBVIOUS
    <3>3. proc' = [proc EXCEPT ![q] = [proc[p] EXCEPT !.parent = p, !.killed = FALSE,
                                                     !.vm = v.vm, !.kstack = k[2]]]
      BY <1>2, <2>1, <3>1, <3>2, Zenon DEF Fork
    <3> QED BY <3>3
  <2>5. ft' = [f \in FileIds |-> [ft[f] EXCEPT !.ref = @ + Fdn(o, f)]]
    BY <1>2, <2>1, Zenon DEF Fork, Fdn
  <2>6. \E y, z : todo' = [todo EXCEPT ![p] = y, ![q] = z]
    BY <1>2, <2>1, Zenon DEF Fork
  <2>7. DOMAIN todo' = Procs /\ \A x \in Procs \ {p, q} : todo'[x] = todo[x]
    BY <2>6, Typed
  <2>8. /\ DOMAIN proc' = Procs /\ \A x \in Procs \ {q} : proc'[x] = proc[x]
        /\ DOMAIN proc'[q] = ProcFields /\ proc'[q].state = "used"
        /\ proc'[q].cwd = w /\ proc'[q].ofile = o
    BY <1>1, <2>1, <2>3, <2>4, FilesTyped DEF ProcRec, ProcFields
  <2>9. /\ DOMAIN ft' = FileIds
        /\ \A f \in FileIds : /\ DOMAIN ft'[f] = DOMAIN ft[f] /\ ft'[f].ip = ft[f].ip
                              /\ ft'[f].type = ft[f].type
                              /\ ft'[f].ref = ft[f].ref + Fdn(o, f)
    BY <2>5, FilesTyped DEF FileRec, FileFields
  <2>10. ic' = Idup(ic, w)
    BY <2>2 DEF Idup
  <2>11. Copies(p, q)
    BY <2>1, <2>2, <2>7, <2>8, <2>9, <2>10, Zenon DEF Copies
  <2> QED BY <1>1, <2>3, <2>11
<1> QED BY <1>1, <1>2

\* A process without open files counts for no file.
LEMMA NoFdn ==
  ASSUME IInv, NEW q \in Procs, NoFiles(q), NEW f \in FileIds
  PROVE  Fdn(proc[q].ofile, f) = 0
<1>1. {fd \in Fds : proc[q].ofile[fd] = f} = {}
  BY FilesTyped DEF NoFiles
<1> QED BY <1>1, FS_EmptySet DEF Fdn

\* A copy of p: every file it has open, and its directory, have one user more.
LEMMA StepCopies ==
  ASSUME IInv, NEW p \in Procs, NEW q \in Procs, pc[p] = "user", proc[p].state = "used",
         proc[q].state = "unused", Copies(p, q)
  PROVE  IInv'
<1>1. PICK w : w = proc[p].cwd
  OBVIOUS
<1>2. pc[q] = "user" /\ proc[q].cwd = 0 /\ NoFiles(q) /\ q # p /\ w \in Slots0
  BY <1>1, Typed, FilesTyped DEF Place, ProcRec
<1>3. \A x \in {p, q} : /\ loc[x].cur = 0 /\ loc[x].ip = 0 /\ loc[x].dp = 0 /\ loc[x].put = 0
                       /\ loc[x].then \notin Ends
  BY <1>2, IdleIs DEF Idle
<1>4. w \in Slots => ic[w].ref > 0
  <2> SUFFICES ASSUME w \in Slots PROVE ic[w].ref > 0
    OBVIOUS
  <2>1. InCwd(proc[p], loc[p], w) # 0
    BY <1>1, <1>3 DEF InCwd
  <2> QED BY <2>1, Users
<1>5. /\ IcSet(ic') /\ One(ic')
      /\ \A u \in Slots : /\ ic'[u].ref = ic[u].ref + Is(u, w)
                          /\ ic'[u].lock = ic[u].lock
  <2>1. ic' = Idup(ic, w)
    BY <1>1 DEF Copies
  <2> QED BY <1>4, <2>1, IdupIs, Typed
<1>6. IcOK' /\ LocOK' /\ OneEntryPerInode'
  BY <1>5 DEF IcOK, IInv, LocOK, Copies, One, OneEntryPerInode
<1>7. FtOK'
  <2>1. ASSUME NEW f \in FileIds PROVE FileRec(ft'[f])
    <3>1. FileRec(ft[f]) /\ Fdn(proc[p].ofile, f) \in Nat
      BY FilesTyped, FdsSplit
    <3> QED BY <3>1 DEF Copies, FileRec
  <2> QED BY <2>1 DEF FtOK, Copies
<1>8. ProcOK'
  <2>1. ASSUME NEW x \in Procs PROVE ProcRec(proc'[x])
    BY FilesTyped DEF Copies, ProcRec
  <2> QED BY <2>1 DEF ProcOK, Copies
<1>9. PlacesOK'
  <2>1. ASSUME NEW x \in Procs \ {p, q} PROVE Place(x)'
    BY Typed, PlaceStays DEF Copies
  <2>2. ASSUME NEW x \in {p, q} PROVE Place(x)'
    <3>1. pc'[x] = "user" /\ loc'[x] = loc[x] /\ proc'[x].state = "used" /\ Resume(x)' = "user"
      BY <1>2 DEF Copies, Resume, Iputs
    <3>2. Fits("user", loc[x], c(x)'.op)
      BY <1>3 DEF Fits, Idle
    <3> QED BY <1>3, <3>1, <3>2 DEF Place, Ends
  <2> QED BY <2>1, <2>2 DEF PlacesOK
<1>10. LocksOK'
  <2>1. \A x \in Procs : Kept(x)' = Kept(x) /\ Freeing(x)' = Freeing(x)
    BY DEF Copies, Kept, Freeing, Resume
  <2>2. LocksOK
    BY DEF IInv
  <2> QED BY <1>5, <2>1, <2>2 DEF LocksOK
<1>11. ASSUME NEW s \in Slots
       PROVE  ic'[s].ref = Cardinality(LocalsOf(loc', s)) + Cardinality(FilesOf(ft', s))
                           + Cardinality(CwdsOf(proc', loc', s))
  <2>1. 1 \in FileIds
    BY CallsAssumption DEF FileIds
  <2>2. ic'[s].ref + (Held(loc[q], s) + InCwd(proc[q], loc[q], s)) + Is(ft[1].ip, s)
          = ic[s].ref + (Held(loc'[q], s) + InCwd(proc'[q], loc'[q], s)) + Is(ft'[1].ip, s)
    <3>1. InCwd(proc[q], loc[q], s) = 0
      BY <1>2, NotZero DEF InCwd
    <3>2. InCwd(proc'[q], loc'[q], s) = Is(s, w)
      BY <1>1, <1>3 DEF InCwd, Is, Copies
    <3>3. loc'[q] = loc[q] /\ ft'[1].ip = ft[1].ip /\ ic'[s].ref = ic[s].ref + Is(s, w)
      BY <1>5, <2>1 DEF Copies
    <3>4. ic[s].ref \in Nat /\ Is(s, w) \in Nat /\ Held(loc[q], s) \in Nat /\ Is(ft[1].ip, s) \in Nat
      BY RefNat, IsNat, HeldNat
    <3> QED BY <3>1, <3>2, <3>3, <3>4
  <2>3. /\ LocalsStay(q) /\ IcSet(ic) /\ \A x \in Procs \ {q} : proc'[x].cwd = proc[x].cwd
        /\ \A f \in FileIds \ {1} : ft'[f].ip = ft[f].ip
    BY Typed DEF LocalsStay, Copies
  <2>4. ic[s].ref = Cardinality(LocalsOf(loc, s)) + Cardinality(FilesOf(ft, s))
                     + Cardinality(CwdsOf(proc, loc, s))
    BY RefsAre DEF IInv
  <2> QED BY <1>5, <2>1, <2>2, <2>3, <2>4, InodeRefs
<1>12. ASSUME NEW f \in FileIds
       PROVE  ft'[f].ref = Cardinality(FdsOf(proc', f))
  <2>1. PICK r : r = proc'
    OBVIOUS
  <2>2. \A x \in Procs \ {q} : r[x].ofile = proc[x].ofile
    BY <2>1 DEF Copies
  <2>3. /\ Cardinality(FdsOf(proc, f)) \in Nat /\ Cardinality(FdsOf(r, f)) \in Nat
        /\ Cardinality(FdsOf(r, f)) + Fdn(proc[q].ofile, f)
              = Cardinality(FdsOf(proc, f)) + Fdn(r[q].ofile, f)
    BY <2>2, FdsChange
  <2>4. Fdn(proc[q].ofile, f) = 0
    BY <1>2, NoFdn
  <2>5. r[q].ofile = proc[p].ofile /\ ft'[f].ref = ft[f].ref + Fdn(proc[p].ofile, f)
    BY <2>1 DEF Copies
  <2>6. ft[f].ref = Cardinality(FdsOf(proc, f)) /\ Fdn(proc[p].ofile, f) \in Nat
    BY RefsAre, FdsSplit DEF IInv
  <2> QED BY <2>1, <2>3, <2>4, <2>5, <2>6
<1>13. RefsMatchHolders'
  BY <1>11, <1>12, Zenon DEF RefsMatchHolders, LocalsOf, FilesOf, CwdsOf, FdsOf, Owned, Ends
<1> QED BY <1>6, <1>7, <1>8, <1>9, <1>10, <1>13 DEF IInv

\* fork() keeps the invariant.
LEMMA StepFork == ASSUME IInv, NEW p \in Procs, Fork(p) PROVE IInv'
<1>1. /\ pc[p] = "user" /\ proc[p].state = "used"
      /\ \/ Return(p, -1, AnyData) /\ UNCHANGED <<ic, ft, proc>>
         \/ \E q \in Procs : proc[q].state = "unused" /\ Copies(p, q)
  BY ForkIs
<1>2. CASE Return(p, -1, AnyData) /\ UNCHANGED <<ic, ft, proc>>
  BY <1>1, <1>2, PlainReturn DEF Idle
<1>3. CASE \E q \in Procs : proc[q].state = "unused" /\ Copies(p, q)
  BY <1>1, <1>3, StepCopies
<1> QED BY <1>1, <1>2, <1>3

-----------------------------------------------------------------------------
(* The invariant.                                                          *)

\* At the start the directory of process 1 is the only reference.
Started ==
    /\ ic[1].ref = 1 /\ \A s \in Slots \ {1} : ic[s].ref = 0
    /\ \A s \in Slots : ic[s].lock = 0
    /\ DOMAIN ic = Slots /\ \A s \in Slots : DOMAIN ic[s] = EntryFields
    /\ ft = [f \in FileIds |-> NoFile]
    /\ DOMAIN proc = Procs
    /\ \A p \in Procs : /\ DOMAIN proc[p] = ProcFields /\ proc[p].ofile = [fd \in Fds |-> 0]
                        /\ proc[p].cwd = IF p = 1 THEN 1 ELSE 0
                        /\ proc[p].state = IF p = 1 THEN "used" ELSE "unused"
    /\ pc = [p \in Procs |-> "user"] /\ loc = [p \in Procs |-> NoLoc] /\ DOMAIN todo = Procs

\* What userinit() leaves.
LEMMA InitIs == Init => Started
<1> SUFFICES ASSUME Init PROVE Started
  OBVIOUS
<1>1. 1 \in Procs /\ 1 \in Slots
  BY CallsAssumption, InodesAssumption DEF Procs, Slots
<1>2. PICK e : e = [NoEntry EXCEPT !.inum = ROOTINO, !.ref = 1]
  OBVIOUS
<1>3. DOMAIN e = EntryFields /\ e.ref = 1 /\ e.lock = 0
  BY <1>2 DEF NoEntry, EntryFields
<1>4. ic = [s \in Slots |-> IF s = 1 THEN e ELSE NoEntry]
  BY <1>2 DEF Init
<1>5. DOMAIN NoEntry = EntryFields /\ NoEntry.ref = 0 /\ NoEntry.lock = 0
  BY DEF NoEntry, EntryFields
<1>6. PICK k : k = Kalloc(FirstVm.m)
  OBVIOUS
<1>7. PICK r : r = [NoProc EXCEPT !.state = "used", !.cwd = 1, !.sz = 3 * PGSIZE,
                                  !.vm = FirstVm.vm, !.kstack = k[2]]
  OBVIOUS
<1>8. /\ DOMAIN NoProc = ProcFields /\ NoProc.ofile = [fd \in Fds |-> 0] /\ NoProc.cwd = 0
      /\ NoProc.state = "unused"
  BY DEF NoProc, ProcFields
<1>9. /\ DOMAIN r = ProcFields /\ r.ofile = [fd \in Fds |-> 0] /\ r.cwd = 1 /\ r.state = "used"
  BY <1>7, <1>8 DEF ProcFields
<1>10. proc = [p \in Procs |-> IF p = 1 THEN r ELSE NoProc]
  BY <1>6, <1>7 DEF Init
<1>11. /\ ft = [f \in FileIds |-> NoFile] /\ pc = [p \in Procs |-> "user"]
       /\ loc = [p \in Procs |-> NoLoc] /\ DOMAIN todo = Procs
  BY DEF Init
<1>12. /\ DOMAIN ic = Slots /\ ic[1] = e /\ \A s \in Slots \ {1} : ic[s] = NoEntry
  BY <1>1, <1>4
<1>13. /\ DOMAIN proc = Procs /\ \A p \in Procs : proc[p] = IF p = 1 THEN r ELSE NoProc
  BY <1>10
<1>14. /\ ic[1].ref = 1 /\ \A s \in Slots \ {1} : ic[s].ref = 0
       /\ \A s \in Slots : ic[s].lock = 0 /\ DOMAIN ic[s] = EntryFields
  BY <1>3, <1>5, <1>12
<1>15. \A p \in Procs : /\ DOMAIN proc[p] = ProcFields /\ proc[p].ofile = [fd \in Fds |-> 0]
                        /\ proc[p].cwd = IF p = 1 THEN 1 ELSE 0
                        /\ proc[p].state = IF p = 1 THEN "used" ELSE "unused"
  BY <1>8, <1>9, <1>13
<1> QED BY <1>11, <1>12, <1>13, <1>14, <1>15 DEF Started

\* The invariant holds at the start.
LEMMA InitHolds == Init => IInv
<1> SUFFICES ASSUME Started PROVE IInv
  BY InitIs
<1>1. 1 \in Procs /\ 1 \in Slots
  BY CallsAssumption, InodesAssumption DEF Procs, Slots
<1>2. PICK n, f0 : n = NoLoc /\ f0 = NoFile
  OBVIOUS
<1>3. LocRec(n) /\ n.cur = 0 /\ n.ip = 0 /\ n.dp = 0 /\ n.put = 0 /\ n.then = ""
  BY <1>2, NoLocIs
<1>4. FileRec(f0) /\ f0.ref = 0 /\ f0.ip = 0
  BY <1>2, ZeroSlot DEF NoFile, FileRec, FileFields
<1>5. /\ DOMAIN loc = Procs /\ \A p \in Procs : loc[p] = n
      /\ DOMAIN ft = FileIds /\ \A f \in FileIds : ft[f] = f0
      /\ DOMAIN pc = Procs /\ \A p \in Procs : pc[p] = "user"
      /\ DOMAIN todo = Procs
  BY <1>2 DEF Started
<1>6. FtOK /\ LocOK
  BY <1>3, <1>4, <1>5 DEF FtOK, LocOK
<1>7. IcOK /\ OneEntryPerInode
  <2>1. \A s \in Slots : ic[s].ref \in Nat /\ (ic[s].ref > 0 => s = 1)
    BY DEF Started
  <2> QED BY <2>1 DEF IcOK, IcSet, Started, OneEntryPerInode
<1>8. ProcOK
  <2>1. \A p \in Procs : proc[p].cwd \in Slots0 /\ proc[p].ofile \in [Fds -> FileIds \cup {0}]
    BY <1>1 DEF Started, Slots0
  <2> QED BY <2>1 DEF ProcOK, ProcRec, Started
<1>9. PlacesOK
  <2> SUFFICES ASSUME NEW p \in Procs PROVE Place(p)
    BY DEF PlacesOK
  <2>1. Resume(p) = "user" /\ Fits("user", n, c(p).op)
    BY <1>3, <1>5 DEF Resume, Iputs, Fits, Idle
  <2>2. NoFiles(p) /\ (proc[p].state # "used" => proc[p].cwd = 0)
    BY DEF NoFiles, Started
  <2> QED BY <1>3, <1>5, <2>1, <2>2 DEF Place, Ends
<1>10. LocksOK
  <2>1. \A p \in Procs : Kept(p) = {} /\ Freeing(p) = {}
    BY <1>5 DEF Kept, KeptAt, Freeing, Resume, Iputs
  <2> QED BY <2>1, NotZero DEF LocksOK, Started
<1>11. ASSUME NEW s \in Slots
       PROVE  ic[s].ref = Cardinality(LocalsOf(loc, s)) + Cardinality(FilesOf(ft, s))
                          + Cardinality(CwdsOf(proc, loc, s))
  <2>1. LocalsOf(loc, s) = {}
    <3>1. ASSUME NEW p \in Procs, NEW h \in Owned PROVE loc[p][h] # s
      BY <1>3, <1>5, NotZero DEF Owned
    <3> QED BY <3>1 DEF LocalsOf
  <2>2. FilesOf(ft, s) = {}
    BY <1>4, <1>5, NotZero DEF FilesOf
  <2>3. CwdsOf(proc, loc, s) = IF s = 1 THEN {1} ELSE {}
    <3>1. \A p \in Procs : loc[p].then \notin Ends
      BY <1>3, <1>5 DEF Ends
    <3>2. \A p \in Procs : proc[p].cwd = s <=> p = 1 /\ s = 1
      BY NotZero DEF Started
    <3> QED BY <1>1, <3>1, <3>2 DEF CwdsOf
  <2>4. Cardinality({}) = 0 /\ Cardinality({1}) = 1
    BY FS_EmptySet, FS_Singleton
  <2>5. ic[s].ref = IF s = 1 THEN 1 ELSE 0
    BY DEF Started
  <2> QED BY <2>1, <2>2, <2>3, <2>4, <2>5
<1>12. ASSUME NEW f \in FileIds PROVE ft[f].ref = Cardinality(FdsOf(proc, f))
  <2>1. FdsOf(proc, f) = {}
    <3>1. \A p \in Procs : proc[p].ofile = [fd \in Fds |-> 0]
      BY DEF Started
    <3>2. f # 0
      BY DEF FileIds
    <3> QED BY <3>1, <3>2 DEF FdsOf
  <2>2. ft[f].ref = 0 /\ Cardinality({}) = 0
    BY <1>4, <1>5, FS_EmptySet
  <2> QED BY <2>1, <2>2
<1>13. RefsMatchHolders
  BY <1>11, <1>12, RefsAre
<1> QED BY <1>6, <1>7, <1>8, <1>9, <1>10, <1>13 DEF IInv

\* A step that changes nothing keeps the invariant.
LEMMA Stutter == IInv /\ UNCHANGED vars => IInv'
<1> SUFFICES ASSUME IInv, UNCHANGED <<ic, ft, proc, pc, loc, todo>> PROVE IInv'
  BY DEF vars
<1>1. IcOK' /\ FtOK' /\ ProcOK' /\ LocOK'
  BY DEF IInv, IcOK, FtOK, ProcOK, LocOK
<1>2. PlacesOK'
  BY Typed, PlaceStays DEF PlacesOK
<1>3. LocksOK'
  <2>1. \A p \in Procs : Kept(p)' = Kept(p) /\ Freeing(p)' = Freeing(p)
    BY DEF Kept, Freeing, Resume
  <2>2. LocksOK
    BY DEF IInv
  <2> QED BY <2>1, <2>2 DEF LocksOK
<1>4. RefsMatchHolders' /\ OneEntryPerInode'
  BY DEF IInv, RefsMatchHolders, OneEntryPerInode
<1> QED BY <1>1, <1>2, <1>3, <1>4 DEF IInv

\* Every step keeps the invariant.
LEMMA NextHolds == IInv /\ [Next]_vars => IInv'
<1> SUFFICES ASSUME IInv, [Next]_vars PROVE IInv'
  OBVIOUS
<1>1. ASSUME NEW p \in Procs, PathCall(p) PROVE IInv'
  <2>1. \/ BeginPath(p) \/ Fail(p) \/ Ok(p) \/ OpenOld(p) \/ Opened(p)
        \/ Create(p) \/ Exists(p) \/ Fill(p) \/ Made(p)
        \/ LinkOld(p) \/ LinkNew(p) \/ LinkDup(p) \/ LinkPut(p) \/ LinkBad(p)
        \/ Unlink(p) \/ UnlinkEntry(p) \/ UnlinkBad(p) \/ Unlinked(p)
        \/ Chdir(p) \/ Cd(p) \/ Exec(p) \/ ExecStack(p)
        \/ WalkEnd(p) \/ WalkElem(p)
        \/ IputLock(p) \/ IputFree(p) \/ IputFreed(p) \/ IputDeref(p)
    BY <1>1, Zenon DEF PathCall, Walk, Iput
  <2> QED BY <2>1, Zenon, StepBeginPath, StepFail, StepOk, StepOpenOld, StepOpened, StepCreate,
             StepExists, StepFill, StepMade, StepLinkOld, StepLinkNew, StepLinkDup, StepLinkPut,
             StepLinkBad, StepUnlink, StepUnlinkEntry, StepUnlinkBad, StepUnlinked, StepChdir,
             StepCd, StepExec, StepExecStack, StepWalkEnd, StepWalkElem, StepIputLock,
             StepIputFree, StepIputFreed, StepIputDeref
<1>2. ASSUME NEW p \in Procs, FdCall(p) PROVE IInv'
  BY <1>2, Zenon, StepRefuse, StepDup, StepBeginFd, StepFstat, StepReadInode, StepWriteInode,
     StepWriteNothing, StepClose, StepPipe, StepReadPipe, StepWritePipe DEF FdCall
<1>3. ASSUME NEW p \in Procs, ProcCall(p) PROVE IInv'
  BY <1>3, Zenon, StepFork, StepDie, StepExitClose, StepExitEnd, StepExitCwd, StepExited, StepWait,
     StepInitReaps, StepKill, StepSbrk, StepTouch, StepPass DEF ProcCall
<1>4. ASSUME UNCHANGED vars PROVE IInv'
  BY <1>4, Stutter
<1> QED BY <1>1, <1>2, <1>3, <1>4, Zenon DEF Next, Done

\* The inductive invariant, which says what every process holds where it is.
THEOREM InvHolds == Spec => []IInv
BY InitHolds, NextHolds, PTL DEF Spec

\* iget, idup, iput, filedup, fileclose, fork and exit keep the two reference
\* counts equal to the numbers of holders, for every sequence of calls and
\* every interleaving of the processes that make them.
THEOREM RefCounts == Spec => []RefsMatchHolders
<1>1. IInv => RefsMatchHolders
  BY DEF IInv
<1> QED BY <1>1, InvHolds, PTL

\* iget() never has two entries of one inode in use.
THEOREM OneEntry == Spec => []OneEntryPerInode
<1>1. IInv => OneEntryPerInode
  BY DEF IInv
<1> QED BY <1>1, InvHolds, PTL

\* An inode is locked by a call that goes on and that has a reference of it:
\* iget() recycles no entry whose sleep lock is held, and every way out of a
\* call releases the locks the call took.
THEOREM HeldLocks == Spec => []LocksAreHeld
<1>1. ASSUME IInv PROVE LocksAreHeld
  <2> SUFFICES ASSUME NEW s \in Slots, NEW p \in Procs, ic[s].lock = p
               PROVE  ic[s].ref > 0 /\ pc[p] # "user"
    <3>1. \A s \in Slots : ic[s].lock \in Procs \cup {0}
      BY <1>1, Typed DEF IInv, IcOK, IcSet
    <3> QED BY <3>1 DEF LocksAreHeld
  <2>1. s \in Kept(p) \cup Freeing(p)
    BY <1>1, Typed
  <2>2. s \in {loc[p].ip, loc[p].dp, loc[p].put} /\ pc[p] # "user"
    BY <2>1 DEF Kept, KeptAt, Freeing, Resume, Iputs
  <2>3. Held(loc[p], s) # 0
    BY <2>2 DEF Held, Is
  <2> QED BY <1>1, <2>2, <2>3, Users
<1> QED BY <1>1, InvHolds, PTL

\* A call that has an inode locked has it for itself: there is one entry and so
\* one sleep lock of the inode, which iget() and iput() leave to the call.
THEOREM LocksExclusive == Spec => []LocksExclude
<1>1. OneEntryPerInode /\ LocksAreHeld => LocksExclude
  BY DEF LocksExclude
<1> QED BY <1>1, OneEntry, HeldLocks, PTL

\* Processes that wait for each other's inode locks: one of them waits in
\* iput(), or some of them are in create() or unlink(), hold a directory and
\* want an inode that one of them holds as its directory.
THEOREM LockCycles == Spec => []CycleOfDirectories
<1>1. ASSUME IInv PROVE CycleOfDirectories
  <2> SUFFICES ASSUME NEW S \in SUBSET Procs, LockCycle(S), \A p \in S : pc[p] # "put"
               PROVE  \E T \in (SUBSET S) \ {{}} :
                         \A p \in T : /\ pc[p] \in {"fill", "unlinkent"}
                                      /\ \E q \in T : loc[p].ip = loc[q].dp
    BY DEF CycleOfDirectories
  <2>1. ASSUME NEW p \in S
        PROVE  /\ Wanted(p) \in Slots /\ ic[Wanted(p)].lock \in S
               /\ pc[p] \notin Iputs /\ Resume(p) = pc[p]
               /\ Kept(p) # {} => /\ pc[p] \in {"fill", "unlinkent"} /\ Wanted(p) = loc[p].ip
                                  /\ Kept(p) = {loc[p].dp}
    <3>1. Wanted(p) # 0 /\ ic[Wanted(p)].lock \in S /\ pc[p] # "put"
      BY DEF LockCycle
    <3>2. pc[p] \notin Iputs /\ Resume(p) = pc[p]
      BY <3>1 DEF Wanted, Iputs, Resume
    <3>3. Kept(p) # {} => /\ pc[p] \in {"fill", "unlinkent"} /\ Wanted(p) = loc[p].ip
                          /\ Kept(p) = {loc[p].dp}
      BY <3>1, <3>2 DEF Wanted, Kept, KeptAt
    <3>4. Wanted(p) \in Slots0
      <4>1. LocRec(loc[p])
        BY <1>1, Typed
      <4>2. pc[p] \in {"read", "write", "fstat"} => ft[FileOf(p)].ip \in Slots0
        <5> SUFFICES ASSUME pc[p] \in {"read", "write", "fstat"} PROVE ft[FileOf(p)].ip \in Slots0
          OBVIOUS
        <5>1. c(p).fd \in OpenFds(p)
          BY <1>1, <3>2, Typed DEF Place
        <5>2. FileOf(p) \in FileIds
          BY <1>1, <5>1, OpenIs DEF FileOf
        <5> QED BY <1>1, <5>2, FilesTyped DEF FileRec
      <4> QED BY <3>1, <4>1, <4>2 DEF Wanted, LocRec
    <3> QED BY <3>1, <3>2, <3>3, <3>4 DEF Slots0
  <2> DEFINE Holder(p) == ic[Wanted(p)].lock
             T == {Holder(p) : p \in S}
  <2>2. ASSUME NEW p \in S PROVE Holder(p) \in S /\ Kept(Holder(p)) = {Wanted(p)}
    <3>1. PICK q \in S : q = Holder(p)
      BY <2>1
    <3>2. Wanted(p) \in Kept(q) \cup Freeing(q)
      BY <1>1, <2>1, <3>1, Typed
    <3>3. Freeing(q) = {}
      BY <2>1 DEF Freeing, Iputs
    <3>4. Kept(q) = {loc[q].dp}
      BY <2>1, <3>2, <3>3
    <3> QED BY <3>1, <3>2, <3>3, <3>4
  <2> HIDE DEF Holder
  <2>3. T \in (SUBSET S) \ {{}}
    BY <2>2 DEF LockCycle
  <2>4. ASSUME NEW p \in T
        PROVE  pc[p] \in {"fill", "unlinkent"} /\ \E q \in T : loc[p].ip = loc[q].dp
    <3>1. p \in S /\ Kept(p) # {}
      BY <2>2
    <3>2. pc[p] \in {"fill", "unlinkent"} /\ Wanted(p) = loc[p].ip
      BY <2>1, <3>1
    <3>3. Holder(p) \in T /\ Kept(Holder(p)) = {Wanted(p)}
      BY <2>2, <3>1
    <3>4. Kept(Holder(p)) = {loc[Holder(p)].dp}
      BY <2>1, <2>2, <3>1
    <3> QED BY <3>2, <3>3, <3>4
  <2> QED BY <2>3, <2>4
<1> QED BY <1>1, InvHolds, PTL
=============================================================================
