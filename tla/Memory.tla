------------------------------- MODULE Memory -------------------------------
(***************************************************************************)
(* Physical pages (kalloc.c) and address spaces (vm.c, growproc(), the     *)
(* image exec() builds) as values.  Addresses and sizes count words of     *)
(* which a page has PGSIZE.  A memory m has the free list m.free, the      *)
(* contents m.tag of every page and the panic message m.bad.  An address   *)
(* space is [dir, pt, map]: the page of its directory, the page-table page *)
(* of every region of NPTE pages (0: none) and the entry [pa, u] of every  *)
(* virtual page (pa 0: not present; u: PTE_U).  The NKPT regions above     *)
(* KERNBASE map the kernel, the same for everybody.                        *)
(***************************************************************************)
EXTENDS Integers, Sequences, SequencesExt, FiniteSets

CONSTANTS NPAGES,   \* physical pages: end .. PHYSTOP
          PGSIZE,   \* words in a page
          NPTE,     \* entries of a page table
          NUPT,     \* page tables that map user addresses
          NKPT      \* page tables that map the kernel

ASSUME MemoryAssumption == {NPAGES, PGSIZE, NPTE, NUPT, NKPT} \subseteq Nat \ {0}

Pages == 1 .. NPAGES
VPages == 0 .. NUPT * NPTE - 1
KERNBASE == NUPT * NPTE * PGSIZE
PDX(v) == v \div NPTE
PGROUNDUP(a) == ((a + PGSIZE - 1) \div PGSIZE) * PGSIZE

NoEnt == [pa |-> 0, u |-> FALSE]
NoVm == [dir |-> 0, pt |-> [i \in 0 .. NUPT + NKPT - 1 |-> 0],
         map |-> [v \in VPages |-> NoEnt]]

Oops(m, msg) == IF m.bad = "" THEN [m EXCEPT !.bad = msg] ELSE m
-----------------------------------------------------------------------------
(* The free list is a stack.  kfree() fills the page with junk.            *)
Kfree(m, g) ==
    IF g \notin Pages THEN Oops(m, "kfree")
    ELSE [m EXCEPT !.free = <<g>> \o @, !.tag[g] = "junk"]

\* freerange(), at boot: the last page is allocated first.
AllFree == FoldLeft(Kfree, [free |-> <<>>, tag |-> [g \in Pages |-> "boot"], bad |-> ""],
                    [g \in Pages |-> g])

\* The page is 0 if there is none.
Kalloc(m) == IF m.free = <<>> THEN <<m, 0>>
             ELSE <<[m EXCEPT !.free = Tail(@)], Head(m.free)>>

FreeAll(m, gs) == FoldLeft(Kfree, m, gs)
-----------------------------------------------------------------------------
(* Page tables.  The results have ok, FALSE if a page was missing.         *)
Walkpgdir(m, vm, region) ==
    LET a == Kalloc(m)
    IN  IF vm.pt[region] # 0 THEN [m |-> m, vm |-> vm, ok |-> TRUE]
        ELSE IF a[2] = 0 THEN [m |-> m, vm |-> vm, ok |-> FALSE]
        ELSE [m |-> [a[1] EXCEPT !.tag[a[2]] = "table"],
              vm |-> [vm EXCEPT !.pt[region] = a[2]], ok |-> TRUE]

Mappages(m, vm, v, ent) ==
    LET Map(w) == IF ~w.ok THEN w
                  ELSE IF w.vm.map[v].pa # 0 THEN [w EXCEPT !.m = Oops(@, "remap")]
                  ELSE [w EXCEPT !.vm.map[v] = ent]
    IN  Map(Walkpgdir(m, vm, PDX(v)))

\* The virtual pages deallocuvm() frees to go from old down to new words.
Between(new, old) == {v \in VPages : v * PGSIZE >= PGROUNDUP(new) /\ v * PGSIZE < old}
Ascending(S) == SelectSeq([i \in 1 .. (NUPT + NKPT) * NPTE |-> i - 1], LAMBDA i : i \in S)

Deallocuvm(m, vm, old, new) ==
    LET vs == SelectSeq(Ascending(Between(new, old)), LAMBDA v : vm.map[v].pa # 0) IN
    IF new >= old THEN [m |-> m, vm |-> vm, sz |-> old]
    ELSE [m |-> FreeAll(m, [i \in DOMAIN vs |-> vm.map[vs[i]].pa]), sz |-> new,
          vm |-> [vm EXCEPT !.map = [v \in VPages |-> IF v \in Range(vs) THEN NoEnt ELSE @[v]]]]

Freevm(m, vm) ==
    LET Tables(d) == [i \in 1 .. NUPT + NKPT |-> d.vm.pt[i - 1]]
        Rest(d) == Kfree(FreeAll(d.m, SelectSeq(Tables(d), LAMBDA g : g # 0)), d.vm.dir)
    IN  Rest(Deallocuvm(m, vm, KERNBASE, 0))

\* The address space w, or the undoing of it if a page was missing.
OrFreed(w) == IF w.ok THEN w ELSE [m |-> Freevm(w.m, w.vm), vm |-> NoVm, ok |-> FALSE]

Setupkvm(m) ==
    LET a == Kalloc(m)
        start == [m |-> a[1], vm |-> [NoVm EXCEPT !.dir = a[2]], ok |-> TRUE]
        Add(w, i) == IF w.ok THEN Walkpgdir(w.m, w.vm, i) ELSE w
    IN  IF a[2] = 0 THEN [m |-> m, vm |-> NoVm, ok |-> FALSE]
        ELSE OrFreed(FoldLeft(Add, start, [i \in 1 .. NKPT |-> NUPT + i - 1]))

\* The page g that kalloc() gave (0: none) at ent.pa of v; if it cannot be
\* mapped it is left over.
MapPage(w, v, g, ent) ==
    IF g = 0 THEN [w EXCEPT !.ok = FALSE, !.left = 0]
    ELSE Mappages(w.m, w.vm, v, [ent EXCEPT !.pa = g]) @@ [left |-> g]
\* Mutant of Back: the page that could not be mapped is forgotten.
M_Back(m, w) == m

Back(m, w) == IF w.left = 0 THEN m ELSE Kfree(m, w.left)

\* All zeroed pages from old to new, or the undoing of those it added.
Allocuvm(m, vm, old, new) ==
    LET Zeroed(a) == IF a[2] = 0 THEN a[1] ELSE [a[1] EXCEPT !.tag[a[2]] = "zero"]
        Step(w, v) == LET a == Kalloc(w.m) IN
                      IF w.ok THEN MapPage([w EXCEPT !.m = Zeroed(a)], v, a[2], [NoEnt EXCEPT !.u = TRUE])
                      ELSE w
        Undo(d, w) == [m |-> Back(d.m, w), vm |-> d.vm, sz |-> 0]
        Result(w) == IF w.ok THEN [m |-> w.m, vm |-> w.vm, sz |-> new]
                     ELSE Undo(Deallocuvm(w.m, w.vm, new, old), w)
        start == [m |-> m, vm |-> vm, ok |-> TRUE, left |-> 0]
    IN  IF new >= KERNBASE THEN [m |-> m, vm |-> vm, sz |-> 0]
        ELSE IF new < old THEN [m |-> m, vm |-> vm, sz |-> old]
        ELSE Result(FoldLeft(Step, start, Ascending(Between(old, new))))

\* The child has a page of its own for every page of its parent.
Copyuvm(m, vm, sz) ==
    LET Copied(a, v) == IF a[2] = 0 THEN a[1]
                        ELSE [a[1] EXCEPT !.tag[a[2]] = a[1].tag[vm.map[v].pa]]
        Step(w, v) ==
            LET a == Kalloc(w.m) IN
            IF ~w.ok THEN w
            ELSE IF vm.map[v].pa = 0
            THEN [w EXCEPT !.m = Oops(@, "copyuvm: page not present"), !.ok = FALSE, !.left = 0]
            ELSE MapPage([w EXCEPT !.m = Copied(a, v)], v, a[2], vm.map[v])
        Result(w) == OrFreed(IF w.ok THEN w ELSE [w EXCEPT !.m = Back(@, w)])
        All(d) == IF d.ok THEN Result(FoldLeft(Step, d @@ [left |-> 0], Ascending(Between(0, sz))))
                  ELSE d
    IN  All(Setupkvm(m))

Clearpteu(vm, v) == [vm EXCEPT !.map[v].u = FALSE]

\* copyout(): whether every page of the n > 0 words from va is a user page.
Uva2ka(vm, v) == v \in VPages /\ vm.map[v].pa # 0 /\ vm.map[v].u
Copyout(vm, va, n) == \A a \in va .. va + n - 1 : a >= 0 /\ Uva2ka(vm, a \div PGSIZE)
-----------------------------------------------------------------------------
(* growproc(): the size is an unsigned integer, which wraps below zero.  A *)
(* size of 0 is taken for a failure, after the pages are gone.             *)
Growproc(m, vm, sz, n) ==
    LET new == IF sz + n < 0 THEN 2 * KERNBASE + sz + n ELSE sz + n
        Grown(g) == IF g.sz = 0 /\ n # 0 THEN [g EXCEPT !.sz = sz] @@ [r |-> -1] ELSE g @@ [r |-> sz]
    IN  Grown(IF n > 0 THEN Allocuvm(m, vm, sz, new)
              ELSE IF n < 0 THEN Deallocuvm(m, vm, sz, new)
              ELSE [m |-> m, vm |-> vm, sz |-> sz])
=============================================================================
