------------------------------- MODULE Lottery ------------------------------
(***************************************************************************)
(* The lottery scheduler (scheduler() of Lottery/proc.c, random_at_most()  *)
(* of Lottery/rand.c): every CPU counts the tickets of the RUNNABLE        *)
(* processes without ptable.lock, draws a number, takes the lock and goes  *)
(* over the table.                                                         *)
(*                                                                         *)
(* Abstractions: a process is RUNNABLE, RUNNING or SLEEPING, it gives up   *)
(* the CPU when it likes, and is woken when others like (Proc has the      *)
(* details); the switch to it releases ptable.lock at once; genrand() may  *)
(* yield any value.                                                        *)
(***************************************************************************)
EXTENDS Naturals, FiniteSets

CONSTANTS
  NPROC, CPUs, NoCpu,
  TICKETS,      \* tickets of a new process (proc.c:204)
  MaxTicket,    \* bound: tickets a process comes to
  RAND_MAX

ASSUME LotteryAssumption ==
  /\ NPROC \in Nat \ {0} /\ NoCpu \notin CPUs
  /\ TICKETS \in Nat \ {0} /\ MaxTicket \in Nat /\ TICKETS <= MaxTicket
  /\ RAND_MAX \in Nat /\ NPROC * MaxTicket <= RAND_MAX

Slots == 1 .. NPROC

VARIABLES
  state, ticket,
  pc, slot,                 \* where the scheduler of a CPU is
  total, chance, passed,    \* its lottery_total_tickets, chance, passed_tickets
  ran,                      \* it has run somebody in this pass
  lock                      \* ptable.lock

drawVars == <<total, chance, passed>>
vars == <<state, ticket, pc, slot, drawVars, ran, lock>>

TypeOK ==
  /\ state \in [Slots -> {"RUNNABLE", "RUNNING", "SLEEPING"}]
  /\ ticket \in [Slots -> TICKETS .. MaxTicket]
  /\ pc \in [CPUs -> {"count", "draw", "acquire", "pass", "run"}]
  /\ slot \in [CPUs -> 1 .. NPROC + 1]
  /\ total \in [CPUs -> 0 .. NPROC * MaxTicket]
  /\ \A c \in CPUs : chance[c] \in 0 .. total[c]
  /\ passed \in [CPUs -> 0 .. NPROC * MaxTicket]
  /\ ran \in [CPUs -> BOOLEAN]
  /\ lock \in CPUs \cup {NoCpu}

Init ==
  /\ state \in [Slots -> {"RUNNABLE", "SLEEPING"}]
  /\ ticket = [p \in Slots |-> TICKETS]
  /\ pc = [c \in CPUs |-> "count"]
  /\ slot = [c \in CPUs |-> 1]
  /\ total = [c \in CPUs |-> 0]
  /\ chance = [c \in CPUs |-> 0]
  /\ passed = [c \in CPUs |-> 0]
  /\ ran = [c \in CPUs |-> FALSE]
  /\ lock = NoCpu

-----------------------------------------------------------------------------
(* random_at_most()                                                        *)

NumRand == RAND_MAX + 1

(* Mutant of BinSize: rounded up.                                          *)
M_BinSize(max) == (NumRand + max) \div (max + 1)

BinSize(max) == NumRand \div (max + 1)
Defect(max)  == NumRand % (max + 1)

(* The values of genrand() that end the loop, ...                          *)
Accepted(max) == {x \in 0 .. RAND_MAX : NumRand - Defect(max) > x}

(* ... those of them that give v.                                          *)
Giving(v, max) == {x \in Accepted(max) : x \div BinSize(max) = v}

-----------------------------------------------------------------------------
(* One round of the counting loop, without the lock.                       *)
Count(c) ==
  /\ pc[c] = "count"
  /\ total' = [total EXCEPT ![c] =
       @ + (IF state[slot[c]] = "RUNNABLE" THEN ticket[slot[c]] ELSE 0)]
  /\ slot' = [slot EXCEPT ![c] = IF @ = NPROC THEN 1 ELSE @ + 1]
  /\ pc' = [pc EXCEPT ![c] = IF slot[c] = NPROC THEN "draw" ELSE "count"]
  /\ UNCHANGED <<state, ticket, chance, passed, ran, lock>>

DrawValue(c, v) ==
  /\ pc[c] = "draw"
  /\ Giving(v, total[c]) # {}
  /\ chance' = [chance EXCEPT ![c] = v]
  /\ pc' = [pc EXCEPT ![c] = "acquire"]
  /\ UNCHANGED <<state, ticket, slot, total, passed, ran, lock>>

Draw(c) == \E v \in 0 .. RAND_MAX : DrawValue(c, v)

AcquireTable(c) ==
  /\ pc[c] = "acquire"
  /\ lock = NoCpu
  /\ lock' = c
  /\ pc' = [pc EXCEPT ![c] = "pass"]
  /\ UNCHANGED <<state, ticket, slot, drawVars, ran>>

(* Mutant of Loses: one ticket too many.                                   *)
M_Loses(c, p) == passed[c] + ticket[p] <= chance[c]

(* passed_tickets + p->ticket < chance                                     *)
Loses(c, p) == passed[c] + ticket[p] < chance[c]

(* The pass moves over a process, ...                                      *)
Skip(c) ==
  /\ pc[c] = "pass" /\ slot[c] <= NPROC
  /\ LET p == slot[c]
     IN \/ /\ state[p] # "RUNNABLE"
           /\ UNCHANGED passed
        \/ /\ state[p] = "RUNNABLE" /\ Loses(c, p)
           /\ passed' = [passed EXCEPT ![c] = @ + ticket[p]]
  /\ slot' = [slot EXCEPT ![c] = @ + 1]
  /\ UNCHANGED <<state, ticket, pc, total, chance, ran, lock>>

(* ... or switches to it.                                                  *)
Dispatch(c) ==
  /\ pc[c] = "pass" /\ slot[c] <= NPROC
  /\ state[slot[c]] = "RUNNABLE" /\ ~ Loses(c, slot[c])
  /\ state' = [state EXCEPT ![slot[c]] = "RUNNING"]
  /\ pc' = [pc EXCEPT ![c] = "run"]
  /\ ran' = [ran EXCEPT ![c] = TRUE]
  /\ lock' = NoCpu
  /\ UNCHANGED <<ticket, slot, drawVars>>

(* Mutant of ResetDraw: the draw is kept for the rest of the pass.         *)
M_ResetDraw(c) == UNCHANGED drawVars

(* chance = passed_tickets = lottery_total_tickets = 0                     *)
ResetDraw(c) ==
  /\ chance' = [chance EXCEPT ![c] = 0]
  /\ passed' = [passed EXCEPT ![c] = 0]
  /\ total' = [total EXCEPT ![c] = 0]

(* Mutant of Onward: the pass ends with the winner.                        *)
M_Onward(s) == NPROC + 1

(* The pass goes on behind the process that ran.                           *)
Onward(s) == s + 1

(* The process yields or sleeps; swtch() returns in scheduler().           *)
SwitchBack(c) ==
  /\ pc[c] = "run"
  /\ lock = NoCpu
  /\ lock' = c
  /\ \E s \in {"RUNNABLE", "SLEEPING"} :
       state' = [state EXCEPT ![slot[c]] = s]
  /\ slot' = [slot EXCEPT ![c] = Onward(@)]
  /\ pc' = [pc EXCEPT ![c] = "pass"]
  /\ ResetDraw(c)
  /\ UNCHANGED <<ticket, ran>>

(* The end of the pass; the counters start at 0 again.                     *)
EndPass(c) ==
  /\ pc[c] = "pass" /\ slot[c] > NPROC
  /\ pc' = [pc EXCEPT ![c] = "count"]
  /\ slot' = [slot EXCEPT ![c] = 1]
  /\ ResetDraw(c)
  /\ ran' = [ran EXCEPT ![c] = FALSE]
  /\ lock' = NoCpu
  /\ UNCHANGED <<state, ticket>>

(* Some wakeup(), under ptable.lock.                                       *)
Wakeup(p) ==
  /\ state[p] = "SLEEPING" /\ lock = NoCpu
  /\ state' = [state EXCEPT ![p] = "RUNNABLE"]
  /\ UNCHANGED <<ticket, pc, slot, drawVars, ran, lock>>

(* log_syscalls() costs the kernel a write past p->syscall_count[], into   *)
(* p->ticket (module SyscallLog).                                          *)
GainTicket(c) ==
  /\ pc[c] = "run" /\ ticket[slot[c]] < MaxTicket
  /\ ticket' = [ticket EXCEPT ![slot[c]] = @ + 1]
  /\ UNCHANGED <<state, pc, slot, drawVars, ran, lock>>

Step(c) ==
  \/ Count(c) \/ Draw(c) \/ AcquireTable(c)
  \/ Skip(c) \/ Dispatch(c) \/ SwitchBack(c) \/ EndPass(c)

Next ==
  \/ \E c \in CPUs : Step(c) \/ GainTicket(c)
  \/ \E p \in Slots : Wakeup(p)

Spec == Init /\ [][Next]_vars

-----------------------------------------------------------------------------
(* Safety                                                                  *)

(* random_at_most(max) returns every value of 0 .. max for equally many    *)
(* values of genrand(), and no other value, whatever total was counted.    *)
DrawUniform ==
  /\ TypeOK
  /\ \A c \in CPUs :
       pc[c] = "draw" =>
         /\ \A v \in 0 .. total[c] :
              Cardinality(Giving(v, total[c])) = NumRand \div (total[c] + 1)
         /\ \A v \in total[c] + 1 .. RAND_MAX : Giving(v, total[c]) = {}

(* The tickets of the RUNNABLE processes in front of slot s.               *)
Tickets(s) ==
  {t \in Slots \X (1 .. MaxTicket) :
     t[1] < s /\ state[t[1]] = "RUNNABLE" /\ t[2] <= ticket[t[1]]}

TicketsBefore(s) == Cardinality(Tickets(s))

(* The first process of a pass holds the ticket that was drawn, by the     *)
(* numbering of the tickets of all RUNNABLE processes in table order, at   *)
(* the moment the CPU has ptable.lock; and a pass runs nobody only if      *)
(* there are fewer tickets left than drawn.                                *)
WinnerAction ==
  \A c \in CPUs :
    pc[c] = "pass" /\ ~ ran[c] =>
      /\ pc'[c] = "run" =>
           /\ TicketsBefore(slot[c]) < chance[c] \/ TicketsBefore(slot[c]) = 0
           /\ chance[c] <= TicketsBefore(slot[c] + 1)
      /\ pc'[c] = "count" =>
           TicketsBefore(NPROC + 1) < chance[c] \/ TicketsBefore(NPROC + 1) = 0

WinnerHoldsTicket == [][WinnerAction]_vars

(* After the winner the pass leaves out nobody who is RUNNABLE.            *)
RestAction ==
  \A c \in CPUs :
    pc[c] = "pass" /\ ran[c] /\ pc'[c] = "pass" /\ slot'[c] # slot[c] =>
      state[slot[c]] # "RUNNABLE"

RestOfPassRuns == [][RestAction]_vars

-----------------------------------------------------------------------------
(* Liveness                                                                *)

(* CPUs run, processes give them back, a lock that is free again and again *)
(* is taken, and 0 is drawn again and again.                               *)
Fairness ==
  \A c \in CPUs :
    /\ SF_vars(Step(c))
    /\ SF_vars(DrawValue(c, 0))

LiveSpec == Spec /\ Fairness

(* No process is starved by a lottery in which 0 comes up again and again: *)
(* the pass then starts with the first RUNNABLE process.                   *)
RunnableRuns ==
  \A p \in Slots : state[p] = "RUNNABLE" ~> state[p] = "RUNNING"
=============================================================================
