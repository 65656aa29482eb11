----------------------------- MODULE SyscallLog -----------------------------
(***************************************************************************)
(* The history of system calls (syscalls_history, proc.c): sys_read()      *)
(* notes its arguments with set_last_syscall_info() before it blocks, and  *)
(* syscall() registers every call that returns with register_syscall().    *)
(* When the table is full its second half is moved to the front.           *)
(*                                                                         *)
(* Calls are numbered in the order in which they are registered.  Of an    *)
(* argument only the process that has noted it is kept.  A record has room *)
(* for MAXARGS of them; behind args[] is args_c, which one argument more   *)
(* overwrites and which says where the next is written: from there on the  *)
(* kernel's memory may hold anything, and the model stops (overrun).       *)
(***************************************************************************)
EXTENDS Naturals, Sequences, FiniteSets

CONSTANTS
  Procs,
  NoProc,
  RSCOUNTMAX,   \* param.h:15
  TICKETS,      \* tickets of a new process (proc.c:204)
  NArgs,        \* arguments noted by sys_read(); other calls note none
  MAXARGS,      \* arguments a record has room for: args[10] (proc.c:18)
  MaxCalls      \* bound: calls registered

ASSUME SyscallLogAssumption ==
  /\ NoProc \notin Procs
  /\ RSCOUNTMAX \in Nat /\ RSCOUNTMAX > 2 /\ RSCOUNTMAX % 2 = 0
  /\ TICKETS \in Nat
  /\ MAXARGS \in Nat /\ NArgs \in 0 .. MAXARGS
  /\ MaxCalls \in Nat

VARIABLES
  sf,        \* the records; call 0 is none
  rscount, tscount,
  incall,    \* the system call a process is in
  toNote,    \* arguments it has still to note
  count,     \* sum of p->syscall_count[]
  ticket,    \* p->ticket, the field after syscall_count[]
  overrun    \* an argument has been written past the end of args[]

vars == <<sf, rscount, tscount, incall, toNote, count, ticket, overrun>>

(* SYS_log_syscalls is MAXSYSCALL, one past the end of syscall_count[].    *)
Calls == {"read", "log_syscalls"}

Slots == 0 .. RSCOUNTMAX - 1

NoRecord == [call |-> 0, pid |-> NoProc, args |-> <<>>]

TypeOK ==
  /\ sf \in [Slots -> [call : 0 .. MaxCalls, pid : Procs \cup {NoProc}, args : Seq(Procs)]]
  /\ \A s \in Slots : Len(sf[s].args) <= MAXARGS
  /\ rscount \in Slots
  /\ tscount \in 0 .. MaxCalls
  /\ toNote \in [Procs -> 0 .. NArgs]
  /\ incall \in [Procs -> Calls \cup {"none"}]
  /\ count \in [Procs -> Nat] /\ ticket \in [Procs -> Nat]
  /\ overrun \in BOOLEAN

Init ==
  /\ sf = [s \in Slots |-> NoRecord]
  /\ rscount = 0
  /\ tscount = 0
  /\ toNote = [p \in Procs |-> 0]
  /\ incall = [p \in Procs |-> "none"]
  /\ count = [p \in Procs |-> 0]
  /\ ticket = [p \in Procs |-> TICKETS]
  /\ overrun = FALSE

(* A read() whose arguments are bad returns before it notes any.           *)
Enter(p) ==
  /\ incall[p] = "none"
  /\ \E c \in Calls, n \in {0, NArgs} :
       /\ c # "read" => n = 0
       /\ incall' = [incall EXCEPT ![p] = c]
       /\ toNote' = [toNote EXCEPT ![p] = n]
  /\ UNCHANGED <<sf, rscount, tscount, count, ticket, overrun>>

WithArgs(r, a) == [call |-> r.call, pid |-> r.pid, args |-> a]

HasRoom(r) == Len(r.args) < MAXARGS

(* set_last_syscall_info(), under the lock: args_c is not compared with    *)
(* the size of args[].                                                     *)
SetLastSyscallInfo(p) ==
  /\ toNote[p] > 0
  /\ \/ /\ HasRoom(sf[rscount])
        /\ sf' = [sf EXCEPT ![rscount] = WithArgs(@, Append(@.args, p))]
        /\ UNCHANGED overrun
     \/ /\ ~ HasRoom(sf[rscount])
        /\ overrun' = TRUE
        /\ UNCHANGED sf
  /\ toNote' = [toNote EXCEPT ![p] = @ - 1]
  /\ UNCHANGED <<rscount, tscount, incall, count, ticket>>

Half == RSCOUNTMAX - RSCOUNTMAX \div 2

(* Mutant of Moved: the second loop is missing.                            *)
M_Moved(f) == [s \in Slots |-> IF s < Half THEN f[s + Half] ELSE f[s]]

(* The loops of register_syscall(): move the second half to the front and  *)
(* clear the arguments of what follows, but for the record that the next   *)
(* call gets (RestartAt).                                                  *)
Moved(f) ==
  [s \in Slots |-> IF s < Half THEN f[s + Half]
                   ELSE IF s > Half + 1 THEN WithArgs(f[s], <<>>)
                   ELSE f[s]]

IsFull(k) == k >= RSCOUNTMAX

(* Mutant of RestartAt: the table is left full but for one record.         *)
M_RestartAt == RSCOUNTMAX - 1

(* Where the next record goes after the move.                              *)
RestartAt == Half + 1

(* syscall_count[id]++, of the process that has made the call.             *)
Counted(p) ==
  IF incall[p] = "log_syscalls"
    THEN ticket' = [ticket EXCEPT ![p] = @ + 1] /\ UNCHANGED count
    ELSE count' = [count EXCEPT ![p] = @ + 1] /\ UNCHANGED ticket

(* The record in use becomes that of the call; its arguments are there.    *)
Recorded(p) ==
  [sf EXCEPT ![rscount] = [call |-> tscount + 1, pid |-> p, args |-> @.args]]

(* register_syscall(), under the lock.                                     *)
Register(p) ==
  /\ incall[p] # "none" /\ toNote[p] = 0
  /\ tscount < MaxCalls
  /\ incall' = [incall EXCEPT ![p] = "none"]
  /\ tscount' = tscount + 1
  /\ Counted(p)
  /\ IF IsFull(rscount + 1)
       THEN sf' = Moved(Recorded(p)) /\ rscount' = RestartAt
       ELSE sf' = Recorded(p) /\ rscount' = rscount + 1
  /\ UNCHANGED <<toNote, overrun>>

Next == ~ overrun /\ \E p \in Procs : Enter(p) \/ SetLastSyscallInfo(p) \/ Register(p)

Spec == Init /\ [][Next]_vars

-----------------------------------------------------------------------------
(* What log_syscalls() and invoked_syscalls() list.                        *)
Listed == {sf[s].call : s \in 0 .. rscount - 1}

(* The compaction loses only old calls: everything listed was registered,  *)
(* and the last calls, one less than half a table of them, are listed.     *)
RecentListed ==
  /\ 0 \notin Listed
  /\ \A k \in 1 .. tscount : k + Half - 1 > tscount => k \in Listed

(* Apart from the two copies of the record that the compaction leaves      *)
(* behind, in the first slot and in the middle, the calls are listed in    *)
(* the order in which they returned.                                       *)
ListedInOrder ==
  \A s, t \in (0 .. rscount - 1) \ {0, Half} :
    s < t => sf[s].call < sf[t].call

(* Readers with arguments in the record that the next call to return gets. *)
Noting == {p \in Procs : incall[p] = "read" /\ toNote[p] < NArgs}

(* args[] is overrun in the two ways the code has for it only: reads of    *)
(* several processes note in one record, or the record is the one whose    *)
(* args_c a compaction has not cleared (proc.c:94 starts at rscount+1).    *)
OverrunExplained ==
  \/ tscount # rscount /\ rscount = RestartAt
  \/ LET a == sf[rscount].args
     IN  \E p \in Noting, i \in DOMAIN a : a[i] \in Noting \ {p}

(* As long as no record has more arguments than it has room for, the       *)
(* history (syscalls_history, proc.c:27) lists the recent calls in order,  *)
(* compaction after compaction.  It does not stay so: args[] is overrun,   *)
(* but never by a single read in a record that was clear.                  *)
HistoryKept ==
  /\ TypeOK
  /\ IF overrun THEN OverrunExplained ELSE RecentListed /\ ListedInOrder
=============================================================================
