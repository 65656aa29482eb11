------------------------------ MODULE LineStream ------------------------------
(***************************************************************************)
(* What the console promises of its input: the lines that were finished,   *)
(* in the order and with the characters they were finished with, each      *)
(* character given to one reader, and one line that can still be changed.  *)
(***************************************************************************)
EXTENDS Naturals, Sequences

CONSTANTS Chars, Nothing, EOL, EOF,
          Capacity    \* characters in all

VARIABLES queue,      \* finished and not yet read
          line,       \* still edited
          last        \* the character a reader has just got, or Nothing

Init == Len(queue) <= Capacity /\ line = <<>> /\ last = Nothing

Typed(ch) ==
    LET longer == Append(line, ch) IN
    /\ Len(queue) + Len(line) < Capacity
    /\ IF ch \in {EOL, EOF} \/ Len(queue) + Len(longer) = Capacity
       THEN queue' = queue \o longer /\ line' = <<>>
       ELSE line' = longer /\ UNCHANGED queue
    /\ UNCHANGED last

Erased == /\ line # <<>>
          /\ line' = SubSeq(line, 1, Len(line) - 1)
          /\ UNCHANGED <<queue, last>>

Killed == line' = <<>> /\ UNCHANGED <<queue, last>>

Got == /\ queue # <<>> /\ Head(queue) # EOF
       /\ queue' = Tail(queue) /\ last' = Head(queue)
       /\ UNCHANGED line

Ended == /\ queue # <<>> /\ Head(queue) = EOF
         /\ queue' = Tail(queue)
         /\ UNCHANGED <<line, last>>

Forgotten == last' = Nothing /\ UNCHANGED <<queue, line>>

Next == (\E ch \in Chars : Typed(ch)) \/ Erased \/ Killed \/ Got \/ Ended \/ Forgotten

Spec == Init /\ [][Next]_<<queue, line, last>>
=============================================================================
