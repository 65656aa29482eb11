----------------------------- MODULE ByteStream -----------------------------
(***************************************************************************)
(* What a pipe of xv6 (pipe.c) promises to the processes that share it: a  *)
(* first-in first-out stream of bytes of bounded capacity.                 *)
(***************************************************************************)
EXTENDS Naturals, Sequences

CONSTANTS Bytes, Capacity

VARIABLES
  queue,    \* the bytes written and not yet read
  last      \* the byte delivered last

svars == <<queue, last>>

SInit == queue = <<>> /\ last \in Bytes

Put(b) ==
  /\ Len(queue) < Capacity
  /\ queue' = Append(queue, b)
  /\ UNCHANGED last

Get ==
  /\ queue # <<>>
  /\ last' = Head(queue)
  /\ queue' = Tail(queue)

SNext == Get \/ \E b \in Bytes : Put(b)

SSpec == SInit /\ [][SNext]_svars
=============================================================================
