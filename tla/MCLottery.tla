------------------------------ MODULE MCLottery -----------------------------
(***************************************************************************)
(* Model values for the runs of Lottery.                                   *)
(***************************************************************************)
EXTENDS Lottery, TLC
CONSTANTS c1, c2, nocpu
=============================================================================
