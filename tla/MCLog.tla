-------------------------------- MODULE MCLog -------------------------------
(***************************************************************************)
(* Model values for the runs of Log.                                       *)
(***************************************************************************)
EXTENDS Log, TLC
CONSTANTS p1, p2, b1, b2, v0, v1, noval, noblock
=============================================================================
