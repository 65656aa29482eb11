------------------------------ MODULE MCBcache ------------------------------
(***************************************************************************)
(* Model values for the runs of Bcache.                                    *)
(***************************************************************************)
EXTENDS Bcache, TLC
CONSTANTS p1, p2, k1, k2, b1, b2, b3, v0, v1, noproc, nobuf, noblock
=============================================================================
