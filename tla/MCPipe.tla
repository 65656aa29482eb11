------------------------------- MODULE MCPipe -------------------------------
(***************************************************************************)
(* Model values for the runs of Pipe.                                      *)
(***************************************************************************)
EXTENDS Pipe, TLC
CONSTANTS p1, p2, p3, x, y, noproc

Symmetry == Permutations(Procs) \cup Permutations(Bytes)
=============================================================================
