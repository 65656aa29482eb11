---------------------------- MODULE MCSyscallLog ----------------------------
(***************************************************************************)
(* Model values for the runs of SyscallLog.                                *)
(***************************************************************************)
EXTENDS SyscallLog, TLC
CONSTANTS p1, p2, noproc

Symmetry == Permutations(Procs)
=============================================================================
