------------------------------ MODULE MCConsole ------------------------------
(* Two processes on two CPUs, and the algorithms of Library.               *)
EXTENDS Console, Library

Symmetry == Permutations(Procs)

\* A letter and the keys that consoleintr() treats in ways of their own.
MCKeys == {"a", "\r", "^D", "^H", "^U", "^P"}

\* The algorithms are right, which is a matter of no state.
LibraryRight == Init => TextKept /\ MemoryKept
=============================================================================
