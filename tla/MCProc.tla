------------------------------- MODULE MCProc -------------------------------
EXTENDS Proc, FiniteSets
CONSTANTS cpu0, cpu1, nocpu
=============================================================================
