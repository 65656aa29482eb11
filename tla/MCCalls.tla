------------------------------ MODULE MCCalls ------------------------------
EXTENDS Programs
MCScenarios == Usertests \cup Races \cup Limits \cup {initmain} \cup Shell
=============================================================================
