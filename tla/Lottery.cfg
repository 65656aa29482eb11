SPECIFICATION LiveSpec
CONSTANTS
  c1 = c1
  c2 = c2
  nocpu = nocpu
  NPROC = 2
  CPUs = {c1, c2}
  NoCpu = nocpu
  TICKETS = 1
  MaxTicket = 3
  RAND_MAX = 10
INVARIANTS DrawUniform
PROPERTIES WinnerHoldsTicket RestOfPassRuns RunnableRuns
