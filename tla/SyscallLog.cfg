SPECIFICATION Spec
CONSTANTS
  p1 = p1
  p2 = p2
  noproc = noproc
  Procs = {p1, p2}
  NoProc = noproc
  RSCOUNTMAX = 6
  TICKETS = 1
  NArgs = 2
  MAXARGS = 2
  MaxCalls = 8
SYMMETRY Symmetry
CHECK_DEADLOCK FALSE
INVARIANTS HistoryKept
