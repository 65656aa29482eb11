SPECIFICATION Spec
CONSTANTS
  p1 = p1
  p2 = p2
  p3 = p3
  x = x
  y = y
  noproc = noproc
  Procs = {p1, p2, p3}
  NoProc = noproc
  Bytes = {x, y}
  PIPESIZE = 2
  W = 4
  MaxN = 2
CHECK_DEADLOCK FALSE
INVARIANTS SleepersJustified NotUsedAfterFree
PROPERTIES ImplementsByteStream HonestReturns
SYMMETRY Symmetry
