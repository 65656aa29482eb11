SPECIFICATION LiveSpec
CONSTANTS
  p1 = p1
  p2 = p2
  b1 = b1
  b2 = b2
  v0 = v0
  v1 = v1
  noval = noval
  noblock = noblock
  Procs = {p1, p2}
  Blocks = {b1, b2}
  Vals = {v0, v1}
  InitVal = v0
  NoVal = noval
  NoBlock = noblock
  LOGSIZE = 4
  MAXOPBLOCKS = 2
  NLOG = 3
  MaxCrashes = 2
INVARIANTS LogNotReused SleepersHaveWaker
PROPERTIES ImplementsAtomicDisk WriteAhead SleeperCanEnter
CHECK_DEADLOCK FALSE
