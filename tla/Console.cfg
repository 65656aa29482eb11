SPECIFICATION Spec
CONSTANTS
  Cpus = {1, 2}
  NoCpu = 0
  Locks = {"cons", "ptable"}
  NoLock = "none"
  Procs = {p1, p2}
  NoProc = nobody
  Nothing = "nothing"
  IntrCpu = 1
  Keys <- MCKeys
  INPUT_BUF = 3
  W = 6
  Sizes = {2}
  MaxKeys = 3
  MaxKilled = 1
  MaxText = 6
  BUFSIZE = 5
  DIRSIZ = 2
  WORD = 5
  MORECORE = 3
  HEAPMAX = 9
  SECTSIZE = 3
  MTN = 4
  MTM = 3
INVARIANTS LibraryRight SleepersJustified SpinCyclesNeedExit
PROPERTIES ImplementsLineStream Spinlocks
CHECK_DEADLOCK FALSE
SYMMETRY Symmetry
