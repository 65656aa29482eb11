SPECIFICATION LiveSpec
CONSTANTS
  p1 = p1
  p2 = p2
  k1 = k1
  k2 = k2
  b1 = b1
  b2 = b2
  b3 = b3
  v0 = v0
  v1 = v1
  noproc = noproc
  nobuf = nobuf
  noblock = noblock
  Procs = {p1, p2}
  NoProc = noproc
  Bufs = {k1, k2}
  NoBuf = nobuf
  Blocks = {b1, b2, b3}
  NoBlock = noblock
  Vals = {v0, v1}
CHECK_DEADLOCK FALSE
INVARIANTS BufferStable SleepersJustified
PROPERTIES ImplementsBlockStore BreadProceeds
