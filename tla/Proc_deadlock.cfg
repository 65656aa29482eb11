SPECIFICATION Spec
CONSTANTS
  cpu0 = cpu0
  cpu1 = cpu1
  nocpu = nocpu
  NPROC = 2
  CPUs = {cpu0, cpu1}
  BootCpu = cpu0
  NoCpu = nocpu
  MaxPid = 2
  KillPids = {}
  MaxSleep = 1
  Lottery = FALSE
CHECK_DEADLOCK FALSE
INVARIANTS NoLockCycle
