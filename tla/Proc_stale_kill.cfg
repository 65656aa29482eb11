SPECIFICATION Spec
CONSTANTS
  cpu0 = cpu0
  cpu1 = cpu1
  nocpu = nocpu
  NPROC = 3
  CPUs = {cpu0}
  BootCpu = cpu0
  NoCpu = nocpu
  MaxPid = 3
  KillPids = {0}
  MaxSleep = 1
  Lottery = FALSE
CHECK_DEADLOCK FALSE
PROPERTIES NewProcNotKilled
