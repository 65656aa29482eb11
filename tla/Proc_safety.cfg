SPECIFICATION Spec
CONSTANTS
  cpu0 = cpu0
  cpu1 = cpu1
  nocpu = nocpu
  NPROC = 3
  CPUs = {cpu0, cpu1}
  BootCpu = cpu0
  NoCpu = nocpu
  MaxPid = 3
  KillPids = {0, 1, 2}
  MaxSleep = 1
  Lottery = TRUE
CHECK_DEADLOCK FALSE
INVARIANTS SwitchSafe StackLive WaitJustified SleepJustified ParentAlive
PROPERTIES ReapedByParent
