SPECIFICATION FairSpec
CONSTANTS
  Servers = {s1, s2, s3, s4}
  POWER_ON = 3
  HighPeriod = 2
  LowPeriod = 4
  PowerOFFPercent = 50
  PoolPercent = 50
  MaxClock = 7
CHECK_DEADLOCK FALSE
INVARIANTS
  ListsMatchFlags
  NoVMsOnDormantServers
  PowerOnNeverMissed
PROPERTIES
  LifeCycle
  PowerOnCompletes
