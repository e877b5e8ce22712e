SPECIFICATION Spec
CONSTANTS
  Servers = {s1, s2}
  POWER_ON = 2
  HighPeriod = 2
  LowPeriod = 4
  PowerOFFPercent = 0
  PoolPercent = 50
  MaxClock = 5
  Jobs = {1, 2}
  numCPUs <- MCnumCPUs
  runTimeSec <- MCrunTimeSec
  TRANSFER_TIME_VMS = 2
  REASSIGN_VMS = FALSE
  ReassignPeriod = 5
  MaxVMs = 5
CHECK_DEADLOCK FALSE
INVARIANTS
  ReportFindsItsJob
