SPECIFICATION Spec
CONSTANTS
  EMERGENCY_TEMPERATURE = 30
  TEMPERATURE_SENSING_PERFORMANCE_CAPPING = TRUE
  CONSTANT_FAN_POWER = FALSE
  FAN_RPM_NO_LIMIT = FALSE
  Chassis = {1}
  Servers = {1, 2}
  PERIODIC_LOG_INTERVAL = 2
  REASSIGN_VMS = TRUE
  ReassignPeriod = 3
  LOWEST_SUPPLY_TEMPERATURE = 10
  Supplies = {10}
  Inlets <- MCInlets
  Loads = {80}
  Uninitialized = 9
  MaxClock = 4
  MaxVMs = 2
CHECK_DEADLOCK FALSE
INVARIANTS
  HeatIsOfTheVMs
  TwoAccountsAgree
  IntervalsAddUp

