SPECIFICATION FairSpec
CONSTANTS
  Traces <- MCTraces
  SWF_BUFFER_MIN_LINES = 10
  SKIP_x_SECONDS = 0
  FINISHES_AT = 0
  PERIODIC_LOG_INTERVAL = 2
  MAX_NUMBER_OF_ELEMENTS_LOG_INTERVAL = 2
  Capacity = 6
  MaxStandstill = 0
  MaxClock = 16
  Submits = {0, 2}
  Dependencies = {0, 2}
CHECK_DEADLOCK FALSE
PROPERTIES
  UsersReturns
