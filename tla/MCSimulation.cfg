SPECIFICATION FairSpec
CONSTANTS
  Traces <- MCTraces
  SWF_BUFFER_MIN_LINES = 2
  SKIP_x_SECONDS = 1
  FINISHES_AT = 7
  PERIODIC_LOG_INTERVAL = 2
  MAX_NUMBER_OF_ELEMENTS_LOG_INTERVAL = 3
  Capacity = 2
  MaxStandstill = 2
  MaxClock = 16
  Submits = {0, 1, 8, 9}
  Dependencies = {0, 2}
CHECK_DEADLOCK FALSE
INVARIANTS
  NoJobLost
  SubmittedInTime
  OnlyTheseGivenUp
PROPERTIES
  Terminates
