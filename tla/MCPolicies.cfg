SPECIFICATION FairPoliceSpec
CONSTANTS
  Servers = {1, 2, 3, 4, 5}
  Situations <- MCSituations
CHECK_DEADLOCK FALSE
INVARIANTS
  InRange
  PassComplete
PROPERTIES
  TargetsLimited
  PoolSteps
  Returns
