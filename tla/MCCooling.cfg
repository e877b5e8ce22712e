SPECIFICATION Spec
CONSTANTS
  Servers = {1, 2}
  SIZE_OF_HEAT_TIMING_BUFFER = 3
  ModedAirTravelTimeFromCRAC <- MCTravel
  Heats <- MCHeats
  Controls = {"constant", "instant", "gradual"}
  CRAC_SUPPLY_TEMP_IS_CONSTANT_AT = 3
  LOWEST_SUPPLY_TEMPERATURE = 1
  Warm = 4
  Hot = 8
  EMERGENCY_TEMPERATURE = 9
  MaxClock = 8
CHECK_DEADLOCK FALSE
INVARIANTS
  InletsCurrent
  NoOvershoot
