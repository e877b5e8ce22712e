SPECIFICATION TopologyFairSpec
CONSTANTS
  DefaultChassis = 6
  DefaultServers = 2
  Sizes <- MCSizes
  NUMBER_CHASSI_RACK = 2
  NUMBER_OF_PORTS_SWITCH_ACCESS = 6
  NUMBER_OF_PORTS_SWITCH_UP = 6
  Redundancy = 2
CHECK_DEADLOCK FALSE
INVARIANTS
  SurvivesOneSwitch
  PortsKept
PROPERTIES
  SwitchesFollowServers
  IsCreated
