SPECIFICATION Spec
CONSTANTS
  Batteries <- MCBatteries
  StepsPerDay = 3
  Horizon = 3
  Origins = 4
INVARIANT
  RuleBasedIsPhysical
CHECK_DEADLOCK FALSE
