SPECIFICATION Spec
CONSTANTS
  Batteries <- MCBatteries
  StepsPerDay = 3
  Horizon = 3
  Origins = 4
INVARIANTS
  TypeOK
  AppliedIsPhysical
  StaysFeasible
CHECK_DEADLOCK FALSE
