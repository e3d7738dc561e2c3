SPECIFICATION Spec
CONSTANTS
  k1 = k1
  k2 = k2
  v1 = v1
  v2 = v2
  Keys <- MCKeys
  Values <- MCValues
  NoRow = NoRow
  NoDemand = NoDemand
  BadDemand = BadDemand
  NoDir = NoDir
  MaxRuns = 2
  MaxFaults = 2
  MaxCrashes = 1
INVARIANTS
  TypeOK
  NothingDestroyed
PROPERTY
  EveryFetchedHourAccounted
CHECK_DEADLOCK FALSE
