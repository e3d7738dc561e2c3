SPECIFICATION Spec
CONSTANTS
  k1 = k1
  k2 = k2
  v1 = v1
  v2 = v2
  Keys <- MCKeys
  Values <- MCValues
  NoRow = NoRow
  NoDemand = NoDemand
  BadDemand = BadDemand
  NoDir = NoDir
  MaxRuns = 3
  MaxFaults = 1
  MaxCrashes = 0
PROPERTY
  StoreSpec
CHECK_DEADLOCK FALSE
