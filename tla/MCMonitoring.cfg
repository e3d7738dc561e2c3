SPECIFICATION Spec
CONSTANTS
  NaN = NaN
  NoTable = NoTable
  Torn = Torn
  Malformed = Malformed
  north = north
  south = south
  Rules <- MCRules
  Residual <- MCResidual
  TargetLists <- MCTargets
  DetectorSets <- MCDetectors
  Windows <- MCWindows
  Lookback = 2
  MinTraining = 1
  MaxCuts = 1
  Amounts <- MCAmounts
  PageSize = 2
  MaxRetries = 1
  Locations <- MCLocations
  Radiations = {20}
  FirstDay = 12
  LastDay = 13
  ChunkDays = 1
  MaxFaults = 1
  Starts <- MCStarts
INVARIANTS
  MonitoringTypeOK
  AlertsCoverReports
  GapsReported
  EnsemblesExplained
  ResidualsAreCausal
  FlatlinesAreMaximal
  FetchCoversUpstream
  RegionsFollowLocations
  FilesHoldTables
  GatherCoversRequest
CHECK_DEADLOCK FALSE
