SPECIFICATION Spec
CONSTANTS
  s1 = s1
  s2 = s2
  runner = runner
  operator = operator
  Streams <- OneStream
  Severities <- OneSeverity
  Runners <- OneRunner
  Operators <- OneOperator
  NoAlert = NoAlert
  Serial = TRUE
  MaxHour = 3
  DedupHours = 1
  AutoResolveHours = 1
  MaxRuns = 2
  MaxBatch = 2
  MaxClock = 2
  MaxAborts = 0
INVARIANT
  CountFitsSpan
PROPERTIES
  LedgerSpec
  SweepLeavesNoStaleAlert
CHECK_DEADLOCK FALSE
