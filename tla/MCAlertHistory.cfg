SPECIFICATION Spec
CONSTANTS
  s1 = s1
  s2 = s2
  runner = runner
  operator = operator
  Streams <- OneStream
  Severities <- OneSeverity
  Runners <- OneRunner
  Operators <- OneOperator
  NoAlert = NoAlert
  Serial = TRUE
  MaxHour = 2
  DedupHours = 1
  AutoResolveHours = 1
  MaxRuns = 1
  MaxBatch = 2
  MaxClock = 3
  MaxAborts = 0
PROPERTY
  EveryChangeAddsItsRow
CHECK_DEADLOCK FALSE
