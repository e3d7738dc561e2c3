SPECIFICATION FairSpec
CONSTANTS
  s1 = s1
  s2 = s2
  runner = runner
  operator = operator
  Streams <- OneStream
  Severities <- OneSeverity
  Runners <- OneRunner
  Operators <- OneOperator
  NoAlert = NoAlert
  Serial = FALSE
  MaxHour = 2
  DedupHours = 1
  AutoResolveHours = 1
  MaxRuns = 2
  MaxBatch = 2
  MaxClock = 1
  MaxAborts = 1
INVARIANTS
  TypeOK
  TrailExplainsAlerts
  OverwritesShow
  HandledAnomaliesAreJournaled
  CountFitsSpanUnlessCut
PROPERTY
  EveryAnomalyJournaled
CHECK_DEADLOCK FALSE
