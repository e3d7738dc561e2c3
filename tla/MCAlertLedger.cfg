SPECIFICATION Spec
CONSTANTS
  s1 = s1
  Streams <- MCStreams
  Severities <- MCSeverities
  NoAlert = NoAlert
  MaxHour = 3
  DedupHours = 1
  AutoResolveHours = 2
  MaxClock = 2
INVARIANTS
  LedgerTypeOK
  CountMatchesJournal
  EachAnomalyInOneAlert
PROPERTY
  ObservationKeepsDecision
CHECK_DEADLOCK FALSE
