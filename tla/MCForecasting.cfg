SPECIFICATION Spec
CONSTANTS
  NaN = NaN
  north = north
  south = south
  Horizon = 2
  Step = 2
  Day = 2
  Week = 3
  GlobalLags = {1, 2, 3, 5}
  GlobalRolling = {2}
  TargetRolling = {2}
  WeatherLags = {1}
  WeatherRolling = {2}
  Trainers = {1, 2}
  Global = "grid"
  Targets <- MCTargets
  Models = {"lightgbm", "catboost"}
  Errors = {0, 20}
  FinalWindows = 2
  TuningWindows = 1
  Threshold = 5
  Horizons = {2, 4}
  Requesters = {1, 2}
  TTL = 2
  MaxClock = 3
  MaxFaults = 1
  Starts <- MCStarts
  Values = {5}
INVARIANTS
  ForecastingTypeOK
  TuningStaysBehind
  SelectionSuffices
  TrainServeAgree
  ChampionEarnedIt
  LatestNewestWhole
  DispatchFromChampions
  PointsBelongToARun
  CacheIsFresh
PROPERTIES
  RowsOnlyReplaced
CHECK_DEADLOCK FALSE
