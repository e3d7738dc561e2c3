# A TLA+ project for GridMind

GridMind ingests hourly grid, renewable and weather data, forecasts it, detects
anomalies, keeps alerts about them, and simulates battery dispatch. This
directory models the parts of it that keep state and have control flow worth
checking, checks small instances with TLC, and proves theorems about them with
TLAPS for every value of the constants.

Paths below are relative to `src/src/gridmind/` unless they start with `src/`.

## 1. Inventory of the system

| Part | State it keeps | Operations | What is hard |
|---|---|---|---|
| Alert lifecycle (`alerts/`) | tables `grid_alerts`, `alert_history` | `process` (fold anomalies into alerts), `update_status` (operator), `auto_resolve` | each operation is several DuckDB connections; a detection run and operators interleave; a crash between table and history; duplicates recognised only through the history |
| Detection run (`pipelines/detect_anomalies.py`, `anomalies/`) | table `anomaly_events` | rules, residuals, isolation forest, ensemble, anomaly upsert, then `process` and `auto_resolve` | severities rewritten in several places; gaps and flat stretches at their edges; the batch is stored before its alerts; the same window is detected again on changed data |
| Demand ingestion (`pipelines/ingest.py`, `data/`) | Parquet dataset, `hourly_grid_data`, quarantine files | fetch, quarantine, reconcile, staged directory swap, upsert | two stores written one after the other; a swap of two renames; exceptions and restores |
| Weather and renewable ingestion (`weather/`, `renewables/`, their pipelines) | their tables and artifacts, the weather response cache | fetch, cache, aggregate, upsert | cache written before validation; one upsert has no transaction |
| EIA client (`data/eia_client.py`) | none | paginated fetch with retries and back-off | a revision between two pages; the termination rule of pagination |
| Validation windows (`continuity.py`) and features (`features/`) | none | contiguous segments, gap-aware windows, lags | off-by-one at gaps and window edges, leakage |
| Training and registry (`pipelines/train*.py`, `models/promotion.py`) | MLflow versions and the aliases candidate, champion | fit, register, promotion gate | alias moves in two calls; two trainings at once |
| Prediction (`pipelines/predict*.py`, `data/target_storage.py`) | table `target_forecasts` | recursive prediction, upsert without a transaction | readers between DELETE and INSERT |
| Battery optimization (`optimization/`, `pipelines/backtest_dispatch.py`) | state of charge and daily throughput of a simulation | MILP solve, validation, rolling application, baselines | a limit that spans solves; a simulation that makes itself infeasible |
| Dispatch runs (`pipelines/optimize_dispatch.py`, `optimization/storage.py`) | four DuckDB tables | align, check lineage, solve, store | four statements without a transaction; lineage checked once |
| Read services and API (`services/`, `api/`) | `TTLCache` per service | lists, details, PATCH of an alert | a value computed outside the lock, `clear()` in between; a page and its total read on two connections |
| Dashboard (`dashboard/`), CLI (`cli.py`), settings (`config.py`) | session state | render, parse, validate | none of their own |

How they interact: every store is one DuckDB file. A process has it open while a
connection is open and holds nothing from one connection to the next; this is
where all interleaving comes from. Detection runs come from the command line or
a scheduler, operators come through the API (`AlertService.update`) or the
command line (`manage_alerts`), and both end in `AlertManager`. Ingestion feeds
features, training and prediction through `hourly_grid_data`; prediction feeds
dispatch through `target_forecasts`.

What makes each part correct: alerts and their history agree and no anomaly is
counted twice; no ingested hour is lost or left out of an account; windows never
cross a gap; a champion passed the gate; a reader sees whole forecasts and whole
dispatch runs; the rows a dispatch simulation applies form one physical
schedule; a cached answer is not older than its TTL or than the last `clear()`.

`PROJECT.json` lists the components with their status, and the hazards with the
line at which each bites.

## 2. Modules

```
AlertContracts ──┬── AlertLedger          abstract: every operation is atomic
                 └── AlertLifecycle       detailed: sequences of connections
                        └─ INSTANCE AlertLedger (LedgerSpec)
AlertContractsTheorems ──┬── AlertLedgerProofs
                         └── AlertLifecycleProofs

Observations ──┬── ObservationStore       abstract: whole batches
               └── Ingestion              detailed: staging, renames, restore
                      └─ INSTANCE ObservationStore (StoreSpec)
IngestionProofs

RollingDispatch                           a battery backtest
DispatchProofs

Readings ──┬── Anomalies ── RuleDetector ── StatisticalDetectors ──┐
           └── GridTables ──┬──────────────────────────────── DetectionRun ──┐
                            └── Acquisition ──────────────────────────── Monitoring

Readings ── ForecastWindows ── Training ── Serving ── Forecasting

ReadingsTheorems ──┬── MonitoringProofs
                   └── ForecastingProofs

MC*                                       small instances for TLC
```

A module of proofs EXTENDS the module it is about. `AlertContractsTheorems` and
`ReadingsTheorems` have what several of them need: how an anomaly is folded; and
least and greatest hours, ranks in a sorted feed, and prefixes of hours.

`Monitoring` and `Forecasting` compose: the pipelines in them are separate
processes over the same tables, and any step of one may come between two steps of
another. What connects the parts that are not composed is named where it is cut:
`Acquisition` has demand ingestion as one step, which `Ingestion` details;
`DetectionRun` hands its events to alerts in one step, which `AlertLifecycle`
details.

### Alerts

`AlertContracts` is the pure part: `Candidates`/`DedupMatch` are `_dedup_match`,
`Observed` is the loop body of `process` for one anomaly, `StatusEntry` is the row
and history entry of `update_status`, `Eligible` is the selection of
`auto_resolve`. Ids are what the code hashes: an anomaly is `<<stream, hour>>`, an
alert `<<stream, first hour>>`, a history row its whole content without the time of
the change, because `history_id` leaves the time out.

`AlertLedger` has three actions, `Observe`, `Decide`, `Expire`, each changing row
and journal together.

`AlertLifecycle` has one action per storage call: `StartRun` (read the alerts),
`ReadHistory`, `SkipEvent`/`FoldEvent` (the loop, in memory), `EndBatch`,
`DeleteRows`, `InsertRows`, `AppendHistory`, `Sweep`, `ResolveNext`, `ResolveGone`
(the row is missing and `.iloc[0]` raises), `FinishRun`, `UpdateStatus` for
operators, and `Abort`, which ends an operation at any point and keeps what it had
committed. The two statements of `_replace` are two actions because they are two
transactions; a connection keeps other processes out (`FileFree`) but not a crash.
`Serial` chooses whether operations overlap.

### Ingestion

`Ingestion` follows one call of `run_ingestion` after another: `Fetch`,
`Quarantine`, `Report` (reconciliation, policy, schema), `Stage`, `MoveAside`,
`MoveIn`/`MoveInFails`, `Restore`, `Discard`, `LoadTable`; `StepFails` is an exception
in any other step and `Crash` the end of the process. `orphans` are backups that no
code will look for again: they matter because their rows are still on disk.
`ObservationStore` says what is promised: the dataset changes by whole merged
batches, and DuckDB takes over only rows the dataset holds.

### Battery backtests

`RollingDispatch` rolls the optimizer (`Optimize`, `Infeasible`) and the two
baselines (`Baseline`) over the same origins. `Feasible` is the MILP's constraint
system: transitions, exclusive charge and discharge, bounds, terminal target, and
what is left of each day. Forecasts and prices only pick among feasible schedules,
so the model takes any of them. The throughput of a day is a running total along
the rows. For the rule-based baseline any requests are taken
that some forecasts produce. `IsPhysical` is `validate_dispatch_physics`, used on
each baseline horizon as in the code and, as the property, on the applied rows.

### Acquisition and detection

`Readings` has series as functions from hours to values, with `NaN` for what is no
finite number; `GridTables` has the tables that acquisition writes and detection
reads, and what a reader sees in them (`Observed`, the net-load view, weather by
data type). `InOrder` is a sorted sequence, each element at its rank.

`Acquisition` follows the EIA client page by page (`GetPage`, `RequestRetried`,
`RequestRefused`) while rows are revised upstream (`Revise`), then either
`IngestDemand` or the renewable pipeline: `ProcessRenewables`, `WriteRenewables`
(the file, overwritten in place), `QuarantineRenewables`, `UpsertRenewables`,
`CreateView`. The weather pipeline goes location by location and chunk by chunk
(`RequestChunk`, `ReadCachedChunk`), then `AggregateWeather`, `WriteWeather`,
`UpsertLocations`, `UpsertRegions`. `UpsertCut`, `FetchCut` and `GatherCut` end a
pipeline between two of its writes, or in the middle of one that is no transaction.
Rows a table starts with are what earlier runs left: regional weather is the mean
(`HourMean`) of the location rows (`SpotMean`).

`Anomalies` has the event, its id, `severity_score` and the ensemble
(`Vote`, `Decision`, `Combine`); `RuleDetector` has each rule of `rules.py`;
`StatisticalDetectors` aligns forecasts, takes the history window of each residual
and scores it exactly (squared z-score, doubled medians). Scores are whole 120ths of
a point, in which the weights of `severity_score` are whole. How far a residual's
score lies above the floor of its severity is left open, and so is what an isolation
forest isolates: the library is external.

`DetectionRun` is `run_anomaly_detection`, with any set of detectors that `--detectors`
can ask for (`DetectorSets`): `BeginRun`, `LoadTarget`, `ScoreTarget`
for one target after the other (each adds its events by id, as the pipeline drops
duplicates before it combines them), `StoreEvents`, `HandToAlerts`, `Report`; `RunRaises`
is an exception before anything is stored, `Cut` the end of the process.

### Forecasting

`ForecastWindows` has what a model may learn from and be measured on: `Segments` and
`Selected` are the functions of `continuity.py` (the search is a recursive function of
how many origins it has tried), `TuningFrame` is `reserve_final_evaluation_history`,
`TrainingRows` and `FutureRow` build features by position in training and by hour in
prediction, `Twice` is a baseline's forecast. There are two specifications of features.
With `GlobalFeatures` (`FeatureBuilder.build_training`) the segments and features are of
all rows, and incomplete rows are dropped last; with `TargetFeatures` (`_build_training`
and `predict` of a target) rows without a value are dropped first, and leave a gap.
`Servable` is what `build_future_row` demands in both cases: each hour of the `Context`
has a value. `Origin` is the hour a prediction starts after, the last row for the global
model and the last row with a value for the model of a target.

`Training` has an action for each stretch of the two pipelines between calls that
others can see: `BeginGlobal`, `BeginTarget`, `TuneGlobal`, `TuneTarget`,
`EvaluateBaselines`, `EvaluateModel`, `RankAndFit`, `CreateVersion`,
`AssignCandidate`, `AssignChampion`, and `TrainingEnds` at any of them. `Arrive` appends
an hour to every series meanwhile. A version is recorded with the frame and windows it
was measured on and its error; `crowned` remembers who was champion.

`Serving` has prediction (`LoadModel`, `Predict`, `Publish`, `PublishCut`), the search
for the latest forecast (`ListCandidates`, then one `ReadCandidate` per connection),
the dispatch (`BeginDispatch` reads the forecasts, `CheckAlias` asks the registry
target by target, `StoreDispatch` or `StoreCut` writes), and `TTLCache` under
overlapping requests (`AskSummary` reads the clock, `LookUp` and `KeepSummary` hold
the lock, `BuildSummary` does not). `past` records which summaries the table has had,
second by second; it is there for the property only. `demand_forecasts` and
`target_forecasts` are one table whose rows carry the name of their model.

## 3. What the runs show

| Run | Shows | Bounds |
|---|---|---|
| `alert_ledger` | counts equal the anomalies journaled, each anomaly belongs to one alert, an anomaly never undoes a decision | 1 stream, 4 hours, 2 severities, window 1, auto-resolve 2, 2 decisions |
| `alert_concurrent` | a detection run and an operator overlap, one operation may be cut: well-formed rows, complete audit trail (unless cut), a change that another one overwrote shows as a fork in the trail (unless cut), handled anomalies journaled, no double count (unless cut), every anomaly eventually journaled (unless cut) | 1 stream, 3 hours, 2 runs of at most 2 anomalies, 1 decision, 1 abort |
| `alert_serial` | one operation at a time: the calls implement `AlertLedger`, counts fit the span, a finished run leaves no stale active alert | 1 stream, 4 hours, 2 runs of 2, 2 decisions, no abort |
| `alert_replay` (violation) | a run cut between table and history, then replayed, counts an anomaly twice | 1 abort, serial |
| `alert_history_row` (violation) | suppress, reopen, suppress: the third change has no history row | 3 decisions, serial |
| `ingestion_faults` | under exceptions and a death of the process: only valid rows are stored, no loaded hour leaves the disk, a completed ingestion accounts for each hour | 2 hours, 2 values, 2 ingestions, 2 exceptions, 1 crash |
| `ingestion_store` | without a crash, the implementation is `ObservationStore` | 3 ingestions, 1 exception |
| `ingestion_crash` (violation) | a crash between the renames leaves loaded hours unreadable | 2 ingestions, 1 crash |
| `dispatch_rolling` | the applied rows form one physical schedule within the daily limit; without self-discharge a later solve is never infeasible | 3 batteries, days of 3 steps, horizon 3, 4 origins, every phase of the day |
| `dispatch_rule_based` (violation) | the rolled rule-based baseline exceeds the daily limit | the same |
| `monitoring` | whatever a detector reports reaches the alerts as one event that is no milder; a run with the rules reports every gap in its window; flat stretches are found whole, each once; a residual's verdict does not depend on later rows; stored ensembles are explained; a fetch has every row the source had when it began; files hold what tables hold; regional weather is the mean of the location rows beside it; a gather of the past is complete | 1 region, hours 11 to 14 (acquired: 12 and 13), 2 locations, pages of 2, 1 retry, 1 fault, 1 cut run; 2 fetches and 2 revisions, or 1 fetch and 2 detection runs, each with the rules alone, residuals alone or with the forest, or all three detectors |
| `forecasting` | tuning stays behind the final windows; the windows selected suffice for every baseline and forecast; across gaps and absent values, an hour that is a training row is served with the same features, or is refused by the global model because of a value that no feature reads; a champion beat the baseline on its own windows; the latest forecast is whole and the newest; dispatches rest on champions and have their runs; predictions take away only rows of their own; a cached summary is fresh | horizon, step and day 2, week 3, global lags 1, 2, 3 and 5, rolling windows of 2, 2 final windows and 1 tuning window, 2 trainers, 2 estimators, errors 0 and 20, 2 regions, series of 11 to 16 hours, 2 requests, TTL 2, 3 seconds, 1 fault |

Why the bounds are enough. Deduplication compares an anomaly with the latest
candidate of its stream, so one stream and hours on both sides of the window and of
the auto-resolve limit reach every branch; streams do not share rows. Two runs are
needed for a replay and an operator with one change for every overlap with a run;
repeats of a decision are in `alert_serial` and `alert_history_row`. Two hours make a
batch that is partly new, partly revised and partly without demand. Two exceptions
reach a failure of the restoring rename; `ingestion_store` allows one, because that
second failure abandons the backup exactly as a crash does. A horizon as long as a
day crosses midnight at each row in turn, and four origins apply rows on two days.

`monitoring` and `forecasting` start from sets of tables rather than from empty
ones, so that each start needs few steps to reach its case. `Gaps` are all the series
of two values over every set of four hours, so every gap, flat stretch and change
of that size; `Scored` all residuals of three sizes over four hours, with a history
window of three; `Sunny` all solar series of three values over three hours, the last of
them dark, bright or out of range. `Acquired` fetches twice, which a merge with earlier
rows and a stale cache entry need, with weather of both data types at the provider;
`Watched` detects the same window twice around a fetch. Pages of two split the three
renewable rows so that a revision may come before, between or after pages.
`Gapped`, `TwoRegions`, `Cloudy`, `Absences` and `Still` are trainings of one series
each: gaps on both sides of every window boundary, regions of different length,
weather that starts late or has a hole, absent and negative values at several
distances from the end, and a series of zeros. Two final windows are needed for the
search to step on after a window it accepted.
`Overlapping` has two trainings and an arriving hour; `Looked` predictions while the
latest forecast is looked for; `Dispatched` two dispatches with one id while forecasts
are replaced; `Recrowned` a training that moves the champion under a dispatch;
`Summarised` two requests and a prediction over a lifetime of the cache. A day of two
hours and a week of three keep the order 1 < 24 < 168 and make the seasonal baselines
repeat different hours. A longest lag of 5 over rolling windows of 2 leaves distance 4 for
no feature to read, as `DEFAULT_LAGS` leaves those between 168 and 336: an absent value
there leaves the training row complete, and the same hour is refused in prediction.

Both state no deadlock check, because the work that may still begin is bounded and
runs out.

Properties that hold only without a cut say so in their name or their formula
(`aborts = 0 => ...`); the runs `alert_replay` and `ingestion_crash` show what a cut
does. `LedgerSpec` holds only with `Serial`: an overlapping run writes back rows it
read before an operator's decision, which is listed as a hazard and not as a
divergence, since `src/docs/ARCHITECTURE.md` limits the deployment to a single
writer. `OverwritesShow` says what is left under overlap: the decision that was
overwritten is still in the history, and two changes of the alert that start from one
row tell that it was. Several operators can lose even that, because two of them
that make the same change from the same row have one history id between them.

With self-discharge `StaysFeasible` is false: a schedule may spend the day's limit
that a later horizon needs to hold the terminal target. The battery with `keep = 80`
is in the run for that reason, and `Infeasible` fires.

### Fairness

`FairSpec` assumes `WF_vars(Continue(p))` for each process: an operation that has
begun goes on to its next call. The calls are a straight line of Python in one
process, so the operating system's scheduling is all that is assumed. Starting a
run, deciding, and being cut are not fair. The other modules state no liveness: any
of their pipelines may end with an exception at each call, so nothing must
eventually happen.

## 4. What is proved

Every invariant, action property and refinement that a passing run checks is a
theorem, except `OverwritesShow`; neither is liveness.

| Theorem | Statement |
|---|---|
| `AlertContractsTheorems!ObservedEntry`, `ObservedChanges` | what folding one anomaly records |
| `AlertLedgerProofs!LedgerTypeCorrect` | `Spec => []LedgerTypeOK` |
| `AlertLedgerProofs!CountCorrect` | `Spec => []CountMatchesJournal` |
| `AlertLedgerProofs!DedupCorrect` | `Spec => []EachAnomalyInOneAlert` |
| `AlertLedgerProofs!DecisionsKept` | `Spec => ObservationKeepsDecision` |
| `AlertLifecycleProofs!TypeCorrect` | `Spec => []TypeOK` |
| `AlertLifecycleProofs!HandledJournaled` | `Spec => []HandledAnomaliesAreJournaled` |
| `AlertLifecycleProofs!TrailCorrect` | `Spec => []TrailExplainsAlerts` |
| `AlertLifecycleProofs!CountFitsSpanUnlessCutCorrect` | `OneRun`: `Spec => []CountFitsSpanUnlessCut` |
| `AlertLifecycleProofs!CountFitsSpanCorrect` | `OneRun`, `MaxAborts = 0`: `Spec => []CountFitsSpan` |
| `AlertLifecycleProofs!SweepComplete` | `Serial = TRUE`: `Spec => SweepLeavesNoStaleAlert` |
| `AlertLifecycleProofs!LedgerImplemented` | `Serial = TRUE`, `MaxAborts = 0`: `Spec => LedgerSpec` |
| `IngestionProofs!IngestionTypeCorrect` | `Spec => []TypeOK` |
| `IngestionProofs!NothingDestroyedCorrect` | `Spec => []NothingDestroyed` |
| `IngestionProofs!FetchedHoursAccounted` | `Spec => EveryFetchedHourAccounted` |
| `IngestionProofs!StoreImplemented` | `MaxCrashes = 0`, `MaxFaults \in {0, 1}`: `Spec => StoreSpec` |
| `DispatchProofs!DispatchTypeCorrect` | `Spec => []TypeOK` |
| `DispatchProofs!AppliedPhysicalCorrect` | `Spec => []AppliedIsPhysical` |
| `DispatchProofs!StaysFeasibleCorrect` | `Spec => []StaysFeasible` |
| `MonitoringProofs!MonitoringTypeCorrect` | `Spec => []MonitoringTypeOK` |
| `MonitoringProofs!StoredExplained` | `Spec => []EnsemblesExplained` |
| `MonitoringProofs!FilesCoverTables` | `Spec => []FilesHoldTables` |
| `MonitoringProofs!GatherComplete` | `Spec => []GatherCoversRequest` |
| `MonitoringProofs!FetchComplete` | `Spec => []FetchCoversUpstream` |
| `MonitoringProofs!RegionsAreMeans` | `Spec => []RegionsFollowLocations` |
| `MonitoringProofs!ReportsReachAlerts` | `Spec => []AlertsCoverReports` |
| `MonitoringProofs!GapsAreTold` | `Spec => []GapsReported` |
| `MonitoringProofs!FlatlinesMaximal` | `Spec => []FlatlinesAreMaximal` |
| `MonitoringProofs!ResidualsCausal` | `Spec => []ResidualsAreCausal` |
| `ForecastingProofs!ForecastingTypeCorrect` | `Spec => []ForecastingTypeOK` |
| `ForecastingProofs!TunedBehind` | `Spec => []TuningStaysBehind` |
| `ForecastingProofs!WindowsSuffice` | `Spec => []SelectionSuffices` |
| `ForecastingProofs!ServedAsTrained` | `Spec => []TrainServeAgree` |
| `ForecastingProofs!ChampionsEarned` | `Spec => []ChampionEarnedIt` |
| `ForecastingProofs!RowsKept` | `Spec => RowsOnlyReplaced` |
| `ForecastingProofs!LatestIsNewest` | `Spec => []LatestNewestWhole` |
| `ForecastingProofs!DispatchesRestOnChampions` | `Spec => []DispatchFromChampions` |
| `ForecastingProofs!PointsHaveRuns` | `Spec => []PointsBelongToARun` |
| `ForecastingProofs!CacheFresh` | `Spec => []CacheIsFresh` |

### From which assumptions

They hold for any streams, hours, windows, severities, any number of runners and
operators, any keys and values, batteries, tables, rules, feeds, locations, trainers,
targets, horizons, windows and requests, and any bounds, from the named assumptions
of the modules, which TLC evaluates in each run:

- Bounds are natural numbers (`ClockAssumption`, `BoundsAssumption`,
  `CountAssumption`, `RunAssumption` and parts of others); markers such as `NoAlert` and
  `NoRow` are no values (`NoAlertAssumption`, `NoRowAssumption`, `ReadingAssumption`).
- Settings are what `config.py` validates: `WindowAssumption` and `MaxHourAssumption` of
  alerts, `RulesAssumption`, `ResidualAssumption`, `HorizonAssumption`, and
  `BatteryAssumption`, which is the validation of `BatterySpecification`.
- `ClientAssumption`: there is a location, the first day is not after the last, pages and
  chunks are not empty. `TrainingAssumption`: the global model has a name of its own, there
  are windows to measure on and models to try. `ServingAssumption`: the TTL is positive and
  the horizon predicted is one a reader may ask for. `WindowAssumption` of detection: a
  window does not end before it begins. `DetectorAssumption`: a run asks for supported
  detectors, any of them. `ListAssumption`: the targets of a run are a list.
- `WindowsAssumption` demands of the lags and rolling windows what
  `FeatureSpecification.create` does: finitely many, lags positive, windows above one. A
  week is among the global lags (`DEFAULT_LAGS`), since the weekly baseline reads it. No
  relation between lags and windows is assumed.
- `StartsAssumption`, of `Monitoring` and of `Forecasting`: the tables a system starts with
  are ones the code can have left. There are finitely many hours, whole ones, with a number
  or NaN; weather of an hour has all locations or none; aliases and forecasts name
  registered versions, and a champion is one that passed the gate.

Five theorems have hypotheses of their own, and the run of each property has the
constants they ask for. `OneRun` is "operations run one at a time, or there is one
runner": `alert_concurrent` has one runner and overlapping operators, `alert_serial`
one operation at a time. Two overlapping detection runs may both count an anomaly,
so the hypothesis is needed; `src/docs/ARCHITECTURE.md` limits the deployment to a
single writer. `MaxAborts = 0` and `MaxCrashes = 0` cannot be dropped either:
`alert_replay` and `ingestion_crash` show what a cut does. `MaxFaults \in {0, 1}`
leaves out a restoring rename that fails after the rename it is to undo: the backup
is then lost to the code as after a crash.

### Along which argument

- *The ledger.* `LedgerInv` counts with cardinalities: `occurrence_count` is that of the
  set of anomalies attributed to the alert, which is finite (`CountsFinite`). An anomaly
  adds one only if it was not there, so the id of a new alert must not have a history
  already (`OpeningsRepresented`: who opened an alert is in the journal), and the spans
  it may fall into must be in order (`SpansForward`).
- *Handled anomalies.* `HandledAnomaliesAreJournaled` speaks of `known` and the
  pending entries. It is not inductive alone: a process at "sweep" must have no
  pending entries left, and entries must be empty wherever a process could drop
  them unwritten. `EntryPhases` says at which steps entries may be pending and
  `KnownJournaled` the rest; folding an event adds the anomaly to `known` and an
  entry that names it in one step, and history only grows.
- *Audit trail.* A stored row must be the result of an entry. `TrailInv` says the same
  of every row a process holds in memory (`ViewsRecorded`), because that row may be
  stored later, and of every row an entry started from (`ChainRecorded`); the entries
  it speaks of are the appended and the pending ones together, so appending changes
  nothing. For the last part (an alert with history exists) it adds that a process
  holds the rows it is about to insert (`ViewHasChanged`), that only one process is
  between DELETE and INSERT (`InsertAlone`), and that those ids count as stored
  (`Storing`). A cut can leave entries unwritten, so `Recording` and `Storing` are
  claimed while `aborts = 0`, which can only become false.
- *Counts under interleaving.* With operators between the connections of a run a count is
  no cardinality any more: a decision may write back a row from before the run. What is
  left is that it fits the span, of every row stored or in memory (`Fits`). Counting
  one more needs the last sighting of each row to be among what the run knows
  (`Within`, in `SpanInv`), so that an anomaly it folds is strictly later than the row.
  Both hold while nothing was cut.
- *The ledger is implemented.* `SerialInv` says that one process at most is under way, and
  what it accounts for: `ShownBy(p)` is the table with the rows it has changed in
  memory, `JournalBy(p)` the history with the entries it has not appended. Folding an
  event commits one ledger step (`Commits`), and the four connections that store it
  stutter (`Stutters`): DELETE and INSERT change `alerts`, not what is shown. The
  refinement mapping of `AlertLifecycle` is that of whoever is under way. A sweep keeps
  in `todo` exactly what is eligible in the table shown, so none is left when it ends.
- *Nothing destroyed.* Where the loaded hours are depends on the step: in `dest` or its
  backup until `MoveIn`, and in `staging` from `Stage` on, which is why `Discard` may
  drop the backup. `IngestionInv` states for each step which directories exist
  (`Directories`), that the batch can be stored (`Accepted`) and which tree covers which
  (`Covering`). A loaded hour then has a copy at every step, and `KeptStays` shows that
  a step keeps one even where an exception turns the backup into an orphan.
- *Each hour accounted for, and the store implemented.* `StrongInv` adds that a step
  belongs to an ingestion (`Numbered`), what the directories hold around the
  renames (`Replacing`: the staged tree is the merge of what it replaces with the
  batch), and that the quarantine file of this ingestion names exactly the hours without
  demand (`Audited`). The dataset the abstract store shows is `dest` or, between the
  renames, the backup (`Published`), so `MoveIn` publishes the batch and the other
  steps stutter; with one exception at most, the restore succeeds and a swap that
  fails stutters too.
- *Battery schedules.* `Carried` ties what the backtest hands to the next origin, the state
  of charge and the day's throughput, to the rows applied so far, by lemmas about
  running totals over a sequence with one more row. `AppliedIsPhysical` is then inductive.
  For `StaysFeasible` a schedule for the next origin is constructed: the rest of the schedule
  just applied, then a row that waits. It ends at the terminal target, since without
  self-discharge waiting keeps the charge, and no day moves more than before.
- *Ensembles explained.* `EventsInv` adds that the events of a run in memory are raw:
  no rule, residual or forest signs as the ensemble. An ensemble then lists ids of its
  own batch only, which is stored in the same transaction, and an upsert removes an id
  only to store it again.
- *Reports reach alerts.* `RunInv` and `ReportsInv` follow the events from the
  detectors (one per id) to the ensemble. Each event
  has a score that fits its severity (`Fine`). `Decides` is then arithmetic: a critical
  report overrides the vote, a warning brings enough points for the score of the group to
  be a warning whatever the number of detectors, and a forest alone has its own limits.
  `Combines` makes of it one event per instant. A gap's severity is the rule's own.
- *Flat stretches.* The rule numbers the breaks of a series; `SameRun` says that two
  hours have the same number exactly when all values between them are equal, so the
  last hour of a group ends a maximal stretch (`RunEndsFlat`) and every such stretch ends
  a group (`FlatEndsRun`).
- *Causal residuals.* A verdict reads the hours before it through a prefix of the sorted
  hours (`HourlyPrefix`), and cutting a series leaves that prefix alone (`SamePrior`).
  `SourceInv` adds that the rows of a run begin with its lookback.
- *Fetches.* The offset is a rank in the sorted feed. `FetchInv`: of the rows owed, each
  with fewer than offset rows ahead of it is among the records. A revision may put a row
  in, which moves the others back and shows some twice (`RowsMoveBack`), but never takes
  one out, so no page skips a row that was owed, and the end of pagination is past all.
- *Regional weather.* `RegionInv`: the two tables agree, or the pipeline is between its two
  upserts and holds the rows that will make them agree (`Pending`), or one was cut there.
- *Files before tables.* `FilesInv` splits into the two pipelines (`EiaFiles`,
  `SkyFiles`), each of which carries from its file step to its table step that the
  file already has the rows about to be upserted; the steps of one leave the other's
  part alone (`InTwo`).
- *Gathers.* `SkyInv` says how far a gather has come (`Gathered`: the hours before the
  cursor of the location under way, all hours of a location that is done) and that a
  cached response of the past is what the provider would answer now or is malformed
  (`CacheOK`), which is why an old cache entry does no harm.
- *Windows and features.* The search for windows ends with the last origins it accepted
  (`SearchExists`, `SearchFindsAccepted`), each of which has the history it was accepted
  for. `LearnInv` keeps, through a training, that its windows were selected from its own
  frame and the inner ones from its tuning frame, which ends before the final windows.
  `Required` is a distance that some feature reads, so a complete training row has all
  of it within its segment (`TrainingRows` counts positions) and position and hour agree.
  With `TargetFeatures` the segment has values only, so the future row of that hour is
  served; with `GlobalFeatures` the hours at distances some feature reads have values, and if
  the future row is refused, a distance that none reads has not.
- *Champions.* `TrainingInv` follows a training: from the comparison on it keeps the
  baseline's error of its own frame and windows, and between `CreateVersion` and
  `AssignChampion` the version it holds is the one it registered, because other
  trainings only append to the registry.
- *Rows kept.* `RowsInv` says that the rows of a prediction carry its own name and version
  and that no version is 0, so what `Publish` deletes it inserts again, and what
  `PublishCut` deletes is of its own version.
- *Latest forecast.* Candidates are read newest first, on a connection each, while
  predictions replace rows. `RequestInv`: a series that was whole from the asking on
  and is newer than all that was read is still among those to read, so the first
  complete one (`FirstOfComplete`) has none newer. `ServingInv` says which keys
  rows have, `NumbersInv` that aliases and jobs name versions the registry has.
- *Dispatches.* `DispatchInv` of `ForecastingProofs` says which targets of a plan have been
  checked: their versions are in `crowned`, which only grows (`CrownsGrow`).
  `PointsBelongToARun` is inductive by itself, because of the order of the four statements
  (`StoredInOrder`).
- *Cache.* `CacheInv` dates each summary held anywhere: a reader's value was in the table
  between the beginning of its request and now, and the cached one since its expiry
  less TTL. `PastGrows` shows that what was true at a second stays recorded.

Recursive functions (running totals, the window search, the scan for drops of solar
output) are reasoned about through the set of numbers for which the claim fails: had
it a member it would have a least one. The same argument first shows that a function
with the recursion's equations exists, so that the one the definition chooses has them.

Only model-checked: liveness (`EveryAnomalyJournaled`), since fairness is beyond the
prover; `OverwritesShow`, for one detection process and one operator; and the findings of
the four runs that end in a violation.

## 5. Divergences found

Four runs end in a violation, each of a statement of the documentation or the tests
(quoted in `PROJECT.json`): a repeated status change loses its history row; a cut
between alerts and history makes a replay count twice; a crash between the two
renames hides the dataset; the rolled rule-based baseline ignores the day's earlier
throughput.

## 6. What is not modelled

- *What is learned.* Estimators, their tuning and isolation forest are libraries: an
  estimator ends with any of a few errors, a forest isolates any rows. Predicted
  values are told apart only by the prediction they come from. Metrics other than the
  one the gate compares, hyperparameters and SHAP explanations are left out.
- *Calendar and weather arithmetic.* Calendar features are functions of the hour alone;
  of weather features only the hours that have them matter here. A day of weather
  requests is one hour in the model, and all locations weigh the same.
- *Layout.* Titles and explanations, logs, quality reports, artifacts, MLflow logging,
  JSON metadata and bundle serialization are left out; loading a model by run or by
  path is too.
- *Two files as one.* Location and regional weather are written to two Parquet files by
  one call after the other; the model keeps one, with the regional rows.
- *Reports about synthetic data.* `anomalies/evaluation.py` and
  `pipelines/backtest_anomalies.py` inject anomalies and score the detectors; they keep
  nothing. The tables of dispatch backtests (`_backtest_id` leaves parameters out, see
  the hazards) are not modelled.
- *Clearing the cache.* `AlertService` has a cache of its own that it clears after an
  update; a value computed before may be stored after. `TTLCache` is modelled for the
  summary, without `clear()`.
- *API, dashboard, command line.* They keep no state of their own; their writes are the
  operators of the alert model.
- *Weather of the past as forecast.* Training has the mode `realistic_forecast`, the
  default; `historical_oracle`, which reads all historical hours, only widens the hours
  that have weather.
- *Reloaded models.* `LoadModel` always succeeds with a registered version; where the code
  refuses a bundle that does not fit, it predicts less than the model.
- *A severity that rises later.* `process` skips an anomaly that the history names
  already, whatever its severity is by then. `AlertsCoverReports` speaks of the batch that
  is handed over, not of what an alert does with a second report of one anomaly.
- *More writers than the deployment has.* Two ingestions at once and two detection runs
  at once are outside the single-writer use (`AlertLifecycle` and its theorems allow
  several runners, the runs have one). Trainings do overlap, since the registry is a
  server.

Two things the models show that are neither promised nor denied by the
documentation, and therefore no divergences: the gate compares a candidate with the
daily baseline only, so a worse model may replace a better champion; and a training
on net load that is negative in a validation window ends in an exception, because
predictions and baselines are refused when they are negative
(`training/evaluator.py:161`).

## 7. Plan

Done, in this order: the alert ledger and lifecycle with their refinement;
ingestion with its refinement; the rolling dispatch; acquisition and anomaly
detection, composed; windows, training, serving and dispatch storage, composed;
then the proofs.

What would come next:

1. The storage of dispatch backtests, whose id leaves the battery's parameters out,
   and the cache of `AlertService` with `clear()`.
2. The solver's tolerance, handed as a state of charge from one origin to the next.
3. What alerts keep when two detection runs overlap (the count theorems assume one),
   and what is left of the refinement to `AlertLedger` when operators decide during
   a run; a proof of `OverwritesShow`.
4. `ChampionEarnedIt` against the champion before it, should the gate come to compare
   with it.
