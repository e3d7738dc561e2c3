------------------------------- MODULE Serving -------------------------------
(***************************************************************************)
(* From a registered model to what a reader is shown: prediction            *)
(* (pipelines/predict.py, predict_target.py) into the forecast tables       *)
(* (data/storage.py, data/target_storage.py), the latest forecast and the   *)
(* cached summary of the API (services/), and the battery dispatch planned  *)
(* from forecasts (pipelines/optimize_dispatch.py,                          *)
(* optimization/storage.py).                                                *)
(*                                                                         *)
(* Rows of demand_forecasts have the global model's name, all others are    *)
(* rows of target_forecasts.  A connection that writes excludes the others, *)
(* so its statements are one step unless the process dies between them.     *)
(* What a prediction predicts is its number: only whose value it is matters.*)
(***************************************************************************)
EXTENDS Training

CONSTANTS
  Horizons,   \* lengths of prediction that may be asked for
  Requesters, \* API requests for the summary that may overlap
  TTL,        \* seconds a summary is cached
  MaxClock,   \* bound: seconds
  MaxFaults   \* bound: deaths between two statements

ASSUME ServingAssumption ==
  /\ Horizon \in Horizons /\ Horizons \subseteq Nat /\ TTL \in Nat \ {0}
  /\ MaxClock \in Nat /\ MaxFaults \in Nat

VARIABLES
  published,  \* rows: the value by name, region, origin, hour and version
  prediction, \* the prediction under way
  request,    \* the request for the latest forecast under way
  plan,       \* the dispatch under way
  runs,       \* battery_dispatch_runs: the lineage by id
  points,     \* battery_dispatch_points: the hours by id
  cached,     \* the summary and when it expires
  readers,    \* the requests for the summary
  clock,
  past,       \* the summaries the table had, by second
  left,       \* bound: how often each kind of work may still begin
  faults

cacheVars   == <<cached, readers, clock>>
workVars    == <<prediction, request, plan>>
dispatchTables == <<runs, points>>

NoPrediction == [step |-> "idle", name |-> Global, region |-> 0, version |-> 0, rows |-> <<>>]
NoAnswer     == [origin |-> 0, rows |-> <<>>]
NoRequest    == [step |-> "idle", series |-> <<>>, todo |-> {}, steady |-> {}, answer |-> NoAnswer]
NoPlan       == [step |-> "idle", origin |-> 0, region |-> 0, lineage |-> <<>>, rows |-> <<>>, todo |-> {}]
NoReader     == [step |-> "idle", now |-> 0, value |-> 0, at |-> 0]

ServingTypeOK ==
  /\ \A key \in DOMAIN published : /\ key[1] \in Names /\ key[4] > key[3]
                                   /\ key[5] \in DOMAIN registry[key[1]]
  /\ prediction.step \in {"idle", "loaded", "predicted"}
  /\ request.step \in {"idle", "rows", "answered"}
  /\ plan.step \in {"idle", "check", "store"}
  /\ DOMAIN past = 0 .. clock /\ clock \in 0 .. MaxClock /\ faults \in 0 .. MaxFaults

(* forecast_service.summary.                                                 *)
TargetRows(rows) == {key \in DOMAIN rows : key[1] # Global}
Summary(rows) == [total  |-> Cardinality(TargetRows(rows)),
                  latest |-> Max({key[3] : key \in TargetRows(rows)} \cup {0})]

ServingInit ==
  /\ prediction = NoPrediction /\ request = NoRequest /\ plan = NoPlan
  /\ runs = <<>> /\ points = <<>>
  /\ cached = [expiry |-> 0, value |-> 0] /\ readers = [r \in Requesters |-> NoReader]
  /\ clock = 0 /\ past = [u \in {0} |-> {Summary(published)}] /\ faults = 0

May(work)  == left[work] > 0
Less(work) == left' = [left EXCEPT ![work] = @ - 1]

(* The series of a name and region, by origin and version: their hours.      *)
HoursOf(rows, name, region, s) ==
  {key[4] : key \in {key \in DOMAIN rows : key[1] = name /\ key[2] = region
                                            /\ key[3] = s[1] /\ key[5] = s[2]}}

SeriesOf(rows, name, region) ==
  {<<key[3], key[5]>> : key \in {key \in DOMAIN rows : key[1] = name /\ key[2] = region}}

Complete(rows, name, region) ==
  {s \in SeriesOf(rows, name, region) : Validation(s[1]) \subseteq HoursOf(rows, name, region, s)}

-----------------------------------------------------------------------------
(* _load_registry_bundle knows aliases; the global model may also be asked   *)
(* for by its version.                                                       *)
Loadable(name) ==
  {v \in DOMAIN registry[name] : name = Global \/ v \in {aliases[name].champion, aliases[name].candidate}}

(* load_prediction_bundle reads the alias now.                               *)
LoadModel ==
  /\ prediction.step = "idle" /\ May("predictions")
  /\ \E name \in Names : \E version \in Loadable(name), region \in DOMAIN readings[name] :
       prediction' = [NoPrediction EXCEPT !.step = "loaded", !.name = name,
                                          !.region = region, !.version = version]
  /\ Less("predictions")
  /\ UNCHANGED <<trainingVars, published, request, plan, dispatchTables, cacheVars, past, faults>>

SlipForecast(p, s, n) ==
  LET origin == Origin(SpecificationOf(p.name), s)
  IN  [key \in {<<p.name, p.region, origin, h, p.version>> : h \in origin .. origin + n - 1} |->
         left.predictions]

(* The rows of a forecast over n hours after the origin.                     *)
Forecast(p, s, n) ==
  LET origin == Origin(SpecificationOf(p.name), s)
  IN  [key \in {<<p.name, p.region, origin, h, p.version>> : h \in origin + 1 .. origin + n} |->
         left.predictions]

(* run_prediction_pipeline: the region was trained on, and the last segment  *)
(* is long enough.                                                           *)
GlobalReady(p, s) ==
  /\ p.region \in DOMAIN registry[p.name][p.version].frame
  /\ Cardinality(SegmentOf(DOMAIN s, Max(DOMAIN s))) >= NeedOf(Global)

(* run_target_prediction: forecast weather is stored, and some row carries   *)
(* each of the hours to come.                                                *)
TargetReady(s, n) ==
  LET origin == Origin(TargetFeatures, s)
  IN  skies.forecast # {} /\ origin + 1 .. origin + n \subseteq DOMAIN s \cup skies.forecast

Predict ==
  /\ prediction.step = "loaded"
  /\ LET s == readings[prediction.name][prediction.region]
     IN  \E n \in Horizons :
           prediction' =
             IF /\ IF prediction.name = Global THEN GlobalReady(prediction, s) ELSE TargetReady(s, n)
                /\ Forecastable(SpecificationOf(prediction.name), [region \in {prediction.region} |-> s])
             THEN [prediction EXCEPT !.rows = Forecast(prediction, s, n), !.step = "predicted"]
             ELSE NoPrediction
  /\ UNCHANGED <<trainingVars, published, request, plan, dispatchTables, cacheVars, past, left, faults>>

(* What readers compare with afterwards: the summaries of this second, and   *)
(* the series that stayed complete while a request was answered.             *)
Witnessed(rows) ==
  /\ past' = [past EXCEPT ![clock] = @ \cup {Summary(rows)}]
  /\ request' = [request EXCEPT !.steady = @ \cap
       (IF request.step = "idle" THEN {} ELSE Complete(rows, request.series[1], request.series[2]))]

SlipReplaced(rows) ==
  {key \in DOMAIN published : \E new \in DOMAIN rows : <<key[1], key[2], key[3]>> = <<new[1], new[2], new[3]>>}

(* The stored rows an upsert deletes: those with the key of a new one.       *)
Replaced(rows) == {key \in DOMAIN published : key \in DOMAIN rows}

(* upsert_forecasts and TargetForecastStorage.upsert.                        *)
Publish ==
  /\ prediction.step = "predicted"
  /\ published' = Override([key \in DOMAIN published \ Replaced(prediction.rows) |-> published[key]],
                           prediction.rows)
  /\ Witnessed(published')
  /\ prediction' = NoPrediction
  /\ UNCHANGED <<trainingVars, plan, dispatchTables, cacheVars, left, faults>>

(* The target table is written without a transaction: the process may die,   *)
(* or the INSERT fail, after the DELETE.                                     *)
PublishCut ==
  /\ prediction.step = "predicted" /\ prediction.name # Global /\ faults < MaxFaults
  /\ published' = [key \in DOMAIN published \ Replaced(prediction.rows) |-> published[key]]
  /\ Witnessed(published')
  /\ prediction' = NoPrediction /\ faults' = faults + 1
  /\ UNCHANGED <<trainingVars, plan, dispatchTables, cacheVars, left>>

(* A value that is no number, a negative demand, or the end of the process.  *)
PredictionEnds ==
  /\ prediction.step # "idle"
  /\ prediction' = NoPrediction
  /\ UNCHANGED <<trainingVars, published, request, plan, dispatchTables, cacheVars, past, left, faults>>

-----------------------------------------------------------------------------
(* latest: the candidates are listed on one connection, by their number of   *)
(* hours only.                                                               *)
ListCandidates ==
  /\ request.step = "idle" /\ May("requests")
  /\ \E name \in Targets : \E region \in DOMAIN readings[name] :
       request' = [NoRequest EXCEPT !.step = "rows", !.series = <<name, region>>,
         !.todo = {s \in SeriesOf(published, name, region) :
                     Cardinality(HoursOf(published, name, region, s)) >= Horizon},
         !.steady = Complete(published, name, region)]
  /\ Less("requests")
  /\ UNCHANGED <<trainingVars, published, prediction, plan, dispatchTables, cacheVars, past, faults>>

FirstHours(hours) == {hours[i] : i \in 1 .. Least(Horizon, Len(hours))}

SlipAnswers(hours, origin) == Len(hours) >= Horizon

(* The first hours of a candidate are exactly the horizon.                   *)
Answers(hours, origin) == FirstHours(hours) = Validation(origin)

Newest(todo) == {s \in todo : \A other \in todo : other[1] <= s[1]}

(* Their rows are read one candidate at a time, on other connections, the    *)
(* newest origin first.                                                      *)
ReadCandidate ==
  /\ request.step = "rows"
  /\ LET name == request.series[1]  region == request.series[2]
     IN  IF request.todo = {} THEN request' = [request EXCEPT !.step = "answered"]
         ELSE \E s \in Newest(request.todo) :
           LET hours == Hourly(HoursOf(published, name, region, s))
           IN  request' =
             IF Answers(hours, s[1])
             THEN [request EXCEPT !.step = "answered", !.answer =
                     [origin |-> s[1], rows |-> [h \in FirstHours(hours) |->
                        published[<<name, region, s[1], h, s[2]>>]]]]
             ELSE [request EXCEPT !.todo = @ \ {s}]
  /\ UNCHANGED <<trainingVars, published, prediction, plan, dispatchTables, cacheVars, past, left, faults>>

CloseRequest ==
  /\ request.step = "answered"
  /\ request' = NoRequest
  /\ UNCHANGED <<trainingVars, published, prediction, plan, dispatchTables, cacheVars, past, left, faults>>

-----------------------------------------------------------------------------
RowsAt(region, origin) ==
  {key \in DOMAIN published : key[1] \in Targets /\ key[2] = region /\ key[3] = origin}

(* validate_dispatch_input after build_dispatch_input: demand is known,      *)
(* every target has one series at the origin, and each covers the horizon.   *)
Plannable(rows, origin) ==
  LET targets == {key[1] : key \in rows}
  IN  /\ targets \cap {"demand_mw", "net_load_mw"} # {}
      /\ \A t \in targets : /\ Cardinality({key[5] : key \in {key \in rows : key[1] = t}}) = 1
                            /\ Validation(origin) \subseteq {key[4] : key \in {key \in rows : key[1] = t}}

(* build_dispatch_input: each target's version, and the values by hour.      *)
Planned(region, origin, rows) ==
  LET used == {key \in rows : key[4] \in Validation(origin)}
  IN  [step |-> "check", origin |-> origin, region |-> region, todo |-> {key[1] : key \in rows},
       lineage |-> [t \in {key[1] : key \in rows} |-> (CHOOSE key \in rows : key[1] = t)[5]],
       rows |-> [k \in {<<key[1], key[4]>> : key \in used} |->
                   published[CHOOSE key \in used : <<key[1], key[4]>> = k]]]

BeginDispatch ==
  /\ plan.step = "idle" /\ May("dispatches")
  /\ \E region \in {key[2] : key \in TargetRows(published)}, origin \in {key[3] : key \in TargetRows(published)} :
       plan' = IF Plannable(RowsAt(region, origin), origin)
               THEN Planned(region, origin, RowsAt(region, origin)) ELSE NoPlan
  /\ Less("dispatches")
  /\ UNCHANGED <<trainingVars, published, prediction, request, dispatchTables, cacheVars, past, faults>>

SlipCheckAlias ==
  /\ plan.step = "check"
  /\ LET t == Current(plan.todo)
     IN  plan' = IF aliases[t].champion = plan.lineage[t] THEN [plan EXCEPT !.step = "store"] ELSE NoPlan
  /\ UNCHANGED <<trainingVars, published, prediction, request, dispatchTables, cacheVars, past, left, faults>>

(* _validate_model_alias_lineage asks the registry target by target.         *)
CheckAlias ==
  /\ plan.step = "check"
  /\ LET t == Current(plan.todo)
     IN  plan' = IF aliases[t].champion = plan.lineage[t]
                 THEN [plan EXCEPT !.todo = @ \ {t}, !.step = IF plan.todo = {t} THEN "store" ELSE @]
                 ELSE NoPlan
  /\ UNCHANGED <<trainingVars, published, prediction, request, dispatchTables, cacheVars, past, left, faults>>

(* deterministic_dispatch_id: what was planned from, not by whom.            *)
DispatchId == <<plan.region, plan.origin, plan.rows>>

Without(table) == [id \in DOMAIN table \ {DispatchId} |-> table[id]]

Inserted(table, value) == Override(table, [id \in {DispatchId} |-> value])

RunsAfter(n) ==
  IF n < 2 THEN runs ELSE IF n < 3 THEN Without(runs) ELSE Inserted(runs, plan.lineage)

SlipPointsAfter(n) ==
  IF n < 3 THEN points
  ELSE IF n < 4 THEN Without(points) ELSE Inserted(points, Validation(plan.origin))

(* upsert_dispatch commits four statements one by one: points deleted, run   *)
(* deleted, run inserted, points inserted.                                   *)
PointsAfter(n) ==
  IF n < 1 THEN points
  ELSE IF n < 4 THEN Without(points) ELSE Inserted(points, Validation(plan.origin))

StoreDispatch ==
  /\ plan.step = "store"
  /\ runs' = RunsAfter(4) /\ points' = PointsAfter(4)
  /\ plan' = NoPlan
  /\ UNCHANGED <<trainingVars, published, prediction, request, cacheVars, past, left, faults>>

StoreCut ==
  /\ plan.step = "store" /\ faults < MaxFaults
  /\ \E n \in 1 .. 3 : runs' = RunsAfter(n) /\ points' = PointsAfter(n)
  /\ plan' = NoPlan /\ faults' = faults + 1
  /\ UNCHANGED <<trainingVars, published, prediction, request, cacheVars, past, left>>

(* The solver, an artifact or the tracking server fails.                     *)
DispatchEnds ==
  /\ plan.step # "idle"
  /\ plan' = NoPlan
  /\ UNCHANGED <<trainingVars, published, prediction, request, dispatchTables, cacheVars, past, left, faults>>

-----------------------------------------------------------------------------
(* TTLCache.get_or_create: the clock is read before the lock is taken.       *)
AskSummary(r) ==
  /\ readers[r].step = "idle" /\ May("summaries")
  /\ readers' = [readers EXCEPT ![r] = [NoReader EXCEPT !.step = "look", !.now = clock]]
  /\ Less("summaries")
  /\ UNCHANGED <<trainingVars, published, workVars, dispatchTables, cached, clock, past, faults>>

LookUp(r) ==
  /\ readers[r].step = "look"
  /\ readers' = [readers EXCEPT ![r] =
       IF cached.expiry > readers[r].now
       THEN [@ EXCEPT !.step = "answered", !.value = cached.value, !.at = clock]
       ELSE [@ EXCEPT !.step = "build"]]
  /\ UNCHANGED <<trainingVars, published, workVars, dispatchTables, cached, clock, past, left, faults>>

(* The summary is queried outside the lock.                                  *)
BuildSummary(r) ==
  /\ readers[r].step = "build"
  /\ readers' = [readers EXCEPT ![r].step = "keep", ![r].value = Summary(published)]
  /\ UNCHANGED <<trainingVars, published, workVars, dispatchTables, cached, clock, past, left, faults>>

SlipExpiry(r) == clock + TTL

(* It lives for TTL seconds from the beginning of its request.               *)
Expiry(r) == readers[r].now + TTL

KeepSummary(r) ==
  /\ readers[r].step = "keep"
  /\ cached' = [expiry |-> Expiry(r), value |-> readers[r].value]
  /\ readers' = [readers EXCEPT ![r].step = "answered", ![r].at = clock]
  /\ UNCHANGED <<trainingVars, published, workVars, dispatchTables, clock, past, left, faults>>

CloseSummary(r) ==
  /\ readers[r].step = "answered"
  /\ readers' = [readers EXCEPT ![r] = NoReader]
  /\ UNCHANGED <<trainingVars, published, workVars, dispatchTables, cached, clock, past, left, faults>>

Tick ==
  /\ clock < MaxClock /\ (May("summaries") \/ \E r \in Requesters : readers[r].step # "idle")
  /\ clock' = clock + 1 /\ past' = Override(past, [u \in {clock + 1} |-> {Summary(published)}])
  /\ UNCHANGED <<trainingVars, published, workVars, dispatchTables, cached, readers, left, faults>>

Ask(r) == AskSummary(r) \/ LookUp(r) \/ BuildSummary(r) \/ KeepSummary(r) \/ CloseSummary(r)

Serve == \/ LoadModel \/ Predict \/ Publish \/ PublishCut \/ PredictionEnds
         \/ ListCandidates \/ ReadCandidate \/ CloseRequest
         \/ BeginDispatch \/ CheckAlias \/ StoreDispatch \/ StoreCut \/ DispatchEnds
         \/ (\E r \in Requesters : Ask(r)) \/ Tick

-----------------------------------------------------------------------------
(* The latest forecast is one whole series from the hour after its origin,   *)
(* and none newer was whole all the while it was being looked for; that none *)
(* is found means none was, although candidates are listed by a count that   *)
(* half-written and longer series satisfy too (ForecastService.latest).      *)
LatestNewestWhole ==
  request.step = "answered" =>
    IF request.answer = NoAnswer THEN request.steady = {}
    ELSE /\ DOMAIN request.answer.rows = Validation(request.answer.origin)
         /\ \A s \in request.steady : s[1] <= request.answer.origin

(* A stored dispatch rests on forecasts of versions that were champions of   *)
(* their targets, although aliases move while it is being planned and its id *)
(* does not name them (run_dispatch_optimization).                           *)
DispatchFromChampions ==
  \A id \in DOMAIN runs : \A t \in DOMAIN runs[id] : runs[id][t] \in crowned[t]

(* However far the storing of a dispatch got, points have their run          *)
(* (BatteryDispatchStorage.upsert_dispatch).                                 *)
PointsBelongToARun == DOMAIN points \subseteq DOMAIN runs

(* A prediction never takes away a row of another version, origin or hour,   *)
(* and takes away its own only when it dies between its statements; the      *)
(* transaction of demand_forecasts excludes even that (upsert_forecasts,     *)
(* TargetForecastStorage.upsert).                                            *)
RowsOnlyReplaced ==
  [][\A key \in DOMAIN published \ DOMAIN published' :
       key[1] # Global /\ faults' # faults /\ key[5] = prediction.version]_published

(* A summary that is answered was true less than TTL seconds before the      *)
(* request began, or later, whatever requests overlap and however long the   *)
(* query takes (TTLCache.get_or_create).                                     *)
CacheIsFresh ==
  \A r \in Requesters : readers[r].step = "answered" =>
    \E u \in Most(0, readers[r].now - TTL + 1) .. readers[r].at : readers[r].value \in past[u]
=============================================================================
