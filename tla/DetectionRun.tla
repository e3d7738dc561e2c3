---------------------------- MODULE DetectionRun ----------------------------
(***************************************************************************)
(* run_anomaly_detection (pipelines/detect_anomalies.py): each target is    *)
(* read and scored in turn, the events of all targets are stored with their *)
(* ensemble in one transaction, and the ensemble is handed to AlertManager, *)
(* whose own steps AlertLifecycle models.  Between its reads other          *)
(* processes publish rows, and the same window may be detected again after  *)
(* the data under it has changed.                                           *)
(***************************************************************************)
EXTENDS StatisticalDetectors, GridTables

CONSTANTS
  TargetLists,  \* the targets a run may be asked for, in its order
  DetectorSets, \* the detectors a run may be asked for
  Windows,      \* pairs of the first and last hour a run may evaluate
  Lookback,     \* ANOMALY_LOOKBACK_HOURS
  MinTraining,  \* ANOMALY_MIN_TRAINING_ROWS
  MaxCuts       \* bound: runs that end before their alerts are written

(* SUPPORTED_DETECTORS: any of them may be left out (--detectors).           *)
AllDetectors == {"rules", "residual", "isolation_forest"}

ASSUME WindowAssumption == \A w \in Windows : w[1] \in Int /\ w[2] \in Int /\ w[1] <= w[2]
ASSUME DetectorAssumption == DetectorSets \subseteq SUBSET AllDetectors
ASSUME ListAssumption == \A list \in TargetLists : list \in Seq(Range(list))
ASSUME RunAssumption == Lookback \in Nat /\ MinTraining \in Nat \ {0} /\ MaxCuts \in Nat

VARIABLES
  run,      \* the detection run in progress
  runs,     \* how many may still begin
  events,   \* anomaly_events
  alerted,  \* ids AlertManager has processed
  cuts      \* how many were cut

runVars == <<run, events, alerted, runs, cuts>>

AllTargets == UNION {{list[n] : n \in DOMAIN list} : list \in TargetLists}
Idle == [step |-> "idle", window |-> <<0, 0>>, detectors |-> {}, todo |-> <<>>,
         source |-> <<>>, batch |-> {}, seen |-> [t \in AllTargets |-> <<>>]]

RunSteps == {"idle", "load", "score", "store", "alert", "report"}

RunTypeOK ==
  /\ run.step \in RunSteps
  /\ run.window \in Windows \cup {<<0, 0>>}
  /\ run.detectors \subseteq AllDetectors
  /\ ValidBatch({e \in events : e.detector # "ensemble"})
  /\ \A e, f \in events : Id(e) = Id(f) => e = f
  /\ alerted \subseteq Ids(events)
  /\ runs \in Nat /\ cuts \in 0 .. MaxCuts

RunInit == /\ run = Idle /\ events = {} /\ alerted = {} /\ cuts = 0

(* _load_target orders its rows by hour.                                     *)
RowsOf(s) ==
  LET hours == Hourly(DOMAIN s)
  IN  [n \in DOMAIN hours |-> [hour |-> hours[n], value |-> s[hours[n]]]]

-----------------------------------------------------------------------------
(* A run that is disabled, or asks for an unknown target or detector, raises *)
(* before it does anything; the others begin here.                           *)
BeginRun ==
  /\ run.step = "idle" /\ runs > 0
  /\ \E w \in Windows, list \in TargetLists, d \in DetectorSets :
       run' = [Idle EXCEPT !.step = "load", !.window = w, !.detectors = d, !.todo = list]
  /\ runs' = runs - 1
  /\ UNCHANGED <<tables, events, alerted, cuts>>

WindowStart == run.window[1]
WindowEnd   == run.window[2]
ReadFrom    == WindowStart - Lookback

(* A target without rows in the window is skipped; one without a table or    *)
(* view raises.                                                              *)
LoadTarget ==
  /\ run.step = "load" /\ run.todo # <<>>
  /\ Readable(Head(run.todo))
  /\ LET source == Between(Observed(Head(run.todo)), ReadFrom, WindowEnd)
     IN  IF Between(source, WindowStart, WindowEnd) = <<>>
         THEN run' = [run EXCEPT !.todo = Tail(@)]
         ELSE run' = [run EXCEPT !.source = source, !.step = "score"]
  /\ UNCHANGED <<tables, events, alerted, runs, cuts>>

AllScored ==
  /\ run.step = "load" /\ run.todo = <<>>
  /\ run' = [run EXCEPT !.step = "store"]
  /\ UNCHANGED <<tables, events, alerted, runs, cuts>>

Target     == Head(run.todo)
Evaluation == Between(run.source, WindowStart, WindowEnd)

(* _load_weather turns any failure of its read ("none" here) into a frame    *)
(* without rows and without weather columns.                                 *)
WeatherReads == DataTypes \cup {"none"}
Weather(read) ==
  IF read = "none" THEN <<>> ELSE Between(RegionWeather(read), ReadFrom, WindowEnd)

RulesPart(read) ==
  RuleEvents(RowsOf(Evaluation), Target, Weather(read),
             IF renewables = NoTable THEN NaN ELSE Covered \cap (ReadFrom .. WindowEnd), WindowEnd)

ForecastPart(read) ==
  ForecastCoverage({f.hour : f \in {f \in forecasts : f.target = Target}}
                     \cap (WindowStart .. WindowEnd), Target, Weather(read))

InWindow(batch) == {e \in batch : e.hour \in WindowStart .. WindowEnd}

(* The residual detector scores the lookback too; its events there are       *)
(* dropped.                                                                  *)
ResidualPart(high) == InWindow(ResidualEvents(run.source, forecasts, Target, high))

(* Isolation forest needs enough complete rows before the window.            *)
Outliers(read) ==
  LET rows == Complete(run.source, Weather(read), read # "none")
  IN  IF Cardinality({h \in rows : h < WindowStart}) >= MinTraining
      THEN SUBSET {h \in rows : h >= WindowStart} ELSE {{}}

(* A batch that is invalid ends the run, and so does a residual event,       *)
(* reported or not, that cannot be written as JSON.                          *)
Raises(read) ==
  \/ "rules" \in run.detectors /\ ~ValidBatch(RulesPart(read))
  \/ "residual" \in run.detectors /\ ResidualRaises(run.source, forecasts, Target)

ScoreTarget ==
  /\ run.step = "score"
  /\ \E read \in WeatherReads :
       /\ ~Raises(read)
       /\ LET rules == RulesPart(read) \cup ForecastPart(read)
          IN  \E high \in BOOLEAN :
                LET residual == ResidualPart(high)
                IN  \E outliers \in Outliers(read), points \in OutlierPoints :
                      LET found == [rules |-> rules, residual |-> residual,
                                    isolation_forest |-> OutlierEvents(outliers, Target, points)]
                      IN  run' = [run EXCEPT !.batch = Upsert(@, UNION {found[d] : d \in run.detectors}),
                                             !.seen[Target] = Evaluation,
                                             !.todo = Tail(@), !.source = <<>>, !.step = "load"]
  /\ UNCHANGED <<tables, events, alerted, runs, cuts>>

(* An exception before anything is stored.                                   *)
RunRaises ==
  /\ \/ run.step = "load" /\ run.todo # <<>> /\ ~Readable(Head(run.todo))
     \/ run.step = "score" /\ \E read \in WeatherReads : Raises(read)
  /\ run' = Idle
  /\ UNCHANGED <<tables, events, alerted, runs, cuts>>

SlipStoreEnsemble ==
  /\ run.step = "store"
  /\ events' = Upsert(events, Combine(run.batch))
  /\ run' = [run EXCEPT !.step = "alert"]
  /\ UNCHANGED <<tables, alerted, runs, cuts>>

StoreEvents ==
  /\ run.step = "store"
  /\ events' = Upsert(events, run.batch \cup Combine(run.batch))
  /\ run' = [run EXCEPT !.step = "alert"]
  /\ UNCHANGED <<tables, alerted, runs, cuts>>

(* process skips the anomalies its history already names; every other one    *)
(* opens an alert or folds into one, and auto_resolve follows.               *)
HandToAlerts ==
  /\ run.step = "alert"
  /\ alerted' = alerted \cup Ids(Combine(run.batch))
  /\ run' = [run EXCEPT !.step = "report"]
  /\ UNCHANGED <<tables, events, runs, cuts>>

(* Artifacts and the MLflow run; a failure here changes nothing stored.      *)
Report == /\ run.step = "report"
          /\ run' = Idle
          /\ UNCHANGED <<tables, events, alerted, runs, cuts>>

(* An exception of a store, or the death of the process.                     *)
Cut == /\ run.step # "idle" /\ cuts < MaxCuts
       /\ run' = Idle /\ cuts' = cuts + 1
       /\ UNCHANGED <<tables, events, alerted, runs>>

RunNext == \/ BeginRun \/ LoadTarget \/ AllScored \/ ScoreTarget \/ RunRaises
           \/ StoreEvents \/ HandToAlerts \/ Report \/ Cut

-----------------------------------------------------------------------------
Ensembles == {e \in events : e.detector = "ensemble"}

(* Whatever a detector reported of an instant reaches AlertManager as one    *)
(* event that is no milder than any of the reports, although the votes, the  *)
(* override and the cap on isolation forest change severities                *)
(* (combine_detector_events).                                                *)
AlertsCoverReports ==
  run.step = "report" =>
    \A e \in run.batch :
      \E a \in Combine(run.batch) :
        /\ Id(a) \in alerted
        /\ a.target = e.target /\ a.hour = e.hour
        /\ Rank[a.severity] >= Rank[e.severity]
        /\ \A b \in Combine(run.batch) : (b.target = e.target /\ b.hour = e.hour) => b = a

(* If the rules are among the detectors asked for, an hour that is missing   *)
(* between rows of the window is stored and told as an ensemble event,       *)
(* critical throughout a long gap, in whichever order the rows arrived and   *)
(* whatever the other detectors say of it (_region_events, _gap_size).  A    *)
(* run without the rules tells no gap (detect_anomalies.py:96).              *)
GapsReported ==
  (run.step = "report" /\ "rules" \in run.detectors) =>
    \A t \in AllTargets : run.seen[t] # <<>> =>
      LET s == run.seen[t]
      IN  \A h \in Min(DOMAIN s) .. Max(DOMAIN s) :
            h \notin DOMAIN s =>
              \E e \in Ensembles :
                /\ e.target = t /\ e.hour = h /\ Id(e) \in alerted
                /\ (\E first \in Min(DOMAIN s) .. h :
                      /\ h < first + Rules.missingCritical
                      /\ (first .. first + Rules.missingCritical - 1) \cap DOMAIN s = {})
                   => e.severity = "critical"

(* A stored ensemble event is explained: the raw events it lists are stored  *)
(* with it, also after the window was detected again (AnomalyStorage.upsert).*)
EnsemblesExplained == \A e \in Ensembles : e.from \subseteq Ids(events)

(* "Leakage-safe": what the residual detector says of an hour does not       *)
(* change with the rows that follow it (residuals.py).                       *)
ResidualsAreCausal ==
  (run.step = "score" /\ "residual" \in run.detectors) =>
    LET found == ResidualEvents(run.source, forecasts, Target, TRUE)
    IN  \A h \in DOMAIN run.source :
          ResidualEvents(Between(run.source, ReadFrom, h), forecasts, Target, TRUE)
            = {e \in found : e.hour <= h}

(* A flatline is reported at the last of a maximal stretch of equal values   *)
(* and nowhere else, however the running count numbers the stretches         *)
(* (_flatline_events).                                                       *)
FlatlinesAreMaximal ==
  (run.step = "score" /\ Target # "solar_generation_mw") =>
    LET s     == Evaluation
        tight == {h \in DOMAIN s : \A k \in 1 .. Rules.flatlineHours - 1 : Flat(s, h - k + 1)}
    IN  {e.hour : e \in FlatlineEvents(s, Target, <<>>)} = {h \in tight : ~Flat(s, h + 1)}
=============================================================================
