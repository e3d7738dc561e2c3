------------------------------ MODULE Training ------------------------------
(***************************************************************************)
(* The two training pipelines (pipelines/train.py, train_target.py) and the *)
(* model registry they promote into (models/promotion.py).  Several of them *)
(* may run at once while new rows arrive.  An exception of the tracking     *)
(* server, of a file or of an estimator ends a training wherever it is.     *)
(*                                                                         *)
(* What an estimator learns is outside: its error is any of a few.  What it *)
(* is given, what it is measured on and what it is compared with is not.    *)
(***************************************************************************)
EXTENDS ForecastWindows

CONSTANTS
  Trainers,      \* training processes
  Global,        \* the registered model of train.py: demand of every region
  Targets,       \* the targets of train_target.py, each with a registered model
  Models,        \* estimators compared
  Errors,        \* the sums of errors an estimator may end with
  FinalWindows, TuningWindows,
  Threshold      \* improvement over the daily baseline for champion, in percent

Names == {Global} \cup Targets

(* The global model is registered under a name of its own; settings ask for  *)
(* at least one window each (config.py), and some estimator is compared.     *)
ASSUME TrainingAssumption ==
  /\ Global \notin Targets
  /\ {FinalWindows, TuningWindows} \subseteq Nat \ {0}
  /\ Models # {}

VARIABLES
  readings,   \* the table each of the names is trained on: a frame
  skies,      \* hours of regional weather by data type
  jobs,       \* what each trainer is doing
  registry,   \* versions by name: what they were trained and measured on
  aliases,    \* candidate and champion version by name, 0 if not set
  crowned,    \* the versions that ever were champion
  trainings   \* bound: trainings that may still begin

trainingVars == <<readings, skies, jobs, registry, aliases, crowned, trainings>>

NoJob == [step |-> "idle", name |-> Global, frame |-> <<>>, tune |-> FALSE, origins |-> {}, inner |-> {},
          todo |-> {}, tuned |-> {}, errors |-> <<>>, reference |-> 0, best |-> 0, version |-> 0]

Steps == {"idle", "tune", "baselines", "models", "register", "candidate", "champion"}

TrainingTypeOK ==
  /\ \A t \in Trainers : /\ jobs[t].step \in Steps /\ jobs[t].name \in Names
                         /\ jobs[t].todo \cup jobs[t].tuned \subseteq Models
                         /\ jobs[t].version \in 0 .. Len(registry[jobs[t].name])
  /\ \A name \in Names : aliases[name].candidate \in 0 .. Len(registry[name])
                         /\ aliases[name].champion \in crowned[name] \cup {0}
                         /\ crowned[name] \subseteq DOMAIN registry[name]

-----------------------------------------------------------------------------
(* _load_weather: the forecasts stored if there are any, else yesterday's    *)
(* weather for today.                                                        *)
WeatherHours == IF skies.forecast # {} THEN skies.forecast ELSE Simulated(skies.historical)

(* read_data for every region, or one target joined with its weather.        *)
Loaded(name) ==
  IF name = Global THEN readings[name]
  ELSE [r \in DOMAIN readings[name] |->
          LET s == readings[name][r]
          IN  [h \in DOMAIN s \cap WeatherFeatures(WeatherHours) |-> s[h]]]

SpecificationOf(name) == IF name = Global THEN GlobalFeatures ELSE TargetFeatures
NeedOf(name)          == Required(SpecificationOf(name))

BaselinesOf(name) ==
  CASE name = Global        -> Baselines
    [] name = "net_load_mw" -> {"last_value", "seasonal_naive_24h"}
    [] OTHER                -> Baselines \ {"average"}

(* fit: complete rows of any segment of any region.                          *)
Fittable(spec, frame) == \E r \in DOMAIN frame : TrainingRows(spec, frame[r]) # {}

(* evaluate_model: at an origin a model is fitted to what precedes it and    *)
(* forecasts what follows it.                                                *)
EvaluableAt(spec, frame, origin) ==
  Fittable(spec, Cut(frame, origin)) /\ Forecastable(spec, Cut(frame, origin))

(* evaluate_target_model likewise; either is done for every origin.          *)
Measurable(spec, frame, origins) == \A o \in origins : EvaluableAt(spec, frame, o)

(* A study none of whose trials yields a finite error raises.                *)
Tunable(spec, frame, origins) == Measurable(spec, frame, origins) /\ Scale(frame, origins) # 0

Advance(t, step) == [jobs EXCEPT ![t].step = step]
Abandoned(t)     == [jobs EXCEPT ![t] = NoJob]
Current(models) == CHOOSE m \in models : TRUE

-----------------------------------------------------------------------------
(* An hour is appended to every series and to the weather.                   *)
Arrive(value) ==
  /\ readings' = [name \in Names |-> [r \in DOMAIN readings[name] |->
                    LET s == readings[name][r]
                    IN  Override(s, [h \in {1 + Max(DOMAIN s)} |-> value])]]
  /\ skies' = [type \in DOMAIN skies |->
                 IF skies[type] = {} THEN {} ELSE skies[type] \cup {1 + Max(skies[type])}]
  /\ UNCHANGED <<jobs, registry, aliases, crowned, trainings>>

NewJob(name, frame, tune) ==
  [NoJob EXCEPT !.name = name, !.frame = frame, !.tune = tune, !.todo = Models,
                !.origins = Selected(NeedOf(name), frame, FinalWindows)]

(* run_training_pipeline chooses its final windows and those of tuning       *)
(* first; too little history, or no complete row, ends it.                   *)
BeginGlobal(t) ==
  /\ jobs[t].step = "idle" /\ trainings > 0
  /\ \E tune \in BOOLEAN :
       LET frame == Loaded(Global)
           need  == NeedOf(Global)
           older == TuningFrame(frame, Selected(need, frame, FinalWindows))
       IN  jobs' = [jobs EXCEPT ![t] =
             IF /\ Selectable(need, frame, FinalWindows) /\ Fittable(GlobalFeatures, frame)
                /\ tune => Selectable(need, older, TuningWindows)
             THEN [NewJob(Global, frame, tune) EXCEPT !.step = "baselines",
                     !.inner = IF tune THEN Selected(need, older, TuningWindows) ELSE {}]
             ELSE NoJob]
  /\ trainings' = trainings - 1
  /\ UNCHANGED <<readings, skies, registry, aliases, crowned>>

(* run_target_training, of the hours that have a target and weather.         *)
BeginTarget(t) ==
  /\ jobs[t].step = "idle" /\ trainings > 0
  /\ \E name \in Targets, tune \in BOOLEAN :
       jobs' = [jobs EXCEPT ![t] =
         IF Selectable(NeedOf(name), Loaded(name), FinalWindows)
         THEN [NewJob(name, Loaded(name), tune) EXCEPT !.step = IF tune THEN "tune" ELSE "baselines"]
         ELSE NoJob]
  /\ trainings' = trainings - 1
  /\ UNCHANGED <<readings, skies, registry, aliases, crowned>>

(* tune_model for the estimator under evaluation.                            *)
TuneGlobal(t) ==
  /\ jobs[t].step = "tune" /\ jobs[t].name = Global
  /\ LET job == jobs[t]
     IN  jobs' = [jobs EXCEPT ![t] =
           IF Tunable(GlobalFeatures, TuningFrame(job.frame, job.origins), job.inner)
           THEN [job EXCEPT !.tuned = @ \cup {Current(job.todo)}, !.step = "models"]
           ELSE NoJob]
  /\ UNCHANGED <<readings, skies, registry, aliases, crowned, trainings>>

(* A target's estimators are tuned one after the other before anything is    *)
(* evaluated, each on windows of the older history.                          *)
TuneTarget(t) ==
  /\ jobs[t].step = "tune" /\ jobs[t].name # Global
  /\ LET job   == jobs[t]
         older == TuningFrame(job.frame, job.origins)
         inner == Selected(NeedOf(job.name), older, TuningWindows)
         tuned == job.tuned \cup {Current(Models \ job.tuned)}
     IN  jobs' = [jobs EXCEPT ![t] =
           IF /\ Selectable(NeedOf(job.name), older, TuningWindows)
              /\ Tunable(SpecificationOf(job.name), older, inner)
           THEN [job EXCEPT !.inner = inner, !.tuned = tuned,
                            !.step = IF tuned = Models THEN "baselines" ELSE @]
           ELSE NoJob]
  /\ UNCHANGED <<readings, skies, registry, aliases, crowned, trainings>>

SlipReference(job) == BaselineError("last_value", job.frame, job.origins)

(* What a candidate has to improve on.                                       *)
Reference(job) == BaselineError("seasonal_naive_24h", job.frame, job.origins)

EvaluateBaselines(t) ==
  /\ jobs[t].step = "baselines"
  /\ LET job == jobs[t]
     IN  jobs' = [jobs EXCEPT ![t] =
           IF \A name \in BaselinesOf(job.name) : Evaluable(name, job.frame, job.origins)
           THEN [job EXCEPT !.reference = Reference(job), !.step = "models"]
           ELSE NoJob]
  /\ UNCHANGED <<readings, skies, registry, aliases, crowned, trainings>>

(* The next estimator on the final windows.  train.py measures it untuned    *)
(* before it tunes it, and keeps what it measures afterwards.                *)
EvaluateModel(t) ==
  /\ jobs[t].step = "models" /\ jobs[t].todo # {}
  /\ LET job   == jobs[t]
         model == Current(job.todo)
     IN  IF ~Measurable(SpecificationOf(job.name), job.frame, job.origins) THEN jobs' = Abandoned(t)
         ELSE IF job.tune /\ model \notin job.tuned THEN jobs' = Advance(t, "tune")
         ELSE \E error \in Errors :
                jobs' = [jobs EXCEPT ![t].errors = @ @@ (model :> error), ![t].todo = @ \ {model}]
  /\ UNCHANGED <<readings, skies, registry, aliases, crowned, trainings>>

(* The error of the estimator that leads the others on the leaderboard.      *)
Leading(job) == Min(Range(job.errors))

(* It is fitted to the whole frame, saved and loaded again.                  *)
RankAndFit(t) ==
  /\ jobs[t].step = "models" /\ jobs[t].todo = {}
  /\ jobs' = [jobs EXCEPT ![t].best = Leading(jobs[t]), ![t].step = "register"]
  /\ UNCHANGED <<readings, skies, registry, aliases, crowned, trainings>>

(* What is logged and registered.                                            *)
Registered(job) == [frame |-> job.frame, origins |-> job.origins, error |-> job.best]

(* create_model_version, once the model is logged.                           *)
CreateVersion(t) ==
  /\ jobs[t].step = "register"
  /\ LET job == jobs[t]
     IN  /\ registry' = [registry EXCEPT ![job.name] = Append(@, Registered(job))]
         /\ jobs' = [jobs EXCEPT ![t].version = Len(registry'[job.name]), ![t].step = "candidate"]
  /\ UNCHANGED <<readings, skies, aliases, crowned, trainings>>

(* apply_promotion_gate: the candidate alias moves whatever the metrics.     *)
AssignCandidate(t) ==
  /\ jobs[t].step = "candidate"
  /\ aliases' = [aliases EXCEPT ![jobs[t].name].candidate = jobs[t].version]
  /\ jobs' = Advance(t, "champion")
  /\ UNCHANGED <<readings, skies, registry, crowned, trainings>>

(* A metric without scale is no number, and does not improve on anything.    *)
GatePasses(job) ==
  Improves(job.best, job.reference, Scale(job.frame, job.origins), Threshold)

AssignChampion(t) ==
  /\ jobs[t].step = "champion"
  /\ LET job == jobs[t]
     IN  IF GatePasses(job)
         THEN /\ aliases' = [aliases EXCEPT ![job.name].champion = job.version]
              /\ crowned' = [crowned EXCEPT ![job.name] = @ \cup {job.version}]
         ELSE UNCHANGED <<aliases, crowned>>
  /\ jobs' = Abandoned(t)
  /\ UNCHANGED <<readings, skies, registry, trainings>>

(* An exception, the end of the process, or a training without a registry.   *)
TrainingEnds(t) ==
  /\ jobs[t].step # "idle"
  /\ jobs' = Abandoned(t)
  /\ UNCHANGED <<readings, skies, registry, aliases, crowned, trainings>>

Train(t) == \/ BeginGlobal(t) \/ BeginTarget(t) \/ TuneGlobal(t) \/ TuneTarget(t)
            \/ EvaluateBaselines(t) \/ EvaluateModel(t) \/ RankAndFit(t) \/ CreateVersion(t)
            \/ AssignCandidate(t) \/ AssignChampion(t) \/ TrainingEnds(t)

-----------------------------------------------------------------------------
(* Nothing a training tunes on, neither the rows it fits to nor the hours it *)
(* measures, is as late as an hour the final comparison is measured on       *)
(* (run_training_pipeline, run_target_training).                             *)
TuningStaysBehind ==
  \A t \in Trainers : jobs[t].inner # {} =>
    \A r \in DOMAIN jobs[t].frame :
      LET seen == (DOMAIN TuningFrame(jobs[t].frame, jobs[t].origins)[r]) \cup Measured(jobs[t].inner)
      IN  \A h \in seen, final \in Measured(jobs[t].origins) : h < final

Whole(frame) == \A r \in DOMAIN frame : Absent(frame[r]) = {}

(* The windows that the selection hands out are enough: in a frame without   *)
(* absent values no baseline and no recursive forecast of any final or       *)
(* tuning window lacks an hour it reads (select_gap_aware_windows promises   *)
(* what _future_row and the baselines demand).                               *)
SelectionSuffices ==
  \A t \in Trainers : Whole(jobs[t].frame) =>
    \A o \in jobs[t].origins \cup jobs[t].inner :
      /\ Forecastable(SpecificationOf(jobs[t].name), Cut(jobs[t].frame, o))
      /\ \A r \in DOMAIN jobs[t].frame, name \in Baselines :
           Sources(name, Until(jobs[t].frame[r], o)) \subseteq DOMAIN Until(jobs[t].frame[r], o)

(* The distances at which some feature reads.                                *)
Read(spec) == spec.lags \cup UNION {1 .. w : w \in spec.rolling}

(* Every row a model is fitted to has the features prediction computes for   *)
(* its hour, from a history without a gap, wherever the series has gaps or   *)
(* absent values.  Prediction refuses such an hour only of the global model, *)
(* only for absent values, and only for those no feature reads: rows that    *)
(* build_training keeps (builder.py:66-76) and build_future_row raises for   *)
(* (builder.py:113-126).  Of a target it refuses none (_build_training,      *)
(* _future_row).                                                             *)
TrainServeAgree ==
  \A t \in Trainers : \A r \in DOMAIN jobs[t].frame :
    LET spec == SpecificationOf(jobs[t].name)
        s    == jobs[t].frame[r]
    IN  \A row \in TrainingRows(spec, s) :
          /\ Context(spec, row.hour) \subseteq DOMAIN s
          /\ row.x = FutureRow(spec, s, row.hour)
          /\ ~Servable(spec, s, row.hour) =>
               /\ jobs[t].name = Global
               /\ \A h \in Context(spec, row.hour) : s[h] = NaN => row.hour - h \notin Read(spec)

Earned(v) == Improves(v.error, BaselineError("seasonal_naive_24h", v.frame, v.origins),
                      Scale(v.frame, v.origins), Threshold)

(* A champion has beaten the daily baseline on the windows it was itself     *)
(* measured on, however many trainings of the same name overlap and whatever *)
(* rows arrive meanwhile (apply_promotion_gate).                             *)
ChampionEarnedIt ==
  \A name \in Names : aliases[name].champion # 0 =>
    Earned(registry[name][aliases[name].champion])
=============================================================================
