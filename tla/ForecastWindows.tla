--------------------------- MODULE ForecastWindows ---------------------------
(***************************************************************************)
(* What a model may learn from and be measured on: contiguous segments and  *)
(* the backward search for validation windows (continuity.py), the history  *)
(* kept for tuning (training/datasets.py), lag and rolling features at      *)
(* training and at prediction (features/, models/target_factory.py), and    *)
(* the baselines with their errors (forecasting/baselines.py, metrics.py).  *)
(*                                                                         *)
(* A frame is a function from regions to series.  A day and a week are      *)
(* small constants; forecasts and errors are kept doubled, for one baseline *)
(* halves.  The statistics of a rolling window are its values.              *)
(* The global model and the models of a target differ in their features and *)
(* in when rows without a value are dropped: spec says which of them.       *)
(***************************************************************************)
EXTENDS Readings

CONSTANTS
  Horizon, Step,        \* hours forecast, and between validation windows
  Day, Week,            \* 24 and 168
  GlobalLags, GlobalRolling,   \* DEFAULT_LAGS, DEFAULT_ROLLING_WINDOWS
  TargetRolling,               \* rolling_windows of TargetForecaster
  WeatherLags, WeatherRolling  \* WEATHER_LAGS, WEATHER_ROLLING_WINDOWS

(* FeatureSpecification.create demands positive lags and windows above one;  *)
(* the global model has a lag of a week, which the weekly baseline reads.    *)
ASSUME WindowsAssumption ==
  /\ {Horizon, Step, Day, Week} \subseteq Nat \ {0} /\ Day < Week
  /\ IsFiniteSet(GlobalLags) /\ GlobalLags \subseteq Nat \ {0} /\ Week \in GlobalLags
  /\ \A windows \in {GlobalRolling, TargetRolling} :
       windows # {} /\ IsFiniteSet(windows) /\ windows \subseteq Nat \ {0, 1}

(* build_training computes features on all rows and drops incomplete ones    *)
(* last; _build_training and predict of a target drop rows without a value   *)
(* first.                                                                    *)
GlobalFeatures == [lags |-> GlobalLags, rolling |-> GlobalRolling, rows |-> "all"]
TargetFeatures == [lags |-> {1, Day, Week}, rolling |-> TargetRolling, rows |-> "observed"]

(* required_history.                                                         *)
Required(spec) == Max(spec.lags \cup spec.rolling)

-----------------------------------------------------------------------------
(* detect_contiguous_segments.                                               *)
SegmentOf(hours, h) == {g \in hours : Least(g, h) .. Most(g, h) \subseteq hours}

SlipSegments(hours) == IF hours = {} THEN {} ELSE {hours}

Segments(hours) == {SegmentOf(hours, h) : h \in hours}

Validation(origin) == origin + 1 .. origin + Horizon

SlipHistory(need, origin) == origin - need + 2 .. origin

History(need, origin) == origin - need + 1 .. origin

Accepted(need, frame, origin) ==
  \A r \in DOMAIN frame :
    /\ History(need, origin) \cup Validation(origin) \subseteq DOMAIN frame[r]
    /\ origin + Horizon \in SegmentOf(DOMAIN frame[r], origin)

(* select_gap_aware_windows: the origins found from the last hour backward,  *)
(* a step after one that is accepted, an hour after one that is not.  What   *)
(* it asks for is the history a specification requires.                      *)
Selected(need, frame, windows) ==
  LET last  == Min({Max(DOMAIN frame[r]) : r \in DOMAIN frame}) - Horizon
      first == Max({Min(DOMAIN frame[r]) : r \in DOMAIN frame}) + need - 1
      from[c \in first - Step .. Most(first - 1, last)] ==
        [n \in 0 .. windows |->
           IF c < first \/ n = 0 THEN {}
           ELSE IF Accepted(need, frame, c) THEN {c} \cup from[c - Step][n - 1] ELSE from[c - 1][n]]
  IN  from[Most(first - 1, last)][windows]

HasData(frame) == DOMAIN frame # {} /\ \A r \in DOMAIN frame : DOMAIN frame[r] # {}

(* Fewer windows than asked for is InsufficientHistoryError.                 *)
Selectable(need, frame, windows) ==
  HasData(frame) /\ Cardinality(Selected(need, frame, windows)) = windows

Measured(origins) == UNION {Validation(o) : o \in origins}

Until(s, h)     == [g \in {g \in DOMAIN s : g <= h} |-> s[g]]
Cut(frame, h)   == [r \in DOMAIN frame |-> Until(frame[r], h)]

SlipTuningFrame(frame, origins) == Cut(frame, Min(Measured(origins)))

(* reserve_final_evaluation_history: what precedes every final window.       *)
TuningFrame(frame, origins) == Cut(frame, Min(Measured(origins)) - 1)

-----------------------------------------------------------------------------
Absent(s)    == {h \in DOMAIN s : s[h] = NaN}
Present(s)   == [h \in DOMAIN s \ Absent(s) |-> s[h]]

(* Series.shift within a segment, by position.                               *)
Shifted(s, hours, i, k) == IF i > k THEN s[hours[i - k]] ELSE NaN

Features(spec, s, hours, i) ==
  [lags   |-> [k \in spec.lags |-> Shifted(s, hours, i, k)],
   recent |-> [w \in spec.rolling |-> [j \in 1 .. w |-> Shifted(s, hours, i, j)]]]

IsComplete(spec, x) ==
  /\ \A k \in spec.lags : x.lags[k] # NaN
  /\ \A w \in spec.rolling : \A j \in 1 .. w : x.recent[w][j] # NaN

(* The rows features are computed from.                                      *)
Kept(spec, s) == IF spec.rows = "observed" THEN Present(s) ELSE s

(* build_training and _build_training on the series of a region: the rows    *)
(* with a value and with all their features, by position in their segment.   *)
TrainingRows(spec, series) ==
  LET s == Kept(spec, series)
  IN  UNION {LET hours == Hourly(segment)
             IN  {[hour |-> hours[i], x |-> Features(spec, s, hours, i)] :
                    i \in {i \in DOMAIN hours : /\ s[hours[i]] # NaN
                                              /\ IsComplete(spec, Features(spec, s, hours, i))}} :
             segment \in Segments(DOMAIN s)}

(* build_future_row and _future_row: every hour of the context of an hour    *)
(* has a value, one that no feature reads as well, or                        *)
(* InsufficientHistoryError.                                                 *)
Context(spec, t)     == t - Required(spec) .. t - 1
Servable(spec, s, t) == Context(spec, t) \subseteq DOMAIN Present(s)

FutureRow(spec, s, t) ==
  [lags   |-> [k \in spec.lags |-> s[t - k]],
   recent |-> [w \in spec.rolling |-> [j \in 1 .. w |-> s[t - j]]]]

(* The last row of a region: recursive_predict takes it as it is, predict of *)
(* a target only if it has a value.                                          *)
Origin(spec, s) == Max(DOMAIN Kept(spec, s))

(* recursive_predict and predict need the regions to end together; every     *)
(* later step finds the predictions of the steps before it.                  *)
Forecastable(spec, frame) ==
  LET asked == {r \in DOMAIN frame : DOMAIN Kept(spec, frame[r]) # {}}
      ends  == {Origin(spec, frame[r]) : r \in asked}
  IN  /\ Cardinality(ends) = 1
      /\ \A r \in asked : Servable(spec, frame[r], 1 + Max(ends))

-----------------------------------------------------------------------------
(* simulate_forecast_weather and build_weather_features on the hours of one  *)
(* data type: the hours with a full weather history in their segment.        *)
After(hours, n)        == {h \in hours : h - n \in SegmentOf(hours, h)}
Simulated(hours)       == After(hours, Day)
WeatherFeatures(hours) == After(hours, Max(WeatherLags \cup WeatherRolling))

-----------------------------------------------------------------------------
Baselines == {"last_value", "seasonal_naive_24h", "seasonal_naive_168h", "average"}

(* The hour a seasonal forecast of hour h repeats.                           *)
Source(origin, h, lag) == CHOOSE g \in origin - lag + 1 .. origin : (h - g) % lag = 0

RepeatsFrom(s, lag) ==
  {Source(Max(DOMAIN s), h, lag) : h \in Validation(Max(DOMAIN s))}

(* A baseline has the hours it repeats; a NaN among them, or a negative      *)
(* value, is refused by summarize_predictions.                               *)
Sources(name, s) ==
  CASE name = "last_value"          -> {Max(DOMAIN s)}
    [] name = "seasonal_naive_24h"  -> RepeatsFrom(s, Day)
    [] name = "seasonal_naive_168h" -> RepeatsFrom(s, Week)
    [] OTHER                        -> RepeatsFrom(s, Day) \cup RepeatsFrom(s, Week)

Lag(name) == CASE name = "last_value" -> 1 [] name = "seasonal_naive_24h" -> Day [] OTHER -> Week

Works(name, s) ==
  /\ Lag(name) <= Cardinality(DOMAIN s)
  /\ Sources(name, s) \subseteq DOMAIN s
  /\ \A h \in Sources(name, s) : s[h] # NaN /\ s[h] >= 0

Twice(name, s, h) ==
  LET origin == Max(DOMAIN s)
  IN  CASE name = "last_value"          -> 2 * s[origin]
        [] name = "seasonal_naive_24h"  -> 2 * s[Source(origin, h, Day)]
        [] name = "seasonal_naive_168h" -> 2 * s[Source(origin, h, Week)]
        [] OTHER -> s[Source(origin, h, Day)] + s[Source(origin, h, Week)]

Distance(a, b) == IF a < b THEN b - a ELSE a - b

SumOver(S, f(_)) == FoldSet(LAMBDA x, total : total + f(x), 0, S)

(* The keys of the forecasts of an evaluation.                               *)
Cases(frame, origins) ==
  UNION {(DOMAIN frame) \X {o} \X Validation(o) : o \in origins}

(* _attach_validation: the hours forecast have actuals.                      *)
Attached(frame, origins) == \A c \in Cases(frame, origins) : frame[c[1]][c[3]] # NaN

(* evaluate_baseline; its absolute errors over all windows and regions, and  *)
(* the actuals, where there are any.                                         *)
Evaluable(name, frame, origins) ==
  /\ \A r \in DOMAIN frame, o \in origins : Works(name, Until(frame[r], o))
  /\ Attached(frame, origins)

BaselineError(name, frame, origins) ==
  SumOver(Cases(frame, origins),
          LAMBDA c : Distance(Twice(name, Until(frame[c[1]], c[2]), c[3]), 2 * frame[c[1]][c[3]]))

Scale(frame, origins) ==
  SumOver({c \in Cases(frame, origins) : frame[c[1]][c[3]] # NaN},
          LAMBDA c : 2 * Distance(frame[c[1]][c[3]], 0))

(* relative_improvement of at least a percentage.                            *)
Improves(error, reference, scale, percent) ==
  scale > 0 /\ reference > 0 /\ 100 * (reference - error) >= percent * reference
=============================================================================
