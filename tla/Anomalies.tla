----------------------------- MODULE Anomalies -----------------------------
(***************************************************************************)
(* Anomaly events (src/src/gridmind/anomalies): their contract, the scoring *)
(* of severity, and the vote that turns the events of one instant into one  *)
(* ensemble event.  A run detects for one region, which is left out.        *)
(*                                                                         *)
(* Scores are whole numbers of a 120th of a point, the unit in which the    *)
(* weights of severity_score are whole.                                     *)
(***************************************************************************)
EXTENDS Readings

Points(n) == 120 * n
Scores    == 0 .. Points(100)

Severities == {"info", "warning", "critical"}
Rank == [info |-> 0, warning |-> 1, critical |-> 2]

RuleTypes == <<"duplicate_timestamp", "non_monotonic_timestamp", "unexpected_frequency",
               "missing_timestamp", "invalid_value", "demand_spike", "demand_drop",
               "renewable_drop", "flatline", "stale_observation", "weather_grid_mismatch",
               "coverage_mismatch">>
ResidualTypes == {"unexpected_demand_spike", "unexpected_demand_drop", "solar_underproduction",
                  "wind_generation_drop", "abnormal_net_load", "forecast_residual"}
AnomalyTypes  == {RuleTypes[n] : n \in DOMAIN RuleTypes} \cup ResidualTypes
                   \cup {"multivariate_outlier"}

(* Detectors in the order of their names, as batches are sorted.             *)
Detectors == <<"isolation_forest", "residual", "rules">>

SlipId(e) == <<e.target, e.hour, e.type>>

(* deterministic_anomaly_id hashes the natural key of an event.              *)
Id(e)     == <<e.target, e.hour, e.detector, e.type>>
Ids(batch) == {Id(e) : e \in batch}

Clip(n, low, high) == Least(Most(n, low), high)

(* make_anomaly.  row tells events of one id apart that different rows of a  *)
(* batch give rise to; from holds the contributions of an ensemble event.    *)
Event(target, hour, detector, type, score, severity) ==
  [target |-> target, hour |-> hour, detector |-> detector, type |-> type,
   score |-> Clip(score, 0, Points(100)), severity |-> severity, row |-> 0, from |-> {}]

(* severity_score with the importance, completeness and recurrence that all  *)
(* its callers leave at their defaults; a magnitude of 1 is Points(100).     *)
SeverityScore(magnitude, hours, detectors) ==
  (9 * Clip(magnitude, 0, Points(100))) \div 20
    + 300 * Clip(hours, 1, 6) + 800 * Clip(detectors, 1, 3)
    + 800 + Points(1)

SeverityOf(score) ==
  IF score >= Points(70) THEN "critical" ELSE IF score >= Points(30) THEN "warning" ELSE "info"

(* validate_anomaly_frame rejects a batch in which an id occurs twice.       *)
ValidBatch(batch) ==
  /\ \A e \in batch : e.type \in AnomalyTypes /\ e.severity \in Severities /\ e.score \in Scores
  /\ \A e, f \in batch : Id(e) = Id(f) => e = f

-----------------------------------------------------------------------------
(* combine_detector_events.  The strongest event of an instant is the last   *)
(* by severity and score; among equals the sort keeps the batch's order, by  *)
(* detector and then in the order the rules emit their types.                *)
Order(e) ==
  LET detector == CHOOSE n \in DOMAIN Detectors : Detectors[n] = e.detector
      type     == {n \in DOMAIN RuleTypes : RuleTypes[n] = e.type}
  IN  20 * detector + (IF type = {} THEN 0 ELSE Max(type))

Stronger(e, f) ==
  \/ Rank[e.severity] > Rank[f.severity]
  \/ e.severity = f.severity /\ e.score > f.score
  \/ e.severity = f.severity /\ e.score = f.score /\ Order(e) >= Order(f)

Strongest(group) == CHOOSE e \in group : \A f \in group : Stronger(e, f)

Overrides(group) ==
  \E e \in group : e.detector \in {"rules", "residual"} /\ e.severity = "critical"

Votes(group) == Cardinality({e \in group : e.severity # "info"})

SlipVoteWithoutOverride(group) ==
  LET top   == Max({e.score : e \in group})
      score == SeverityScore(top, 1, Cardinality({e.detector : e \in group}))
  IN  [severity |-> SeverityOf(score), score |-> score]

(* The severity and score of a group, before and after isolation forest is   *)
(* kept from escalating on its own.                                          *)
Vote(group) ==
  LET top      == Max({e.score : e \in group})
      score    == SeverityScore(top, 1, Cardinality({e.detector : e \in group}))
      severity == IF Overrides(group) THEN "critical" ELSE SeverityOf(score)
  IN  IF Votes(group) >= 2 /\ severity = "info"
      THEN [severity |-> "warning", score |-> Most(score, Points(30))]
      ELSE [severity |-> severity, score |-> score]

Decision(group) ==
  LET vote == Vote(group)
      top  == Max({e.score : e \in group})
  IN  IF {e.detector : e \in group} # {"isolation_forest"} THEN vote
      ELSE IF top >= Points(50)
           THEN [severity |-> "warning", score |-> Least(vote.score, Points(69))]
           ELSE [severity |-> "info", score |-> Least(vote.score, Points(29))]

EnsembleOf(group) ==
  LET first == CHOOSE e \in group : TRUE
  IN  [Event(first.target, first.hour, "ensemble", Strongest(group).type,
             Decision(group).score, Decision(group).severity)
         EXCEPT !.from = Ids(group)]

Combine(batch) ==
  {EnsembleOf({e \in batch : e.target = key[1] /\ e.hour = key[2]}) :
     key \in {<<e.target, e.hour>> : e \in batch}}

-----------------------------------------------------------------------------
(* AnomalyStorage.upsert: DELETE by id and INSERT, in one transaction.       *)
Upsert(stored, batch) == {e \in stored : Id(e) \notin Ids(batch)} \cup batch
=============================================================================
