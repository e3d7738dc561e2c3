------------------------ MODULE StatisticalDetectors ------------------------
(***************************************************************************)
(* Forecast residuals scored against earlier residuals (anomalies/          *)
(* residuals.py), and isolation forest on the rows of a window              *)
(* (anomalies/multivariate.py), for one region and target.                  *)
(*                                                                         *)
(* Residuals are whole numbers and their statistics exact: the z-score is   *)
(* compared squared, medians are kept doubled.  How far a score lies above  *)
(* the floor of its severity, and which rows a forest isolates, is left     *)
(* open.                                                                    *)
(***************************************************************************)
EXTENDS RuleDetector

CONSTANT Residual  \* ResidualConfig; thresholds are in tenths

ASSUME ResidualAssumption ==
  /\ Residual.minHistory \in Nat \ {0} /\ Residual.window \in Nat \ {0}
  /\ 0 < Residual.zWarning /\ Residual.zWarning < Residual.zCritical
  /\ 0 < Residual.madWarning /\ Residual.madWarning < Residual.madCritical

(* align_actuals_and_forecasts: for each hour the forecast of the latest     *)
(* origin before it, and of those the last by model name and version.        *)
Usable(forecasts, target, s, h) ==
  {f \in forecasts : /\ f.target = target /\ f.hour = h
                     /\ f.origin < h
                     /\ f.value # NaN /\ s[h] # NaN}

Latest(candidates) ==
  LET origin == Max({f.origin : f \in candidates})
  IN  CHOOSE f \in candidates :
        /\ f.origin = origin
        /\ \A g \in candidates : g.origin = origin => g.model <= f.model

Align(s, forecasts, target) ==
  [h \in {h \in DOMAIN s : Usable(forecasts, target, s, h) # {}} |->
     Latest(Usable(forecasts, target, s, h))]

(* The residuals in the order of their hours.                                *)
Residuals(s, aligned) ==
  LET hours == Hourly(DOMAIN aligned)
  IN  [n \in DOMAIN hours |-> s[hours[n]] - aligned[hours[n]].value]

-----------------------------------------------------------------------------
SlipAllResiduals(r, n) == r

Prior(r, n) == SubSeq(r, Most(1, n - Residual.window), n - 1)

Total(seq) == FoldSeq(+, 0, seq)
TwiceMedian(seq) ==
  LET sorted == SortSeq(seq, <)
  IN  sorted[(Len(seq) + 1) \div 2] + sorted[(Len(seq) + 2) \div 2]

(* The sample variance times n * (n - 1), and a deviation from the mean      *)
(* times n.                                                                  *)
Spread(p) ==
  Len(p) * Total([i \in DOMAIN p |-> p[i] * p[i]]) - Total(p) * Total(p)
FromMean(p, value)    == Len(p) * value - Total(p)
FromMedian(p, value)  == 2 * value - TwiceMedian(p)
MadTwice(p) == TwiceMedian([i \in DOMAIN p |-> Magnitude(FromMedian(p, p[i]))])

(* _standard_score and _robust_score reach a threshold of k tenths; without  *)
(* a spread any deviation is infinitely many of them.                        *)
ZReaches(p, value, k) ==
  IF Spread(p) = 0 THEN FromMean(p, value) # 0
  ELSE 100 * FromMean(p, value) * FromMean(p, value) * (Len(p) - 1)
         >= k * k * Len(p) * Spread(p)

MadReaches(p, value, k) ==
  IF MadTwice(p) = 0 THEN FromMedian(p, value) # 0
  ELSE 2 * 6745 * Magnitude(FromMedian(p, value)) >= 1000 * k * MadTwice(p)

Critical(p, value) == ZReaches(p, value, Residual.zCritical)
                        \/ MadReaches(p, value, Residual.madCritical)
Anomalous(p, value) == ZReaches(p, value, Residual.zWarning)
                        \/ MadReaches(p, value, Residual.madWarning)

(* make_anomaly writes the statistics as JSON, which has no infinity and no  *)
(* NaN: it raises when a spread is zero, or undefined after a single row.    *)
Serialisable(p, value) ==
  /\ Len(p) > 1
  /\ Spread(p) # 0 \/ FromMean(p, value) = 0
  /\ MadTwice(p) # 0 \/ FromMedian(p, value) = 0

ResidualType(target, value) ==
  CASE target = "demand_mw" ->
         IF value > 0 THEN "unexpected_demand_spike" ELSE "unexpected_demand_drop"
    [] target = "solar_generation_mw" -> "solar_underproduction"
    [] target = "wind_generation_mw"  -> "wind_generation_drop"
    [] target = "net_load_mw"         -> "abnormal_net_load"
    [] OTHER                          -> "forecast_residual"

(* _is_daylight of an aligned row, which carries no radiation.               *)
DaylightHour(h) == h % 24 \in 6 .. 18

(* The positions _score_region reports.                                      *)
Flagged(r, hours, target) ==
  {n \in DOMAIN r : /\ Len(Prior(r, n)) >= Residual.minHistory
                    /\ target = "solar_generation_mw" => DaylightHour(hours[n])
                    /\ Anomalous(Prior(r, n), r[n])}

(* detect: high says whether scores lie at the top of their severity's range *)
(* or at its floor.                                                          *)
ResidualEvents(s, forecasts, target, high) ==
  LET aligned == Align(s, forecasts, target)
      hours   == Hourly(DOMAIN aligned)
      r       == Residuals(s, aligned)
  IN  {Event(target, hours[n], "residual", ResidualType(target, r[n]),
             IF Critical(Prior(r, n), r[n]) THEN Points(IF high THEN 100 ELSE 70)
             ELSE Points(IF high THEN 69 ELSE 30),
             IF Critical(Prior(r, n), r[n]) THEN "critical" ELSE "warning") :
         n \in Flagged(r, hours, target)}

ResidualRaises(s, forecasts, target) ==
  LET aligned == Align(s, forecasts, target)
      r       == Residuals(s, aligned)
  IN  \E n \in Flagged(r, Hourly(DOMAIN aligned), target) : ~Serialisable(Prior(r, n), r[n])

-----------------------------------------------------------------------------
(* _multivariate_features and dropna: rows whose features are all present;   *)
(* without weather columns the target is the only feature.                   *)
Complete(s, weather, columns) ==
  {h \in DOMAIN s : s[h] # NaN /\ (columns => h \in DOMAIN weather)}

(* score: an extreme row is a warning of at least 50 points, any other       *)
(* outlier an info below 30.                                                 *)
OutlierPoints == {29, 50, 69}

OutlierEvents(outliers, target, points) ==
  {Event(target, h, "isolation_forest", "multivariate_outlier", Points(points),
         IF points >= 50 THEN "warning" ELSE "info") : h \in outliers}
=============================================================================
