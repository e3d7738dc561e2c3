---------------------------- MODULE RuleDetector ----------------------------
(***************************************************************************)
(* The deterministic rules (src/src/gridmind/anomalies/rules.py) on the     *)
(* rows of one region and target.                                           *)
(*                                                                         *)
(* A row is an hour and a value, NaN standing for any non-finite one.       *)
(* Once rows are sorted and made unique they are a function from hours to   *)
(* values, and "the row before" is the row of the hour before whenever a    *)
(* rule asks for consecutive hours.                                         *)
(***************************************************************************)
EXTENDS Anomalies

CONSTANT Rules  \* RuleConfig, percentages as whole numbers

ASSUME RulesAssumption ==
  /\ {Rules.flatlineHours, Rules.flatlineTolerance, Rules.solarExpected, Rules.missingCritical} \subseteq Int
  /\ Rules.demandChangePct > 0 /\ Rules.renewableDropPct > 0
  /\ Rules.flatlineHours > 1 /\ Rules.flatlineTolerance >= 0
  /\ Rules.solarDropHours > 0 /\ Rules.solarExpected > 0 /\ Rules.solarDrop > 0
  /\ Rules.missingCritical > 0 /\ Rules.staleAfter > 0
  /\ Rules.daylight > 0 /\ Rules.daylight < Rules.maxRadiation

RuleEvent(target, hour, type, points, severity) ==
  Event(target, hour, "rules", type, Points(points), severity)

(* _ordering_events looks at the rows as they come.                          *)
OrderingEvents(rows, target) ==
  {RuleEvent(target, rows[i].hour, "duplicate_timestamp", 75, "critical") :
     i \in {i \in DOMAIN rows : \E j \in DOMAIN rows : i # j /\ rows[i].hour = rows[j].hour}}
  \cup
  {[RuleEvent(target, rows[i].hour, "non_monotonic_timestamp", 55, "warning") EXCEPT !.row = i] :
     i \in {i \in DOMAIN rows : i > 1 /\ rows[i].hour < rows[i - 1].hour}}

(* sort_values("timestamp_utc") and drop_duplicates(keep="last").            *)
Series(rows) ==
  [h \in {rows[i].hour : i \in DOMAIN rows} |->
     rows[Max({i \in DOMAIN rows : rows[i].hour = h})].value]

Earlier(s, h) == {g \in DOMAIN s : g < h}
Later(s, h)   == {g \in DOMAIN s : g > h}

FrequencyEvents(s, target) ==
  {RuleEvent(target, h, "unexpected_frequency", 50, "warning") :
     h \in {h \in DOMAIN s : Earlier(s, h) # {} /\ h - 1 \notin DOMAIN s}}

Absent(s) == (Min(DOMAIN s) .. Max(DOMAIN s)) \ DOMAIN s

SlipGapToTheNextRow(s, h) == Min(Later(s, h)) - h

GapSize(s, h) == Min(Later(s, h)) - Max(Earlier(s, h)) - 1

MissingEvents(s, target) ==
  {IF GapSize(s, h) >= Rules.missingCritical
   THEN RuleEvent(target, h, "missing_timestamp", 80, "critical")
   ELSE RuleEvent(target, h, "missing_timestamp", 45, "warning") : h \in Absent(s)}

InvalidEvents(s, target) ==
  {RuleEvent(target, h, "invalid_value", 90, "critical") :
     h \in {h \in DOMAIN s : s[h] = NaN \/ (s[h] < 0 /\ target # "net_load_mw")}}

(* weather[h] holds the shortwave radiation and the daylight indicator of an *)
(* hour; they are merged into the rows of solar generation only.             *)
WeatherRangeEvents(s, target, weather) ==
  {RuleEvent(target, h, "invalid_value", 80, "critical") :
     h \in {h \in DOMAIN s \cap DOMAIN weather :
              /\ target = "solar_generation_mw"
              /\ weather[h].radiation # NaN
              /\ weather[h].radiation \notin 0 .. Rules.maxRadiation}}

Daylight(weather, h) ==
  /\ h \in DOMAIN weather
  /\ weather[h].indicator \in {TRUE, NaN}
  /\ weather[h].radiation # NaN
  /\ weather[h].radiation >= Rules.daylight

-----------------------------------------------------------------------------
(* Both rows exist, an hour apart, and hold numbers.                         *)
Consecutive(s, h) == {h - 1, h} \subseteq DOMAIN s /\ s[h - 1] # NaN /\ s[h] # NaN

Magnitude(n) == IF n < 0 THEN -n ELSE n

(* A change of at least pct percent of the row before, which is not zero.    *)
Rises(s, h, pct) == s[h - 1] # 0 /\ 100 * (s[h] - s[h - 1]) >= pct * Magnitude(s[h - 1])
Falls(s, h, pct) == s[h - 1] # 0 /\ 100 * (s[h - 1] - s[h]) >= pct * Magnitude(s[h - 1])

(* The magnitude is the change over its threshold, at least 1: every event   *)
(* of this rule has the same score.                                          *)
ChangeEvent(target, h, type) ==
  LET score == SeverityScore(Points(100), 1, 1)
  IN  Event(target, h, "rules", type, score, SeverityOf(score))

ChangeEvents(s, target) ==
  LET hours == {h \in DOMAIN s : Consecutive(s, h)}
  IN  CASE target = "demand_mw" ->
             {ChangeEvent(target, h, "demand_spike") :
                h \in {h \in hours : Rises(s, h, Rules.demandChangePct)}}
             \cup {ChangeEvent(target, h, "demand_drop") :
                h \in {h \in hours : Falls(s, h, Rules.demandChangePct)}}
        [] target \in {"wind_generation_mw", "total_renewable_generation_mw"} ->
             {ChangeEvent(target, h, "renewable_drop") :
                h \in {h \in hours : Falls(s, h, Rules.renewableDropPct)}}
        [] OTHER -> {}

(* _solar_drop_events: the value before the drop is what later hours of the  *)
(* drop are compared with.                                                   *)
BelowExpected(s, weather, h, expected) ==
  /\ Daylight(weather, h)
  /\ s[h] # NaN
  /\ expected - s[h] >= Rules.solarDrop
  /\ 100 * (expected - s[h]) >= Rules.renewableDropPct * expected

DropStarts(s, weather, h) ==
  /\ Consecutive(s, h)
  /\ s[h - 1] >= Rules.solarExpected
  /\ BelowExpected(s, weather, h, s[h - 1])

DropEnd(s, weather, h) ==
  Max({e \in h .. Max(DOMAIN s) :
         \A g \in h + 1 .. e : g \in DOMAIN s /\ BelowExpected(s, weather, g, s[h - 1])})

SolarDropEvent(s, target, h, hours) ==
  LET drop  == (Points(100) * (s[h - 1] - s[h])) \div s[h - 1]
      score == SeverityScore(drop, hours, 1)
  IN  Event(target, h, "rules", "renewable_drop", score, SeverityOf(score))

(* First hour and length of each drop.  The scan resumes after the drop it has *)
(* measured, reported or not.                                                *)
SolarDrops(s, weather) ==
  LET last == Max(DOMAIN s)
      from[h \in Min(DOMAIN s) .. last + 1] ==
        IF h > last THEN {}
        ELSE IF ~DropStarts(s, weather, h) THEN from[h + 1]
        ELSE LET end == DropEnd(s, weather, h)
             IN  {[first |-> h, hours |-> end - h + 1]} \cup from[end + 1]
  IN  from[Min(DOMAIN s)]

SolarDropEvents(s, target, weather) ==
  IF target # "solar_generation_mw" THEN {}
  ELSE {SolarDropEvent(s, target, drop.first, drop.hours) :
          drop \in {drop \in SolarDrops(s, weather) : drop.hours >= Rules.solarDropHours}}

-----------------------------------------------------------------------------
Flat(s, h) == Consecutive(s, h) /\ Magnitude(s[h] - s[h - 1]) <= Rules.flatlineTolerance

SlipRunOf(s, h) == Cardinality({g \in DOMAIN s : g < h /\ ~Flat(s, g)})

(* The running count of hours that are not flat numbers the runs.            *)
RunOf(s, h) == Cardinality({g \in DOMAIN s : g <= h /\ ~Flat(s, g)})
Run(s, h)   == {g \in DOMAIN s : RunOf(s, g) = RunOf(s, h)}

(* A flat stretch of solar generation counts in daylight only, and only if   *)
(* the row before it (or else its first) promised enough generation.         *)
SolarFlatline(s, weather, run) ==
  LET before   == Earlier(s, Min(run))
      expected == IF before = {} THEN s[Min(run)] ELSE s[Max(before)]
  IN  /\ expected = NaN \/ expected >= Rules.solarExpected
      /\ \A g \in run : Daylight(weather, g)

FlatlineEvents(s, target, weather) ==
  {RuleEvent(target, Max(run), "flatline", 50, "warning") :
     run \in {run \in {Run(s, h) : h \in DOMAIN s} :
                /\ Cardinality(run) >= Rules.flatlineHours
                /\ target = "solar_generation_mw" => SolarFlatline(s, weather, run)}}

StaleEvents(s, target, now) ==
  IF now - Max(DOMAIN s) > Rules.staleAfter
  THEN {RuleEvent(target, Max(DOMAIN s), "stale_observation", 40, "warning")} ELSE {}

CoverageEvents(hours, covered, target, type) ==
  {RuleEvent(target, h, type, 45, "warning") : h \in hours \ covered}

-----------------------------------------------------------------------------
(* detect on the rows of a window that is not empty.  covered is the set of  *)
(* hours with renewable generation, or NaN when there is no such table.      *)
RuleEvents(rows, target, weather, covered, now) ==
  LET s == Series(rows)
  IN  UNION {OrderingEvents(rows, target), FrequencyEvents(s, target), MissingEvents(s, target),
             InvalidEvents(s, target), WeatherRangeEvents(s, target, weather),
             ChangeEvents(s, target), SolarDropEvents(s, target, weather),
             FlatlineEvents(s, target, weather), StaleEvents(s, target, now),
             CoverageEvents(DOMAIN s, DOMAIN weather, target, "weather_grid_mismatch"),
             IF covered # NaN /\ target = "demand_mw"
             THEN CoverageEvents(DOMAIN s, covered, target, "coverage_mismatch") ELSE {}}

(* detect_forecast_weather_coverage.                                         *)
ForecastCoverage(forecast, target, weather) ==
  CoverageEvents(forecast, DOMAIN weather, target, "weather_grid_mismatch")
=============================================================================
