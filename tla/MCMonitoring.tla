---------------------------- MODULE MCMonitoring ----------------------------
(* Small instances of Monitoring for TLC: detection alone over many series,  *)
(* and detection of a few series while they are acquired.                    *)
EXTENDS Monitoring

CONSTANTS north, south

MCRules == [demandChangePct |-> 60, renewableDropPct |-> 50, flatlineHours |-> 3,
            flatlineTolerance |-> 0, solarDropHours |-> 2, solarExpected |-> 4, solarDrop |-> 3,
            missingCritical |-> 2, staleAfter |-> 1, daylight |-> 50, maxRadiation |-> 1500]
MCResidual  == [minHistory |-> 2, window |-> 3, zWarning |-> 20, zCritical |-> 35,
                madWarning |-> 20, madCritical |-> 40]
MCTargets   == {<<"demand_mw">>, <<"solar_generation_mw", "net_load_mw">>}
MCDetectors == {{"rules"}, {"residual"}, {"residual", "isolation_forest"}, AllDetectors}
MCWindows   == {<<11, 14>>}
MCLocations == {north, south}
MCAmounts   == {-1, 3}

Known(hour, value) == [target |-> "demand_mw", hour |-> hour, origin |-> 9, model |-> 1, value |-> value]

Quiet == [demand |-> <<>>, renewables |-> <<>>, netLoad |-> FALSE,
          spots |-> [key \in (MCLocations \X (10 .. 14)) \X {"historical"} |-> 300],
          forecasts |-> {}, feed |-> <<>>, sky |-> <<>>, fetches |-> 0, runs |-> 1, revisions |-> 0]

(* Series of demand with gaps, steps and flat stretches.                     *)
Gaps == {[Quiet EXCEPT !.demand = d] : d \in UNION {[H -> {2, 4}] : H \in SUBSET (11 .. 14)}}

(* Demand against a forecast, enough of it for a residual to be scored.      *)
Scored == {[Quiet EXCEPT !.demand = d, !.forecasts = {Known(h, 2) : h \in 10 .. 14}] :
             d \in [10 .. 13 -> {2, 3, 9}]}

(* Solar generation in daylight, in the dark, and beyond what the sun gives. *)
Sunny == {[Quiet EXCEPT !.renewables = [h \in 12 .. 14 |-> [solar |-> s[h], wind |-> 1]],
                        !.spots = [key \in (MCLocations \X (11 .. 14)) \X {"historical"} |->
                                     IF key[1][2] = 14 THEN w ELSE 300]] :
            s \in [12 .. 14 -> {NaN, 1, 6}], w \in {20, 300, 2000}}

(* Rows that are acquired twice, and rows acquired while they are detected   *)
(* once and again.                                                           *)
Acquired ==
  [Quiet EXCEPT !.demand = [h \in {12, 14} |-> 3], !.spots = <<>>,
                !.renewables = [h \in {14} |-> [solar |-> 6, wind |-> 1]],
                !.feed = [key \in ((12 .. 13) \X {Demand, Sun, Wind}) \ {<<12, Sun>>} |-> 2],
                !.sky = [key \in MCLocations \X (12 .. 13) \X {"historical", "forecast"} |-> 300],
                !.fetches = 2, !.runs = 0, !.revisions = 2]
Watched == [Acquired EXCEPT !.fetches = 1, !.runs = 2, !.revisions = 0]

MCStarts == Gaps \cup Scored \cup Sunny \cup {Acquired, Watched}
=============================================================================
