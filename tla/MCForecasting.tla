---------------------------- MODULE MCForecasting ----------------------------
(* Small instances of Forecasting for TLC: a training of many frames, two    *)
(* trainings that overlap, and predictions with each of their readers.       *)
EXTENDS Forecasting

CONSTANTS north, south

MCTargets == {"demand_mw", "net_load_mw", "solar_generation_mw"}

Rising(hours)        == [h \in hours |-> h]
Other(hours)         == [h \in hours |-> 3 + (h % 3)]
Daily(hours)         == [h \in hours |-> IF h % 2 = 0 THEN 8 + h ELSE h]
With(hour, value, s) == [s EXCEPT ![hour] = value]

NoWork == [arrivals |-> 0, predictions |-> 0, requests |-> 0, dispatches |-> 0, summaries |-> 0]

Frames(s) == [name \in Names |-> IF name = Global THEN north :> s ELSE south :> s]

Untrained ==
  [readings |-> Frames(Rising(1 .. 14)), skies |-> [historical |-> 1 .. 15, forecast |-> {}],
   registry |-> [name \in Names |-> <<>>], aliases |-> [name \in Names |-> [candidate |-> 0, champion |-> 0]],
   published |-> <<>>, left |-> NoWork, trainings |-> 1]

(* Series with gaps, before, between and within windows; two regions that    *)
(* differ; weather with a gap; absent and negative values, one of them at    *)
(* the distance that no lag and no window of the global model reads.         *)
Gapped    == {[Untrained EXCEPT !.readings = Frames(Rising((1 .. 16) \ gap))] :
                gap \in {{}, {5}, {8}, {10}, {5, 12}, 1 .. 2, 1 .. 4}}
TwoRegions == {[Untrained EXCEPT !.readings[Global] =
                   (north :> Rising((1 .. 14) \ {gap})) @@ (south :> Other(first .. 14))] :
                gap \in {2, 6}, first \in {1, 2, 4}}
Cloudy    == {[Untrained EXCEPT !.skies = [historical |-> (1 .. 15) \ {gap}, forecast |-> forecast]] :
                gap \in {1, 6}, forecast \in {{}, 1 .. 16, 3 .. 15}}
Absences  == {[Untrained EXCEPT !.readings = Frames(With(hour, value, Rising(1 .. 14)))] :
                hour \in {4, 8, 11, 14}, value \in {NaN, -1}}
Still     == {[Untrained EXCEPT !.readings = Frames([h \in 1 .. 14 |-> 0])]}

(* Two trainings of any names, and an hour that arrives between their steps. *)
Overlapping == [Untrained EXCEPT !.readings = Frames(Daily(1 .. 13)), !.trainings = 2, !.left.arrivals = 1]

(* Two versions of every name, the first of them champion.                   *)
Version(n) == [frame |-> [r \in IF n = 1 THEN {north, south} ELSE {south} |-> Rising(1 .. 9 + n)],
               origins |-> {5 + n, 7 + n}, error |-> 0]

Trained ==
  [Untrained EXCEPT !.trainings = 0, !.readings = Frames(Rising(1 .. 11)),
     !.skies = [historical |-> 1 .. 12, forecast |-> 1 .. 15],
     !.registry = [name \in Names |-> <<Version(1), Version(2)>>],
     !.aliases  = [name \in Names |-> [candidate |-> 2, champion |-> 1]]]

Stored(names, origin, version, hours, value) ==
  [key \in {<<name, south, origin, h, version>> : name \in names, h \in hours} |-> value]

Predicted == Stored({"demand_mw", "net_load_mw"}, 11, 1, 12 .. 13, 20)
               @@ Stored({"demand_mw"}, 10, 1, 11 .. 12, 21)
Longer    == Stored({"demand_mw"}, 11, 1, 12 .. 15, 20) @@ Stored({"demand_mw"}, 10, 1, 11 .. 12, 21)

Looked     == [Trained EXCEPT !.published = Longer, !.left.predictions = 2, !.left.requests = 1,
                              !.left.arrivals = 1]
Dispatched == [Trained EXCEPT !.published = Predicted, !.left.predictions = 1, !.left.dispatches = 2]
Recrowned  == [Trained EXCEPT !.published = Predicted, !.trainings = 1, !.left.dispatches = 1]
Summarised == [Trained EXCEPT !.published = Predicted, !.left.predictions = 1, !.left.summaries = 2]

MCStarts == Gapped \cup TwoRegions \cup Cloudy \cup Absences \cup Still
            \cup {Overlapping, Looked, Dispatched, Recrowned, Summarised}
=============================================================================
