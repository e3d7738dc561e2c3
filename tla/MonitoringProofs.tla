--------------------------- MODULE MonitoringProofs ---------------------------
(***************************************************************************)
(* Theorems about Monitoring for any series, targets, windows, rules, feeds *)
(* and locations, any page and chunk sizes, and any number of pipelines,    *)
(* revisions and faults.                                                    *)
(*                                                                         *)
(* Acquisition: FilesInv, SkyInv, FetchInv and RegionInv say at each step   *)
(* of a pipeline what the steps before it have already written or gathered. *)
(* Detection: EventsInv says which events may explain which; DetectionInv   *)
(* adds that tables hold numbers at finitely many hours, what the run has   *)
(* read so far, and that its batch has one valid event per id among which   *)
(* are the gaps of every target scored.                                     *)
(***************************************************************************)
EXTENDS Monitoring, ReadingsTheorems, SequenceTheorems

RunFields == {"step", "window", "detectors", "todo", "source", "batch", "seen"}

(* Detectors never sign as the ensemble.                                     *)
Raw(batch) == \A e \in batch : e.detector # "ensemble"

EventsInv ==
  /\ DOMAIN run = RunFields /\ run.detectors \subseteq AllDetectors
  /\ Raw(run.batch)
  /\ EnsemblesExplained

LEMMA EventDetector ==
  ASSUME NEW target, NEW hour, NEW detector, NEW type, NEW score, NEW severity
  PROVE  Event(target, hour, detector, type, score, severity).detector = detector
  BY DEF Event

LEMMA RuleEventsAreRaw ==
  ASSUME NEW rows, NEW target, NEW sky0, NEW covered, NEW now
  PROVE  Raw(RuleEvents(rows, target, sky0, covered, now))
<1>1. \A t, h, type, points, severity : RuleEvent(t, h, type, points, severity).detector = "rules"
  BY EventDetector DEF RuleEvent
<1> DEFINE s == Series(rows)
<1> HIDE DEF s
<1>2. Raw(OrderingEvents(rows, target))
  <2>1. \A t, h, type, points, severity, i :
          [RuleEvent(t, h, type, points, severity) EXCEPT !.row = i].detector = "rules"
    BY DEF RuleEvent, Event
  <2>2. ASSUME NEW e \in OrderingEvents(rows, target) PROVE e.detector = "rules"
    <3>1. CASE \E i \in DOMAIN rows :
                 e = RuleEvent(target, rows[i].hour, "duplicate_timestamp", 75, "critical")
      BY <1>1, <3>1
    <3>2. CASE \E i \in DOMAIN rows :
                 e = [RuleEvent(target, rows[i].hour, "non_monotonic_timestamp", 55, "warning")
                        EXCEPT !.row = i]
      BY <2>1, <3>2
    <3> QED BY <2>2, <3>1, <3>2 DEF OrderingEvents
  <2> QED BY <2>2 DEF Raw
<1>3. Raw(FrequencyEvents(s, target)) /\ Raw(MissingEvents(s, target)) /\ Raw(InvalidEvents(s, target))
  BY <1>1 DEF FrequencyEvents, MissingEvents, InvalidEvents, Raw
<1>4. Raw(WeatherRangeEvents(s, target, sky0)) /\ Raw(StaleEvents(s, target, now))
  BY <1>1 DEF WeatherRangeEvents, StaleEvents, Raw
<1>5. Raw(ChangeEvents(s, target))
  <2>1. \A t, h, type : ChangeEvent(t, h, type).detector = "rules"
    BY EventDetector DEF ChangeEvent
  <2> QED BY <2>1 DEF ChangeEvents, Raw
<1>6. Raw(SolarDropEvents(s, target, sky0))
  <2>1. \A t, h, hours : SolarDropEvent(s, t, h, hours).detector = "rules"
    BY EventDetector DEF SolarDropEvent
  <2> QED BY <2>1 DEF SolarDropEvents, Raw
<1>7. Raw(FlatlineEvents(s, target, sky0))
  BY <1>1 DEF FlatlineEvents, Raw
<1>8. \A hours, present, type : Raw(CoverageEvents(hours, present, target, type))
  BY <1>1 DEF CoverageEvents, Raw
<1>9. Raw(IF covered # NaN /\ target = "demand_mw"
          THEN CoverageEvents(DOMAIN s, covered, target, "coverage_mismatch") ELSE {})
  BY <1>8 DEF Raw
<1> QED BY <1>2, <1>3, <1>4, <1>5, <1>6, <1>7, <1>8, <1>9 DEF RuleEvents, Raw, s

LEMMA FoundIsRaw ==
  ASSUME NEW read, NEW high, NEW outliers, NEW points
  PROVE  /\ Raw(RulesPart(read) \cup ForecastPart(read))
         /\ Raw(ResidualPart(high))
         /\ Raw(OutlierEvents(outliers, Target, points))
<1>1. Raw(RulesPart(read))
  BY RuleEventsAreRaw DEF RulesPart
<1>2. Raw(ForecastPart(read))
  BY EventDetector DEF ForecastPart, ForecastCoverage, CoverageEvents, RuleEvent, Raw
<1>3. Raw(ResidualPart(high))
  BY EventDetector DEF ResidualPart, InWindow, ResidualEvents, Raw
<1>4. Raw(OutlierEvents(outliers, Target, points))
  BY EventDetector DEF OutlierEvents, Raw
<1> QED BY <1>1, <1>2, <1>3, <1>4 DEF Raw

LEMMA UpsertKeepsIds ==
  ASSUME NEW stored, NEW batch
  PROVE  /\ Ids(stored) \subseteq Ids(Upsert(stored, batch))
         /\ \A part \in SUBSET batch : Ids(part) \subseteq Ids(Upsert(stored, batch))
  BY DEF Ids, Upsert

LEMMA EnsemblesListTheirBatch ==
  ASSUME NEW batch, NEW e \in Combine(batch)
  PROVE  e.from \subseteq Ids(batch)
<1>1. PICK group \in SUBSET batch : e = EnsembleOf(group)
  BY DEF Combine
<1>2. e.from = Ids(group)
  BY <1>1 DEF EnsembleOf, Event
<1> QED BY <1>2 DEF Ids

LEMMA EventsNext ==
  ASSUME EventsInv, [Next]_vars
  PROVE  EventsInv'
<1>1. CASE UNCHANGED <<run, events>>
  BY <1>1 DEF EventsInv, EnsemblesExplained, Ensembles
<1>2. ASSUME run' = Idle, UNCHANGED events PROVE EventsInv'
  BY <1>2 DEF EventsInv, EnsemblesExplained, Ensembles, Idle, Raw, RunFields
<1>3. ASSUME UNCHANGED events, DOMAIN run' = DOMAIN run, run'.detectors = run.detectors,
             run'.batch = run.batch
      PROVE  EventsInv'
  BY <1>3 DEF EventsInv, EnsemblesExplained, Ensembles
<1>4. ASSUME BeginRun PROVE EventsInv'
  <2>1. PICK w \in Windows, list \in TargetLists, d \in DetectorSets :
          run' = [Idle EXCEPT !.step = "load", !.window = w, !.detectors = d, !.todo = list]
    BY <1>4 DEF BeginRun
  <2>2. DOMAIN run' = RunFields /\ run'.batch = {} /\ run'.detectors = d
    BY <2>1 DEF Idle, RunFields
  <2>3. UNCHANGED events
    BY <1>4 DEF BeginRun
  <2>4. Raw(run'.batch) /\ run'.detectors \subseteq AllDetectors
    BY <2>2, DetectorAssumption DEF Raw
  <2> QED BY <2>2, <2>3, <2>4 DEF EventsInv, EnsemblesExplained, Ensembles
<1>5. ASSUME LoadTarget PROVE EventsInv'
  <2>1. /\ DOMAIN run' = DOMAIN run /\ run'.batch = run.batch /\ UNCHANGED events
        /\ run'.detectors = run.detectors
    BY <1>5 DEF LoadTarget, EventsInv, RunFields
  <2> QED BY <1>3, <2>1
<1>6. ASSUME AllScored \/ HandToAlerts PROVE EventsInv'
  <2>1. /\ DOMAIN run' = DOMAIN run /\ run'.batch = run.batch /\ UNCHANGED events
        /\ run'.detectors = run.detectors
    BY <1>6 DEF AllScored, HandToAlerts, EventsInv, RunFields
  <2> QED BY <1>3, <2>1
<1>7. ASSUME ScoreTarget PROVE EventsInv'
  <2>1. PICK read \in WeatherReads :
          \E high \in BOOLEAN : \E outliers \in Outliers(read), points \in OutlierPoints :
            LET found == [rules |-> RulesPart(read) \cup ForecastPart(read),
                          residual |-> ResidualPart(high),
                          isolation_forest |-> OutlierEvents(outliers, Target, points)]
            IN  run' = [run EXCEPT !.batch = Upsert(@, UNION {found[d] : d \in run.detectors}),
                                   !.seen[Target] = Evaluation,
                                   !.todo = Tail(@), !.source = <<>>, !.step = "load"]
    BY <1>7 DEF ScoreTarget
  <2>2. PICK high \in BOOLEAN, outliers \in Outliers(read), points \in OutlierPoints :
            LET found == [rules |-> RulesPart(read) \cup ForecastPart(read),
                          residual |-> ResidualPart(high),
                          isolation_forest |-> OutlierEvents(outliers, Target, points)]
            IN  run' = [run EXCEPT !.batch = Upsert(@, UNION {found[d] : d \in run.detectors}),
                                   !.seen[Target] = Evaluation,
                                   !.todo = Tail(@), !.source = <<>>, !.step = "load"]
    BY <2>1
  <2> DEFINE found == [rules |-> RulesPart(read) \cup ForecastPart(read),
                       residual |-> ResidualPart(high),
                       isolation_forest |-> OutlierEvents(outliers, Target, points)]
             extra == UNION {found[d] : d \in run.detectors}
  <2>3. /\ DOMAIN run' = DOMAIN run /\ run'.detectors = run.detectors
        /\ run'.batch = Upsert(run.batch, extra)
    BY <2>2 DEF EventsInv, RunFields
  <2>4. Raw(found["rules"]) /\ Raw(found["residual"]) /\ Raw(found["isolation_forest"])
    BY FoundIsRaw
  <2> HIDE DEF found
  <2>5. Raw(extra)
    BY <2>4 DEF EventsInv, Raw, AllDetectors
  <2> HIDE DEF extra
  <2>6. UNCHANGED events
    BY <1>7 DEF ScoreTarget
  <2>7. Raw(run'.batch)
    BY <2>3, <2>5 DEF EventsInv, Raw, Upsert
  <2> QED BY <2>3, <2>6, <2>7 DEF EventsInv, EnsemblesExplained, Ensembles
<1>8. ASSUME StoreEvents PROVE EventsInv'
  <2> DEFINE batch == run.batch \cup Combine(run.batch)
  <2>1. /\ events' = Upsert(events, batch)
        /\ DOMAIN run' = RunFields /\ run'.batch = run.batch /\ run'.detectors = run.detectors
    BY <1>8 DEF StoreEvents, EventsInv, RunFields
  <2>2. Ids(events) \subseteq Ids(events') /\ Ids(run.batch) \subseteq Ids(events')
    BY <2>1, UpsertKeepsIds
  <2>3. ASSUME NEW e \in Ensembles' PROVE e.from \subseteq Ids(events')
    <3>1. e \in events' /\ e.detector = "ensemble"
      BY DEF Ensembles
    <3>2. CASE e \in events
      BY <2>2, <3>1, <3>2 DEF EventsInv, EnsemblesExplained, Ensembles
    <3>3. CASE e \in Combine(run.batch)
      BY <2>2, <3>3, EnsemblesListTheirBatch
    <3>4. e \in events \/ e \in run.batch \/ e \in Combine(run.batch)
      BY <2>1, <3>1 DEF Upsert
    <3> QED BY <3>1, <3>2, <3>3, <3>4 DEF EventsInv, Raw
  <2> QED BY <2>1, <2>3 DEF EventsInv, EnsemblesExplained, Ids
<1>9. ASSUME RunRaises \/ Report \/ Cut PROVE EventsInv'
  BY <1>2, <1>9 DEF RunRaises, Report, Cut
<1> QED BY <1>1, <1>4, <1>5, <1>6, <1>7, <1>8, <1>9 DEF Next, Detect, Acquire, RunNext, runVars, vars

(* However often a window is detected again and whatever is left of the run,   *)
(* the events an ensemble lists are stored (AnomalyStorage.upsert).            *)
THEOREM StoredExplained == Spec => []EnsemblesExplained
<1>1. Init => EventsInv
  BY DEF Init, RunInit, EventsInv, Idle, RunFields, Raw, EnsemblesExplained, Ensembles
<1>2. EventsInv => EnsemblesExplained
  BY DEF EventsInv
<1> QED BY <1>1, <1>2, EventsNext, PTL DEF Spec

-----------------------------------------------------------------------------
FetchFields  == {"step", "source", "records", "offset", "attempt", "owed"}
GatherFields == {"step", "type", "last", "todo", "cursor", "frame"}

FilesInv ==
  /\ DOMAIN fetch = FetchFields /\ DOMAIN gather = GatherFields
  /\ FilesHoldTables
  /\ (fetch.step \in {"quarantine", "table"} /\ renewFile # Torn) =>
       DOMAIN Valid(fetch.records) \subseteq DOMAIN renewFile
  /\ (gather.step \in {"spots", "regions"} /\ regionFile # Torn) =>
       GatheredHours \X {gather.type} \subseteq DOMAIN regionFile

LEMMA NoFetchOK == DOMAIN NoFetch = FetchFields /\ NoFetch.step = "idle"
  BY DEF NoFetch, FetchFields

LEMMA NoGatherOK == DOMAIN NoGather = GatherFields /\ NoGather.step = "idle"
  BY DEF NoGather, GatherFields

LEMMA Overridden ==
  ASSUME NEW stored, NEW batch
  PROVE  DOMAIN Override(stored, batch) = DOMAIN stored \cup DOMAIN batch
  BY DEF Override

LEMMA NoRows == DOMAIN RenewableRows = Covered
<1>1. DOMAIN << >> = {}
  OBVIOUS
<1> QED BY <1>1 DEF RenewableRows, Covered

(* What the weather pipeline leaves alone, and the other way round.          *)
EiaFiles == /\ DOMAIN fetch = FetchFields
            /\ renewFile # Torn => Covered \subseteq DOMAIN renewFile
            /\ (fetch.step \in {"quarantine", "table"} /\ renewFile # Torn) =>
                 DOMAIN Valid(fetch.records) \subseteq DOMAIN renewFile

SkyFiles == /\ DOMAIN gather = GatherFields
            /\ regionFile # Torn => DOMAIN weather \subseteq DOMAIN regionFile
            /\ (gather.step \in {"spots", "regions"} /\ regionFile # Torn) =>
                 GatheredHours \X {gather.type} \subseteq DOMAIN regionFile

LEMMA InTwo == FilesInv <=> EiaFiles /\ SkyFiles
  BY DEF FilesInv, EiaFiles, SkyFiles, FilesHoldTables

LEMMA EiaFilesNext ==
  ASSUME EiaFiles, EiaNext
  PROVE  EiaFiles'
<1>1. ASSUME UNCHANGED <<renewables, renewFile>>,
             DOMAIN fetch' = FetchFields, fetch'.step \notin {"quarantine", "table"}
      PROVE  EiaFiles'
  BY <1>1 DEF EiaFiles, Covered
<1>2. ASSUME UNCHANGED <<renewables, renewFile>>, fetch' = NoFetch PROVE EiaFiles'
  BY <1>1, <1>2, NoFetchOK
<1>3. ASSUME Revise PROVE EiaFiles'
  BY <1>3 DEF Revise, tables, eiaVars, EiaFiles, Covered
<1>4. ASSUME BeginFetch PROVE EiaFiles'
  <2>1. DOMAIN fetch' = FetchFields /\ fetch'.step = "page"
    BY <1>4, NoFetchOK DEF BeginFetch, FetchFields
  <2> QED BY <1>1, <1>4, <2>1 DEF BeginFetch, tables
<1>5. ASSUME GetPage PROVE EiaFiles'
  <2>1. DOMAIN fetch' = FetchFields /\ fetch'.step \in {"process", "page"}
    BY <1>5 DEF GetPage, EiaFiles, FetchFields
  <2> QED BY <1>1, <1>5, <2>1 DEF GetPage, tables
<1>6. ASSUME RequestRetried PROVE EiaFiles'
  <2>1. DOMAIN fetch' = FetchFields /\ fetch'.step \notin {"quarantine", "table"}
    BY <1>6, NoFetchOK DEF RequestRetried, EiaFiles, FetchFields
  <2> QED BY <1>1, <1>6, <2>1 DEF RequestRetried, tables
<1>7. ASSUME RequestRefused \/ RecordsConflict \/ IngestDemand PROVE EiaFiles'
  BY <1>2, <1>7 DEF RequestRefused, RecordsConflict, IngestDemand, tables
<1>8. ASSUME ProcessRenewables PROVE EiaFiles'
  <2>1. DOMAIN fetch' = FetchFields /\ fetch'.step \notin {"quarantine", "table"}
    BY <1>8, NoFetchOK DEF ProcessRenewables, EiaFiles, FetchFields
  <2> QED BY <1>1, <1>8, <2>1 DEF ProcessRenewables, tables
<1>9. ASSUME WriteRenewables PROVE EiaFiles'
  <2>1. UNCHANGED renewables
    BY <1>9 DEF WriteRenewables, tables
  <2>2. CASE renewFile = Torn
    BY <1>2, <1>9, <2>1, <2>2 DEF WriteRenewables
  <2>3. CASE renewFile # Torn
    <3>1. /\ renewFile' = Override(renewFile, Valid(fetch.records))
          /\ DOMAIN fetch' = FetchFields /\ fetch'.records = fetch.records
      BY <1>9, <2>3 DEF WriteRenewables, EiaFiles, FetchFields
    <3>2. DOMAIN renewFile' = DOMAIN renewFile \cup DOMAIN Valid(fetch.records)
      BY <3>1, Overridden
    <3>3. Valid(fetch'.records) = Valid(fetch.records)
      BY <3>1
    <3> QED BY <2>1, <2>3, <3>1, <3>2, <3>3 DEF EiaFiles, Covered
  <2> QED BY <2>2, <2>3
<1>10. ASSUME QuarantineRenewables PROVE EiaFiles'
  <2>1. /\ DOMAIN fetch' = FetchFields /\ fetch'.records = fetch.records
        /\ fetch.step = "quarantine" /\ UNCHANGED <<renewables, renewFile>>
    BY <1>10 DEF QuarantineRenewables, EiaFiles, FetchFields, tables
  <2>2. Valid(fetch'.records) = Valid(fetch.records)
    BY <2>1
  <2> QED BY <2>1, <2>2 DEF EiaFiles, Covered
<1>11. ASSUME UpsertRenewables PROVE EiaFiles'
  <2>1. /\ renewables' = Override(RenewableRows, Valid(fetch.records))
        /\ DOMAIN fetch' = FetchFields /\ fetch'.step = "view"
        /\ fetch.step = "table" /\ UNCHANGED renewFile
    BY <1>11 DEF UpsertRenewables, EiaFiles, FetchFields
  <2>2. DOMAIN renewables' = Covered \cup DOMAIN Valid(fetch.records)
    BY <2>1, Overridden, NoRows
  <2>3. Covered' \subseteq Covered \cup DOMAIN Valid(fetch.records)
    BY <2>2 DEF Covered
  <2> QED BY <2>1, <2>3 DEF EiaFiles
<1>12. ASSUME UpsertCut PROVE EiaFiles'
  <2>1. /\ DOMAIN renewables' \subseteq DOMAIN RenewableRows
        /\ fetch' = NoFetch /\ UNCHANGED renewFile
    BY <1>12 DEF UpsertCut
  <2>2. Covered' \subseteq Covered
    BY <2>1, NoRows DEF Covered
  <2> QED BY <2>1, <2>2, NoFetchOK DEF EiaFiles
<1>13. ASSUME CreateView PROVE EiaFiles'
  BY <1>2, <1>13 DEF CreateView
<1>14. ASSUME FetchCut PROVE EiaFiles'
  <2>1. fetch' = NoFetch /\ UNCHANGED renewables /\ renewFile' \in {renewFile, Torn}
    BY <1>14 DEF FetchCut, tables
  <2> QED BY <1>2, <2>1, NoFetchOK DEF EiaFiles, Covered
<1> QED BY <1>3, <1>4, <1>5, <1>6, <1>7, <1>8, <1>9, <1>10, <1>11, <1>12, <1>13, <1>14 DEF EiaNext

LEMMA NextChunkOK ==
  ASSUME DOMAIN gather = GatherFields
  PROVE  /\ DOMAIN NextChunk = GatherFields
         /\ NextChunk.frame = gather.frame /\ NextChunk.type = gather.type
         /\ NextChunk.last = gather.last
         /\ NextChunk.step \in {gather.step, "aggregate"}
  BY DEF NextChunk, GatherFields

LEMMA TakeOK ==
  ASSUME DOMAIN gather = GatherFields, gather.step = "chunk", NEW payload
  PROVE  DOMAIN Take(payload) = GatherFields /\ Take(payload).step \in {"idle", "chunk", "aggregate"}
<1>1. CASE Take(payload) = NoGather
  BY <1>1, NoGatherOK
<1>2. CASE Take(payload) # NoGather
  <2>1. Take(payload) = [NextChunk EXCEPT !.frame =
          Override(NextChunk.frame, [key \in {Place} \X (DOMAIN payload) |-> payload[key[2]]])]
    BY <1>2 DEF Take
  <2> QED BY <2>1, NextChunkOK DEF GatherFields
<1> QED BY <1>1, <1>2

LEMMA SkyFilesNext ==
  ASSUME SkyFiles, SkyNext
  PROVE  SkyFiles'
<1>1. ASSUME UNCHANGED <<weather, regionFile>>,
             DOMAIN gather' = GatherFields, gather'.step \notin {"spots", "regions"}
      PROVE  SkyFiles'
  BY <1>1 DEF SkyFiles
<1>2. ASSUME UNCHANGED <<weather, regionFile>>, gather' = NoGather PROVE SkyFiles'
  BY <1>1, <1>2, NoGatherOK
<1>3. ASSUME ReviseSky PROVE SkyFiles'
  BY <1>3 DEF ReviseSky, tables, skyVars, SkyFiles, GatheredHours
<1>4. ASSUME BeginGather PROVE SkyFiles'
  <2>1. DOMAIN gather' = GatherFields /\ gather'.step = "chunk"
    BY <1>4, NoGatherOK DEF BeginGather, GatherFields
  <2> QED BY <1>1, <1>4, <2>1 DEF BeginGather, tables
<1>5. ASSUME RequestChunk \/ ReadCachedChunk PROVE SkyFiles'
  <2>1. DOMAIN gather' = GatherFields /\ gather'.step \in {"idle", "chunk", "aggregate"}
    BY <1>5, TakeOK DEF RequestChunk, ReadCachedChunk, SkyFiles
  <2> QED BY <1>1, <1>5, <2>1 DEF RequestChunk, ReadCachedChunk, tables
<1>6. ASSUME ChunkFails PROVE SkyFiles'
  BY <1>2, <1>6 DEF ChunkFails, tables
<1>7. ASSUME AggregateWeather PROVE SkyFiles'
  <2>1. DOMAIN gather' = GatherFields /\ gather'.step \notin {"spots", "regions"}
    BY <1>7, NoGatherOK DEF AggregateWeather, SkyFiles, GatherFields
  <2> QED BY <1>1, <1>7, <2>1 DEF AggregateWeather, tables
<1>8. DOMAIN RegionRows = GatheredHours \X {gather.type}
  BY DEF RegionRows
<1>9. ASSUME WriteWeather PROVE SkyFiles'
  <2>1. UNCHANGED weather
    BY <1>9 DEF WriteWeather, tables
  <2>2. CASE regionFile = Torn
    BY <1>2, <1>9, <2>1, <2>2 DEF WriteWeather
  <2>3. CASE regionFile # Torn
    <3>1. /\ regionFile' = Override(regionFile, RegionRows)
          /\ DOMAIN gather' = GatherFields
          /\ gather'.frame = gather.frame /\ gather'.type = gather.type
      BY <1>9, <2>3 DEF WriteWeather, SkyFiles, GatherFields
    <3>2. DOMAIN regionFile' = DOMAIN regionFile \cup DOMAIN RegionRows
      BY <3>1, Overridden
    <3>3. GatheredHours' = GatheredHours
      BY <3>1 DEF GatheredHours
    <3> QED BY <1>8, <2>1, <2>3, <3>1, <3>2, <3>3 DEF SkyFiles
  <2> QED BY <2>2, <2>3
<1>10. ASSUME UpsertLocations PROVE SkyFiles'
  <2>1. /\ DOMAIN gather' = GatherFields /\ gather.step = "spots"
        /\ gather'.frame = gather.frame /\ gather'.type = gather.type
        /\ UNCHANGED <<weather, regionFile>>
    BY <1>10 DEF UpsertLocations, SkyFiles, GatherFields, tables
  <2>2. GatheredHours' = GatheredHours
    BY <2>1 DEF GatheredHours
  <2> QED BY <2>1, <2>2 DEF SkyFiles
<1>11. ASSUME UpsertRegions PROVE SkyFiles'
  <2>1. /\ weather' = Override(weather, RegionRows) /\ gather' = NoGather
        /\ gather.step = "regions" /\ UNCHANGED regionFile
    BY <1>11 DEF UpsertRegions
  <2>2. DOMAIN weather' = DOMAIN weather \cup DOMAIN RegionRows
    BY <2>1, Overridden
  <2> QED BY <1>8, <2>1, <2>2, NoGatherOK DEF SkyFiles
<1>12. ASSUME GatherCut PROVE SkyFiles'
  <2>1. gather' = NoGather /\ UNCHANGED weather /\ regionFile' \in {regionFile, Torn}
    BY <1>12 DEF GatherCut, tables
  <2> QED BY <1>2, <2>1, NoGatherOK DEF SkyFiles
<1> QED BY <1>3, <1>4, <1>5, <1>6, <1>7, <1>9, <1>10, <1>11, <1>12 DEF SkyNext

LEMMA FilesNext ==
  ASSUME FilesInv, [Next]_vars
  PROVE  FilesInv'
<1>1. EiaFiles /\ SkyFiles
  BY InTwo
<1>2. ASSUME UNCHANGED <<eiaVars, renewables>> PROVE EiaFiles'
  BY <1>1, <1>2 DEF eiaVars, EiaFiles, Covered
<1>3. ASSUME UNCHANGED <<skyVars, weather>> PROVE SkyFiles'
  BY <1>1, <1>3 DEF skyVars, SkyFiles, GatheredHours
<1>4. ASSUME EiaNext PROVE EiaFiles' /\ SkyFiles'
  <2>1. UNCHANGED <<skyVars, weather>>
    BY <1>4 DEF EiaNext, Revise, BeginFetch, GetPage, RequestRetried, RequestRefused, RecordsConflict,
       IngestDemand, ProcessRenewables, WriteRenewables, QuarantineRenewables, UpsertRenewables,
       UpsertCut, CreateView, FetchCut, tables
  <2> QED BY <1>1, <1>3, <1>4, <2>1, EiaFilesNext
<1>5. ASSUME SkyNext PROVE EiaFiles' /\ SkyFiles'
  <2>1. UNCHANGED <<eiaVars, renewables>>
    BY <1>5 DEF SkyNext, ReviseSky, BeginGather, RequestChunk, ReadCachedChunk, ChunkFails,
       AggregateWeather, WriteWeather, UpsertLocations, UpsertRegions, GatherCut, tables
  <2> QED BY <1>1, <1>2, <1>5, <2>1, SkyFilesNext
<1>6. ASSUME RunNext \/ UNCHANGED vars PROVE UNCHANGED tables
  BY <1>6 DEF RunNext, BeginRun, LoadTarget, AllScored, ScoreTarget, RunRaises, StoreEvents,
     HandToAlerts, Report, Cut, vars
<1>7. ASSUME Detect \/ UNCHANGED vars PROVE EiaFiles' /\ SkyFiles'
  BY <1>2, <1>3, <1>6, <1>7 DEF Detect, vars, tables
<1>8. EiaFiles' /\ SkyFiles'
  BY <1>4, <1>5, <1>7 DEF Next, Acquire
<1>9. EiaFiles' /\ SkyFiles' => FilesInv'
  BY DEF FilesInv, EiaFiles, SkyFiles, FilesHoldTables
<1> QED BY <1>8, <1>9

(* However a pipeline ends, and whatever runs beside it, the files have every  *)
(* hour the tables have, unless a file is torn (write_renewable_parquet,       *)
(* write_weather_parquet, RenewableStorage.upsert, WeatherStorage).            *)
THEOREM FilesCoverTables == Spec => []FilesHoldTables
<1>1. Init => FilesInv
  <2>1. Init => DOMAIN renewFile = Covered /\ regionFile = weather /\ fetch = NoFetch /\ gather = NoGather
    BY NoRows DEF Init, AcquisitionInit
  <2> QED BY <2>1, NoFetchOK, NoGatherOK DEF FilesInv, FilesHoldTables
<1>2. FilesInv => FilesHoldTables
  BY DEF FilesInv
<1> QED BY <1>1, <1>2, FilesNext, PTL DEF Spec

-----------------------------------------------------------------------------
(* A cached response of the past is what the provider still answers, or of   *)
(* another shape.                                                            *)
CacheOK == \A key \in DOMAIN cache : key[4] = "historical" => cache[key] \in {Answer(key), Malformed}

(* The hours before the cursor of a location under way, and all of those of  *)
(* a location that is done, have been gathered.                              *)
Reached(place, h) == place \notin gather.todo \/ (place = Place /\ h < gather.cursor)

Gathered ==
  (gather.step # "idle" /\ gather.type = "historical") =>
    \A place \in Locations, h \in FirstDay .. gather.last :
      (<<place, h, "historical">> \in DOMAIN sky /\ Reached(place, h)) =>
        <<place, h>> \in DOMAIN gather.frame

SkyInv ==
  /\ DOMAIN gather = GatherFields
  /\ gather.step # "idle" => gather.last \in FirstDay .. LastDay /\ gather.todo \subseteq Locations
  /\ gather.step = "chunk" => gather.todo # {} /\ gather.cursor \in FirstDay .. gather.last
  /\ gather.step \notin {"idle", "chunk"} => gather.todo = {}
  /\ CacheOK
  /\ Gathered

LEMMA SkyIdle ==
  ASSUME gather' = NoGather, CacheOK'
  PROVE  SkyInv'
  BY NoGatherOK DEF SkyInv, Gathered

(* The past is not revised.                                                  *)
LEMMA PastStays ==
  ASSUME ReviseSky
  PROVE  /\ \A place, h : <<place, h, "historical">> \in DOMAIN sky' <=>
                          <<place, h, "historical">> \in DOMAIN sky
         /\ \A key : key[4] = "historical" => Answer(key)' = Answer(key)
<1>1. PICK place \in Locations, h \in FirstDay .. LastDay, value \in Radiations :
        sky' = Override(sky, [k \in {<<place, h, "forecast">>} |-> value])
  BY DEF ReviseSky
<1>2. \A p, g : <<p, g, "historical">> # <<place, h, "forecast">>
  OBVIOUS
<1>3. \A p, g : /\ <<p, g, "historical">> \in DOMAIN sky' <=> <<p, g, "historical">> \in DOMAIN sky
                /\ <<p, g, "historical">> \in DOMAIN sky =>
                     sky'[<<p, g, "historical">>] = sky[<<p, g, "historical">>]
  BY <1>1, <1>2 DEF Override
<1>4. ASSUME NEW key, key[4] = "historical" PROVE Answer(key)' = Answer(key)
  BY <1>3, <1>4 DEF Answer
<1> QED BY <1>3, <1>4

LEMMA ChunkEnds ==
  ASSUME SkyInv, gather.step = "chunk"
  PROVE  /\ gather.cursor \in Int /\ gather.last \in Int /\ ChunkEnd \in Int
         /\ FirstDay <= gather.cursor /\ gather.cursor <= ChunkEnd /\ ChunkEnd <= gather.last
  BY ClientAssumption DEF SkyInv, ChunkEnd, Least

LEMMA TakenOK ==
  ASSUME SkyInv, gather.step = "chunk", NEW payload, UNCHANGED sky, gather' = Take(payload), CacheOK',
         gather.type = "historical" => payload \in {Answer(CacheKey), Malformed}
  PROVE  SkyInv'
<1>1. CASE gather' = NoGather
  BY <1>1, SkyIdle
<1>2. CASE gather' # NoGather
  <2> DEFINE found == [key \in {Place} \X (DOMAIN payload) |-> payload[key[2]]]
  <2>1. /\ payload # Malformed
        /\ gather' = [NextChunk EXCEPT !.frame = Override(NextChunk.frame, found)]
    BY <1>2 DEF Take
  <2>2. /\ DOMAIN gather' = GatherFields
        /\ gather'.type = gather.type /\ gather'.last = gather.last
        /\ gather'.frame = Override(gather.frame, found)
        /\ gather'.step = NextChunk.step /\ gather'.todo = NextChunk.todo
        /\ gather'.cursor = NextChunk.cursor
    BY <2>1, NextChunkOK DEF SkyInv, GatherFields
  <2> HIDE DEF found
  <2>3. DOMAIN gather'.frame = DOMAIN gather.frame \cup ({Place} \X DOMAIN payload)
    <3>1. DOMAIN found = {Place} \X DOMAIN payload
      BY DEF found
    <3>2. DOMAIN Override(gather.frame, found) = DOMAIN gather.frame \cup DOMAIN found
      BY Overridden
    <3> QED BY <2>2, <3>1, <3>2
  <2>4. Place \in gather.todo /\ gather.todo \subseteq Locations
    BY DEF SkyInv, Place
  <2>5. ASSUME gather.type = "historical", NEW h \in gather.cursor .. ChunkEnd,
               <<Place, h, "historical">> \in DOMAIN sky
        PROVE  <<Place, h>> \in DOMAIN gather'.frame
    <3>1. DOMAIN payload = {g \in gather.cursor .. ChunkEnd : <<Place, g, "historical">> \in DOMAIN sky}
      BY <2>1, <2>5 DEF Answer, CacheKey
    <3> QED BY <2>3, <2>5, <3>1
  <2>6. CASE ChunkEnd < gather.last
    <3>1. gather'.step = "chunk" /\ gather'.todo = gather.todo /\ gather'.cursor = ChunkEnd + 1
      BY <2>2, <2>6 DEF NextChunk, SkyInv, GatherFields
    <3>2. Place' = Place
      BY <3>1 DEF Place
    <3>3. ASSUME gather.type = "historical", NEW place \in Locations, NEW h \in FirstDay .. gather.last,
                 <<place, h, "historical">> \in DOMAIN sky, Reached(place, h)'
          PROVE  <<place, h>> \in DOMAIN gather'.frame
      <4>1. Reached(place, h) \/ (place = Place /\ h \in gather.cursor .. ChunkEnd)
        BY <3>1, <3>2, <3>3, ChunkEnds, ClientAssumption DEF Reached
      <4>2. CASE Reached(place, h)
        BY <2>3, <3>3, <4>2 DEF SkyInv, Gathered
      <4>3. CASE place = Place /\ h \in gather.cursor .. ChunkEnd
        BY <2>5, <3>3, <4>3
      <4> QED BY <4>1, <4>2, <4>3
    <3>4. Gathered'
      BY <2>2, <3>3 DEF Gathered
    <3>5. gather'.cursor \in FirstDay .. gather'.last
      BY <2>2, <2>6, <3>1, ChunkEnds, ClientAssumption
    <3> QED BY <2>2, <3>1, <3>4, <3>5 DEF SkyInv
  <2>7. CASE ~(ChunkEnd < gather.last)
    <3>1. /\ gather'.todo = gather.todo \ {Place} /\ gather'.cursor = FirstDay
          /\ gather'.step = IF gather.todo = {Place} THEN "aggregate" ELSE "chunk"
      BY <2>2, <2>7 DEF NextChunk, SkyInv, GatherFields
    <3>2. ChunkEnd = gather.last
      BY <2>7, ChunkEnds
    <3>3. ASSUME gather.type = "historical", NEW place \in Locations, NEW h \in FirstDay .. gather.last,
                 <<place, h, "historical">> \in DOMAIN sky, Reached(place, h)'
          PROVE  <<place, h>> \in DOMAIN gather'.frame
      <4>1. place \notin gather'.todo
        BY <3>1, <3>3, ClientAssumption, ChunkEnds DEF Reached
      <4>2. place \notin gather.todo \/ place = Place
        BY <3>1, <4>1
      <4>3. Reached(place, h) \/ (place = Place /\ h \in gather.cursor .. ChunkEnd)
        BY <3>2, <4>2, ChunkEnds, ClientAssumption DEF Reached
      <4>4. CASE Reached(place, h)
        BY <2>3, <3>3, <4>4 DEF SkyInv, Gathered
      <4>5. CASE place = Place /\ h \in gather.cursor .. ChunkEnd
        BY <2>5, <3>3, <4>5
      <4> QED BY <4>3, <4>4, <4>5
    <3>4. Gathered'
      BY <2>2, <3>3 DEF Gathered
    <3>5. gather'.step = "chunk" => gather'.todo # {} /\ gather'.cursor \in FirstDay .. gather'.last
      BY <2>2, <2>4, <3>1, ChunkEnds, ClientAssumption
    <3>6. gather'.last \in FirstDay .. LastDay /\ gather'.todo \subseteq Locations
      BY <2>2, <2>4, <3>1 DEF SkyInv
    <3>7. gather'.step \notin {"idle", "chunk"} => gather'.todo = {}
      BY <3>1
    <3> QED BY <2>2, <3>4, <3>5, <3>6, <3>7 DEF SkyInv
  <2> QED BY <2>6, <2>7
<1> QED BY <1>1, <1>2

LEMMA SkyInvNext ==
  ASSUME SkyInv, [Next]_vars
  PROVE  SkyInv'
<1>1. ASSUME UNCHANGED <<cache, sky>> PROVE CacheOK'
  BY <1>1 DEF SkyInv, CacheOK, Answer
<1>2. ASSUME UNCHANGED <<cache, sky, gather>> PROVE SkyInv'
  BY <1>1, <1>2 DEF SkyInv, Gathered, Reached, Place
<1>3. ASSUME UNCHANGED <<cache, sky>>, gather' = NoGather PROVE SkyInv'
  BY <1>1, <1>3, SkyIdle
<1>4. ASSUME UNCHANGED <<cache, sky>>, gather.step \notin {"idle", "chunk"}, NEW step,
             step \notin {"idle", "chunk"}, gather' = [gather EXCEPT !.step = step]
      PROVE  SkyInv'
  <2>1. /\ DOMAIN gather' = GatherFields /\ gather'.step = step
        /\ gather'.type = gather.type /\ gather'.last = gather.last /\ gather'.todo = gather.todo
        /\ gather'.cursor = gather.cursor /\ gather'.frame = gather.frame
    BY <1>4 DEF SkyInv, GatherFields
  <2>2. Gathered'
    BY <1>4, <2>1 DEF SkyInv, Gathered, Reached, Place
  <2> QED BY <1>1, <1>4, <2>1, <2>2 DEF SkyInv
<1>5. ASSUME ReviseSky PROVE SkyInv'
  <2>1. UNCHANGED <<cache, gather>>
    BY <1>5 DEF ReviseSky, skyVars
  <2>2. CacheOK'
    BY <1>5, <2>1, PastStays DEF SkyInv, CacheOK
  <2>3. Gathered'
    BY <1>5, <2>1, PastStays DEF SkyInv, Gathered, Reached, Place
  <2> QED BY <2>1, <2>2, <2>3 DEF SkyInv
<1>6. ASSUME BeginGather PROVE SkyInv'
  <2>1. PICK type \in DataTypes, last \in FirstDay .. LastDay :
          gather' = [NoGather EXCEPT !.step = "chunk", !.type = type, !.last = last, !.todo = Locations]
    BY <1>6 DEF BeginGather
  <2>2. /\ DOMAIN gather' = GatherFields /\ gather'.step = "chunk" /\ gather'.last = last
        /\ gather'.todo = Locations /\ gather'.cursor = FirstDay
    BY <2>1 DEF NoGather, GatherFields
  <2>3. UNCHANGED <<cache, sky>>
    BY <1>6 DEF BeginGather, upstream
  <2>4. Gathered'
    BY <2>2, ClientAssumption DEF Gathered, Reached
  <2> QED BY <1>1, <2>2, <2>3, <2>4, ClientAssumption DEF SkyInv
<1>7. ASSUME RequestChunk PROVE SkyInv'
  <2>1. PICK payload \in {Answer(CacheKey), Malformed} :
          /\ cache' = Override(cache, [k \in {CacheKey} |-> payload])
          /\ gather' = Take(payload)
    BY <1>7 DEF RequestChunk
  <2>2. UNCHANGED sky /\ gather.step = "chunk"
    BY <1>7 DEF RequestChunk, upstream
  <2>3. CacheOK'
    <3>1. \A key : Answer(key)' = Answer(key)
      BY <2>2 DEF Answer
    <3>2. \A key \in DOMAIN cache' : \/ key = CacheKey /\ cache'[key] = payload
                                     \/ key \in DOMAIN cache /\ cache'[key] = cache[key]
      <4> DEFINE new == [k \in {CacheKey} |-> payload]
      <4>1. DOMAIN new = {CacheKey} /\ new[CacheKey] = payload
        OBVIOUS
      <4>2. cache' = Override(cache, new)
        BY <2>1
      <4> HIDE DEF new
      <4>3. DOMAIN cache' = DOMAIN cache \cup {CacheKey}
        BY <4>1, <4>2, Overridden
      <4>4. \A key \in DOMAIN cache' :
              cache'[key] = IF key \in DOMAIN new THEN new[key] ELSE cache[key]
        BY <4>2 DEF Override
      <4> QED BY <4>1, <4>3, <4>4
    <3> QED BY <2>1, <3>1, <3>2 DEF SkyInv, CacheOK
  <2> QED BY <2>1, <2>2, <2>3, TakenOK
<1>8. ASSUME ReadCachedChunk PROVE SkyInv'
  <2>1. /\ gather' = Take(cache[CacheKey]) /\ CacheKey \in DOMAIN cache
        /\ UNCHANGED <<cache, sky>> /\ gather.step = "chunk"
    BY <1>8 DEF ReadCachedChunk, upstream
  <2>2. gather.type = "historical" => cache[CacheKey] \in {Answer(CacheKey), Malformed}
    BY <2>1 DEF SkyInv, CacheOK, CacheKey
  <2> QED BY <1>1, <2>1, <2>2, TakenOK
<1>9. ASSUME ChunkFails \/ UpsertRegions \/ GatherCut PROVE SkyInv'
  BY <1>3, <1>9 DEF ChunkFails, UpsertRegions, GatherCut, upstream
<1>10. ASSUME AggregateWeather PROVE SkyInv'
  <2>1. UNCHANGED <<cache, sky>> /\ gather.step = "aggregate"
    BY <1>10 DEF AggregateWeather, upstream
  <2>2. gather' = NoGather \/ gather' = [gather EXCEPT !.step = "file"]
    BY <1>10 DEF AggregateWeather
  <2> QED BY <1>3, <1>4, <2>1, <2>2
<1>11. ASSUME WriteWeather PROVE SkyInv'
  BY <1>3, <1>4, <1>11 DEF WriteWeather, upstream
<1>12. ASSUME UpsertLocations PROVE SkyInv'
  <2>1. /\ UNCHANGED <<cache, sky>> /\ gather.step = "spots"
        /\ gather' = [gather EXCEPT !.step = "regions"]
    BY <1>12 DEF UpsertLocations, upstream
  <2> QED BY <1>4, <2>1
<1>13. ASSUME Detect \/ EiaNext \/ UNCHANGED vars PROVE UNCHANGED <<cache, sky, gather>>
  BY <1>13 DEF Detect, EiaNext, Revise, BeginFetch, GetPage, RequestRetried, RequestRefused,
     RecordsConflict, IngestDemand, ProcessRenewables, WriteRenewables, QuarantineRenewables,
     UpsertRenewables, UpsertCut, CreateView, FetchCut, skyVars, upstream, vars
<1> QED BY <1>2, <1>5, <1>6, <1>7, <1>8, <1>9, <1>10, <1>11, <1>12, <1>13
    DEF Next, Acquire, SkyNext

LEMMA SkyInit == Init => SkyInv
<1>1. Init => gather = NoGather /\ cache = << >>
  BY DEF Init, AcquisitionInit
<1>2. cache = << >> => CacheOK
  BY DEF CacheOK
<1> QED BY <1>1, <1>2, NoGatherOK DEF SkyInv, Gathered

(* Whatever the chunks, and however old each cached response, historical       *)
(* weather is stored only when every hour the provider has was gathered        *)
(* (WeatherClient.fetch).                                                      *)
THEOREM GatherComplete == Spec => []GatherCoversRequest
<1>1. SkyInv => GatherCoversRequest
  <2> SUFFICES ASSUME SkyInv, gather.step \in {"file", "spots", "regions"}, gather.type = "historical",
                      NEW h \in FirstDay .. gather.last,
                      \A place \in Locations : <<place, h, "historical">> \in DOMAIN sky
               PROVE  h \in GatheredHours
    BY DEF GatherCoversRequest
  <2>1. PICK place \in Locations : TRUE
    BY ClientAssumption
  <2>2. <<place, h>> \in DOMAIN gather.frame
    BY <2>1 DEF SkyInv, Gathered, Reached
  <2> QED BY <2>2 DEF GatheredHours
<1> QED BY <1>1, SkyInit, SkyInvNext, PTL DEF Spec

-----------------------------------------------------------------------------
Numbers == Int \cup {NaN}
Kinds   == {Demand, Sun, Wind}
Record  == [key : Int \X Kinds, value : Numbers]

Ahead(S, key) == {other \in S : \/ other[1] < key[1]
                                \/ other[1] = key[1] /\ other[2] < key[2]}

Asked(source) == {key \in DOMAIN feed : key[2] \in KindsOf(source)}

FeedOK == /\ IsFiniteSet(DOMAIN feed) /\ DOMAIN feed \subseteq Int \X Kinds
          /\ \A key \in DOMAIN feed : feed[key] \in Numbers

LEMMA KindsAre == Kinds \subseteq Int /\ \A source : KindsOf(source) \subseteq Kinds
BY DEF Kinds, KindsOf, Demand, Sun, Wind

(* A page of a route is a stretch of all its rows in order.                  *)
LEMMA UpstreamOrders ==
  ASSUME FeedOK, NEW source
  PROVE  /\ Upstream(source) \in Seq(Record)
         /\ Len(Upstream(source)) = Cardinality(Asked(source))
         /\ \A n \in DOMAIN Upstream(source) : Upstream(source)[n].key \in Asked(source)
         /\ \A key \in Asked(source) :
              /\ Cardinality(Ahead(Asked(source), key)) \in 0 .. Cardinality(Asked(source)) - 1
              /\ Upstream(source)[Cardinality(Ahead(Asked(source), key)) + 1].key = key
<1> DEFINE S == Asked(source)
           R == {pair \in (Int \X Kinds) \X (Int \X Kinds) :
                   \/ pair[1][1] < pair[2][1]
                   \/ pair[1][1] = pair[2][1] /\ pair[1][2] < pair[2][2]}
           k == Cardinality(S)
           rows == Upstream(source)
           Before(x) == Cardinality(Ahead(S, x))
<1>1. S \subseteq Int \X Kinds /\ IsFiniteSet(S) /\ S \subseteq DOMAIN feed
  BY FS_Subset DEF FeedOK, Asked
<1>2. k \in Nat
  BY <1>1, FS_CardinalityType
<1>3. \A x \in S : x[1] \in Int /\ x[2] \in Int /\ x = <<x[1], x[2]>>
  BY <1>1, KindsAre
<1>4. \A x, y \in S : <<x, y>> \in R <=> x[1] < y[1] \/ (x[1] = y[1] /\ x[2] < y[2])
  BY <1>1
<1> HIDE DEF R, S
<1>5. \A x \in S : Ahead(S, x) = {y \in S : <<y, x>> \in R}
  BY <1>4 DEF Ahead
<1>6. /\ \A x \in S : <<x, x>> \notin R
      /\ \A x, y, z \in S : <<x, y>> \in R /\ <<y, z>> \in R => <<x, z>> \in R
      /\ \A x, y \in S : x # y => <<x, y>> \in R \/ <<y, x>> \in R
  <2>1. \A x \in S : <<x, x>> \notin R
    BY <1>3, <1>4
  <2>2. \A x, y, z \in S : <<x, y>> \in R /\ <<y, z>> \in R => <<x, z>> \in R
    BY <1>3, <1>4
  <2>3. ASSUME NEW x \in S, NEW y \in S, x # y PROVE <<x, y>> \in R \/ <<y, x>> \in R
    <3>1. x[1] # y[1] \/ x[2] # y[2]
      BY <1>3, <2>3
    <3>2. x[1] \in Int /\ y[1] \in Int /\ x[2] \in Int /\ y[2] \in Int
      BY <1>3
    <3> QED BY <1>4, <3>1, <3>2
  <2> QED BY <2>1, <2>2, <2>3
<1>7. /\ \A x \in S : Before(x) \in 0 .. k - 1
      /\ \A x, z \in S : <<x, z>> \in R => Before(x) < Before(z)
      /\ \A n \in 1 .. k : \E x \in S : Before(x) = n - 1
  <2>1. /\ \A x \in S : Cardinality({y \in S : <<y, x>> \in R}) \in 0 .. Cardinality(S) - 1
        /\ \A x, z \in S : <<x, z>> \in R =>
             Cardinality({y \in S : <<y, x>> \in R}) < Cardinality({y \in S : <<y, z>> \in R})
        /\ \A n \in 1 .. Cardinality(S) : \E x \in S : Cardinality({y \in S : <<y, x>> \in R}) = n - 1
    BY <1>1, <1>6, Ranks
  <2> QED BY <1>5, <2>1
<1> DEFINE keys == [n \in 1 .. k |-> CHOOSE x \in S : Before(x) = n - 1]
<1>8. rows = [n \in DOMAIN keys |-> [key |-> keys[n], value |-> feed[keys[n]]]]
  BY DEF Upstream, InOrder, Ahead, S, Asked
<1> HIDE DEF Before, k
<1>9. \A n \in 1 .. k : keys[n] \in S /\ Before(keys[n]) = n - 1
  BY <1>7
<1>10. \A x, y \in S : Before(x) = Before(y) => x = y
  <2> SUFFICES ASSUME NEW x \in S, NEW y \in S, Before(x) = Before(y), x # y PROVE FALSE
    OBVIOUS
  <2>1. <<x, y>> \in R \/ <<y, x>> \in R
    BY <1>6
  <2> QED BY <1>7, <2>1
<1>11. DOMAIN keys = 1 .. k
  OBVIOUS
<1> HIDE DEF keys
<1>12. \A n \in 1 .. k : rows[n] = [key |-> keys[n], value |-> feed[keys[n]]]
  BY <1>8, <1>11
<1>13. DOMAIN rows = 1 .. k
  BY <1>8, <1>11
<1>14. \A n \in 1 .. k : rows[n] \in Record /\ rows[n].key \in S
  <2> SUFFICES ASSUME NEW n \in 1 .. k PROVE rows[n] \in Record /\ rows[n].key \in S
    OBVIOUS
  <2>1. keys[n] \in S /\ keys[n] \in Int \X Kinds /\ keys[n] \in DOMAIN feed
    BY <1>1, <1>9
  <2>2. feed[keys[n]] \in Numbers
    BY <2>1 DEF FeedOK
  <2>3. rows[n] = [key |-> keys[n], value |-> feed[keys[n]]]
    BY <1>12
  <2> HIDE DEF rows
  <2> QED BY <2>1, <2>2, <2>3 DEF Record
<1>15. rows \in Seq(Record) /\ Len(rows) = k
  <2>1. rows \in [1 .. k -> Record]
    BY <1>8, <1>11, <1>14
  <2> HIDE DEF rows
  <2> QED BY <1>2, <2>1
<1>16. ASSUME NEW x \in S PROVE rows[Before(x) + 1].key = x
  <2>1. PICK m \in 1 .. k : m = Before(x) + 1 /\ m - 1 = Before(x)
    BY <1>2, <1>7
  <2>2. keys[m] \in S /\ Before(keys[m]) = m - 1
    BY <1>9, <2>1
  <2>3. keys[m] = x
    <3>1. Before(keys[m]) = Before(x)
      BY <2>1, <2>2, Zenon
    <3>2. keys[m] \in S
      BY <2>2, Zenon
    <3> QED BY <1>10, <3>1, <3>2, Zenon
  <2>4. rows[m].key = x
    <3>1. rows[m] = [key |-> keys[m], value |-> feed[keys[m]]]
      BY <1>12
    <3>2. [key |-> keys[m], value |-> feed[keys[m]]].key = keys[m]
      OBVIOUS
    <3> QED BY <2>3, <3>1, <3>2, Zenon
  <2> QED BY <2>1, <2>4
<1> QED BY <1>7, <1>13, <1>14, <1>15, <1>16 DEF S, k, Before

(* The pages under way: of what was owed when the fetch began, every row     *)
(* that has fewer than offset rows ahead of it by now is among the records.  *)
FetchInv ==
  /\ FeedOK
  /\ DOMAIN fetch = FetchFields
  /\ fetch.step \in FetchSteps /\ fetch.attempt \in 0 .. MaxRetries
  /\ fetch.records \in Seq(Record) /\ Keys(fetch.records) \subseteq DOMAIN feed
  /\ fetch.step = "page" =>
       /\ fetch.offset \in Nat /\ fetch.owed \subseteq Asked(fetch.source)
       /\ \A key \in fetch.owed :
            Cardinality(Ahead(Asked(fetch.source), key)) < fetch.offset => key \in Keys(fetch.records)
  /\ FetchCoversUpstream

LEMMA NoFetchTyped ==
  ASSUME fetch' = NoFetch, FeedOK'
  PROVE  FetchInv'
<1>1. DOMAIN fetch' = FetchFields
  BY NoFetchOK
<1>2. fetch'.step = "idle" /\ fetch'.attempt = 0 /\ fetch'.records = << >>
  BY DEF NoFetch
<1>3. << >> \in Seq(Record) /\ Keys(<< >>) = {}
  BY DEF Keys
<1> QED BY <1>1, <1>2, <1>3, ClientAssumption DEF FetchInv, FetchSteps, FetchCoversUpstream

LEMMA KeysOfUpstream ==
  ASSUME FeedOK, NEW source
  PROVE  Keys(Upstream(source)) = Asked(source)
<1> DEFINE rows == Upstream(source)
           S == Asked(source)
           At(key) == Cardinality(Ahead(S, key)) + 1
<1>1. /\ rows \in Seq(Record) /\ Len(rows) = Cardinality(S)
      /\ \A n \in DOMAIN rows : rows[n].key \in S
      /\ \A key \in S : /\ Cardinality(Ahead(S, key)) \in 0 .. Cardinality(S) - 1
                        /\ rows[At(key)].key = key
  BY UpstreamOrders
<1> HIDE DEF rows, S
<1>2. DOMAIN rows = 1 .. Cardinality(S) /\ Cardinality(S) \in Nat
  BY <1>1
<1>3. \A key \in S : At(key) \in DOMAIN rows
  BY <1>1, <1>2
<1> HIDE DEF At
<1> QED BY <1>1, <1>3 DEF Keys, rows, S

LEMMA Joined ==
  ASSUME NEW s \in Seq(Record), NEW t \in Seq(Record)
  PROVE  /\ s \o t \in Seq(Record)
         /\ Keys(s \o t) = Keys(s) \cup Keys(t)
<1> DEFINE u == s \o t
<1>1. /\ u \in Seq(Record) /\ Len(u) = Len(s) + Len(t)
      /\ \A i \in 1 .. Len(s) + Len(t) : u[i] = IF i <= Len(s) THEN s[i] ELSE t[i - Len(s)]
  BY ConcatProperties
<1>2. Len(s) \in Nat /\ Len(t) \in Nat /\ DOMAIN s = 1 .. Len(s) /\ DOMAIN t = 1 .. Len(t)
  OBVIOUS
<1> HIDE DEF u
<1>3. DOMAIN u = 1 .. Len(s) + Len(t)
  BY <1>1
<1>4. \A i \in DOMAIN s : i \in DOMAIN u /\ u[i] = s[i]
  BY <1>1, <1>2, <1>3
<1>5. \A i \in DOMAIN t : i + Len(s) \in DOMAIN u /\ u[i + Len(s)] = t[i]
  <2> SUFFICES ASSUME NEW i \in DOMAIN t PROVE i + Len(s) \in DOMAIN u /\ u[i + Len(s)] = t[i]
    OBVIOUS
  <2>1. i \in Nat /\ i >= 1 /\ i <= Len(t)
    BY <1>2
  <2>2. PICK j \in 1 .. Len(s) + Len(t) : j = i + Len(s) /\ j - Len(s) = i /\ ~(j <= Len(s))
    BY <1>2, <2>1
  <2>3. u[j] = t[i]
    BY <1>1, <2>2
  <2> QED BY <1>3, <2>2, <2>3
<1>6. \A i \in DOMAIN u : \/ i \in DOMAIN s /\ u[i] = s[i]
                          \/ i - Len(s) \in DOMAIN t /\ u[i] = t[i - Len(s)]
  BY <1>1, <1>2, <1>3
<1>7. Keys(s) \subseteq Keys(u) /\ Keys(t) \subseteq Keys(u)
  BY <1>4, <1>5 DEF Keys
<1>8. Keys(u) \subseteq Keys(s) \cup Keys(t)
  <2> SUFFICES ASSUME NEW i \in DOMAIN u PROVE u[i].key \in Keys(s) \cup Keys(t)
    BY DEF Keys
  <2> QED BY <1>6 DEF Keys
<1> QED BY <1>1, <1>7, <1>8 DEF u

IsStretch(page, rows, offset) ==
  /\ page \in Seq(Record)
  /\ \A i \in DOMAIN page : offset + i \in DOMAIN rows /\ page[i] = rows[offset + i]
  /\ page = << >> => Len(rows) <= offset

LEMMA Stretch ==
  ASSUME NEW rows \in Seq(Record), NEW offset \in Nat, NEW n \in Nat \ {0},
         NEW page, page = SubSeq(rows, offset + 1, Least(offset + n, Len(rows)))
  PROVE  IsStretch(page, rows, offset)
<1> DEFINE len == Len(rows)
           last == Least(offset + n, len)
<1>1. len \in Nat /\ DOMAIN rows = 1 .. len /\ \A i \in 1 .. len : rows[i] \in Record
  OBVIOUS
<1>2. page = SubSeq(rows, offset + 1, last)
  OBVIOUS
<1> HIDE DEF len
<1>3. last \in Int /\ last <= len /\ (last = len \/ last = offset + n)
  BY <1>1 DEF Least
<1> HIDE DEF last
<1>4. /\ page \in Seq(Record)
      /\ Len(page) = IF offset + 1 <= last THEN last - (offset + 1) + 1 ELSE 0
      /\ \A i \in 1 .. last - (offset + 1) + 1 : page[i] = rows[(offset + 1) + i - 1]
  <2>1. \A i \in offset + 1 .. last : rows[i] \in Record
    BY <1>1, <1>3
  <2>2. offset + 1 \in Int /\ last \in Int
    BY <1>3
  <2>3. /\ SubSeq(rows, offset + 1, last) \in Seq(Record)
        /\ Len(SubSeq(rows, offset + 1, last)) = IF offset + 1 <= last THEN last - (offset + 1) + 1 ELSE 0
        /\ \A i \in 1 .. last - (offset + 1) + 1 :
             SubSeq(rows, offset + 1, last)[i] = rows[(offset + 1) + i - 1]
    BY <2>1, <2>2, SubSeqProperties
  <2> QED BY <1>2, <2>3
<1>5. ASSUME NEW i \in DOMAIN page PROVE offset + i \in DOMAIN rows /\ page[i] = rows[offset + i]
  <2>1. i \in 1 .. Len(page)
    BY <1>4
  <2>2. i \in 1 .. last - (offset + 1) + 1 /\ (offset + 1) + i - 1 = offset + i
    BY <1>3, <1>4, <2>1
  <2>3. page[i] = rows[(offset + 1) + i - 1]
    BY <1>4, <2>2
  <2>4. page[i] = rows[offset + i]
    BY <2>2, <2>3
  <2>5. offset + i \in 1 .. len
    BY <1>1, <1>3, <2>2
  <2> QED BY <1>1, <2>4, <2>5
<1>6. ASSUME page = << >> PROVE len <= offset
  <2>1. Len(page) = 0
    <3>1. Len(<< >>) = 0
      OBVIOUS
    <3> QED BY <1>6, <3>1, Zenon
  <2>2. ~(offset + 1 <= last)
    BY <1>3, <1>4, <2>1
  <2> QED BY <1>1, <1>3, <2>2
<1> QED BY <1>4, <1>5, <1>6 DEF len, IsStretch

(* What a page brings, and when there is no other.                           *)
LEMMA PageBrings ==
  ASSUME FeedOK, NEW source, NEW offset \in Nat,
         NEW answer \in Served(Upstream(source), offset),
         HonestWhenShort(answer, Upstream(source), offset)
  PROVE  /\ answer.page \in Seq(Record) /\ Keys(answer.page) \subseteq Asked(source)
         /\ Len(answer.page) \in Nat
         /\ \A key \in Asked(source) :
              (/\ offset <= Cardinality(Ahead(Asked(source), key))
               /\ Cardinality(Ahead(Asked(source), key)) < offset + Len(answer.page)) => key \in Keys(answer.page)
         /\ Finished(answer.page, offset + Len(answer.page), answer.total) =>
              \A key \in Asked(source) : Cardinality(Ahead(Asked(source), key)) < offset + Len(answer.page)
<1> DEFINE rows == Upstream(source)
           S == Asked(source)
           Before(key) == Cardinality(Ahead(S, key))
<1>1. /\ rows \in Seq(Record) /\ Len(rows) = Cardinality(S)
      /\ \A n \in DOMAIN rows : rows[n].key \in S
      /\ \A key \in S : Before(key) \in 0 .. Cardinality(S) - 1 /\ rows[Before(key) + 1].key = key
  BY UpstreamOrders
<1> DEFINE page == answer.page
<1>2. \E n \in Nat \ {0} : page = SubSeq(rows, offset + 1, Least(offset + n, Len(rows)))
  <2>1. \A n \in 1 .. PageSize : n \in Nat \ {0}
    BY ClientAssumption
  <2>2. PICK n \in 1 .. PageSize, total \in {0, Len(rows)} :
          answer = [page |-> SubSeq(rows, offset + 1, Least(offset + n, Len(rows))), total |-> total]
    BY DEF Served
  <2>3. page = SubSeq(rows, offset + 1, Least(offset + n, Len(rows)))
    BY <2>2
  <2> HIDE DEF page, rows
  <2> QED BY <2>1, <2>3
<1>3. Len(page) = PageSize \/ offset + Len(page) >= Len(rows) \/ answer.total = Len(rows)
  BY DEF HonestWhenShort
<1> HIDE DEF rows, S, Before, page
<1>4. PageSize \in Nat
  BY ClientAssumption
<1>5. /\ page \in Seq(Record)
      /\ \A i \in DOMAIN page : offset + i \in DOMAIN rows /\ page[i] = rows[offset + i]
      /\ page = << >> => Len(rows) <= offset
  <2>1. IsStretch(page, rows, offset)
    BY <1>1, <1>2, Stretch
  <2> QED BY <2>1 DEF IsStretch
<1>6. Len(page) \in Nat /\ Len(rows) \in Nat
  BY <1>1, <1>5
<1>7. DOMAIN page = 1 .. Len(page)
  BY <1>5
<1>10. Keys(page) \subseteq S
  BY <1>1, <1>5 DEF Keys
<1>11. ASSUME NEW key \in S, offset <= Before(key), Before(key) < offset + Len(page)
       PROVE  key \in Keys(page)
  <2>1. Before(key) \in Nat
    BY <1>1
  <2>2. PICK i \in DOMAIN page : i = Before(key) + 1 - offset /\ offset + i = Before(key) + 1
    BY <1>6, <1>7, <1>11, <2>1
  <2>3. page[i] = rows[Before(key) + 1]
    BY <1>5, <2>2
  <2> QED BY <1>1, <2>3 DEF Keys
<1>12. ASSUME page = << >> \/ (Len(page) < PageSize /\ offset + Len(page) >= answer.total)
       PROVE  offset + Len(page) >= Len(rows)
  <2>1. CASE page = << >>
    BY <1>5, <1>6, <2>1
  <2>2. CASE Len(page) < PageSize /\ offset + Len(page) >= answer.total
    <3>0. Len(page) < PageSize
      BY <2>2, Zenon
    <3>1. ~(Len(page) = PageSize)
      BY <1>4, <1>6, <3>0
    <3>2. CASE answer.total = Len(rows)
      BY <2>2, <3>2
    <3> QED BY <1>3, <3>1, <3>2
  <2> QED BY <1>12, <2>1, <2>2
<1>13. ASSUME offset + Len(page) >= Len(rows), NEW key \in S PROVE Before(key) < offset + Len(page)
  <2>1. Before(key) \in 0 .. Len(rows) - 1
    BY <1>1
  <2> QED BY <1>6, <1>13, <2>1
<1> QED BY <1>5, <1>6, <1>10, <1>11, <1>12, <1>13 DEF Finished, page, S, Before

(* A row that arrives moves others back, never forward.                      *)
LEMMA RowsMoveBack ==
  ASSUME FeedOK, Revise
  PROVE  /\ FeedOK' /\ DOMAIN feed \subseteq DOMAIN feed'
         /\ \A source : /\ Asked(source) \subseteq Asked(source)'
                        /\ \A key \in Asked(source) :
                             Cardinality(Ahead(Asked(source), key)) <= Cardinality(Ahead(Asked(source), key)')
<1>1. PICK key \in (FirstDay .. LastDay) \X KindsOf(fetch.source), value \in Amounts :
        feed' = Override(feed, [k \in {key} |-> value])
  BY DEF Revise
<1> DEFINE new == [k \in {key} |-> value]
<1>2. DOMAIN new = {key} /\ new[key] = value
  OBVIOUS
<1>3. key \in Int \X Kinds /\ value \in Numbers
  BY KindsAre, ClientAssumption DEF Numbers
<1>4. feed' = Override(feed, new)
  BY <1>1
<1> HIDE DEF new
<1>5. DOMAIN feed' = DOMAIN feed \cup {key}
  BY <1>2, <1>4, Overridden
<1>6. \A k \in DOMAIN feed' : feed'[k] = IF k \in {key} THEN new[k] ELSE feed[k]
  BY <1>2, <1>4 DEF Override
<1>7. IsFiniteSet(DOMAIN feed')
  BY <1>5, FS_AddElement DEF FeedOK
<1>8. FeedOK'
  <2>1. \A k \in DOMAIN feed' : feed'[k] \in Numbers
    BY <1>2, <1>3, <1>5, <1>6 DEF FeedOK
  <2> QED BY <1>3, <1>5, <1>7, <2>1 DEF FeedOK
<1>9. ASSUME NEW source, NEW k \in Asked(source)
      PROVE  Cardinality(Ahead(Asked(source), k)) <= Cardinality(Ahead(Asked(source), k)')
  <2>1. Ahead(Asked(source), k) \subseteq Ahead(Asked(source), k)'
    BY <1>5 DEF Ahead, Asked
  <2>2. Ahead(Asked(source), k)' \subseteq DOMAIN feed'
    BY DEF Ahead, Asked
  <2>3. IsFiniteSet(Ahead(Asked(source), k)')
    BY <1>7, <2>2, FS_Subset
  <2> QED BY <2>1, <2>3, FS_Subset
<1>10. \A source : Asked(source) \subseteq Asked(source)'
  BY <1>5 DEF Asked
<1> QED BY <1>5, <1>8, <1>9, <1>10

LEMMA AheadIsNat ==
  ASSUME FeedOK, NEW source, NEW key
  PROVE  Cardinality(Ahead(Asked(source), key)) \in Nat
<1>1. Ahead(Asked(source), key) \subseteq DOMAIN feed
  BY DEF Ahead, Asked
<1> QED BY <1>1, FS_Subset, FS_CardinalityType DEF FeedOK

LEMMA FetchNext ==
  ASSUME FetchInv, [Next]_vars
  PROVE  FetchInv'
<1>1. ASSUME UNCHANGED <<feed, fetch>> PROVE FetchInv'
  BY <1>1 DEF FetchInv, FeedOK, Asked, FetchCoversUpstream
<1>2. ASSUME UNCHANGED feed, fetch' = NoFetch PROVE FetchInv'
  <2>1. FeedOK'
    BY <1>2 DEF FetchInv, FeedOK
  <2> QED BY <1>2, <2>1, NoFetchTyped
<1>3. ASSUME UNCHANGED feed, fetch.step \notin {"idle", "page"}, NEW step \in FetchSteps \ {"idle", "page"},
             fetch' = [fetch EXCEPT !.step = step]
      PROVE  FetchInv'
  <2>1. /\ DOMAIN fetch' = FetchFields /\ fetch'.step = step /\ fetch'.records = fetch.records
        /\ fetch'.attempt = fetch.attempt /\ fetch'.owed = fetch.owed
    BY <1>3 DEF FetchInv, FetchFields
  <2>2. Keys(fetch'.records) = Keys(fetch.records)
    BY <2>1
  <2> QED BY <1>3, <2>1, <2>2 DEF FetchInv, FeedOK, FetchCoversUpstream
<1>4. ASSUME Revise PROVE FetchInv'
  <2>1. UNCHANGED fetch /\ fetch.step = "page" /\ FeedOK
    BY <1>4 DEF Revise, eiaVars, FetchInv
  <2>2. /\ FeedOK' /\ DOMAIN feed \subseteq DOMAIN feed'
        /\ \A source : /\ Asked(source) \subseteq Asked(source)'
                       /\ \A key \in Asked(source) :
                            Cardinality(Ahead(Asked(source), key)) <= Cardinality(Ahead(Asked(source), key)')
    BY <1>4, <2>1, RowsMoveBack
  <2>3. PICK source : source = fetch.source
    OBVIOUS
  <2>30. Asked(source) \subseteq Asked(source)' /\ fetch.owed \subseteq Asked(source)
    BY <2>1, <2>2, <2>3 DEF FetchInv
  <2>0. \A key \in fetch.owed :
          Cardinality(Ahead(Asked(source), key)) <= Cardinality(Ahead(Asked(source), key)')
    BY <2>2, <2>30
  <2>00. \A key \in fetch.owed :
          Cardinality(Ahead(Asked(source), key)) < fetch.offset => key \in Keys(fetch.records)
    BY <2>1, <2>3 DEF FetchInv
  <2>000. fetch.offset \in Nat /\ fetch'.offset = fetch.offset /\ fetch'.owed = fetch.owed
          /\ Asked(fetch.source)' = Asked(source)' /\ Keys(fetch'.records) = Keys(fetch.records)
    BY <2>1, <2>3 DEF FetchInv
  <2>4. ASSUME NEW key \in fetch.owed, Cardinality(Ahead(Asked(source), key)') < fetch.offset
        PROVE  key \in Keys(fetch.records)
    <3>1. Cardinality(Ahead(Asked(source), key)) <= Cardinality(Ahead(Asked(source), key)')
      BY <2>0
    <3>2. Cardinality(Ahead(Asked(source), key)) \in Nat
      BY <2>1, AheadIsNat
    <3>3. Cardinality(Ahead(Asked(source), key)') \in Nat
      <4>1. Ahead(Asked(source), key)' \subseteq DOMAIN feed'
        BY DEF Ahead, Asked
      <4> QED BY <2>2, <4>1, FS_Subset, FS_CardinalityType DEF FeedOK
    <3>4. Cardinality(Ahead(Asked(source), key)) < fetch.offset
      BY <2>000, <2>4, <3>1, <3>2, <3>3
    <3> QED BY <2>00, <3>4
  <2>5. \A key \in fetch'.owed :
          Cardinality(Ahead(Asked(fetch.source)', key)) < fetch'.offset => key \in Keys(fetch'.records)
    BY <2>000, <2>4 DEF Ahead
  <2>6. fetch'.owed \subseteq Asked(fetch.source)'
    BY <2>000, <2>30
  <2> QED BY <2>1, <2>2, <2>5, <2>6 DEF FetchInv, FetchCoversUpstream
<1>5. ASSUME BeginFetch PROVE FetchInv'
  <2>1. PICK source \in {"demand", "renewable"} :
          fetch' = [NoFetch EXCEPT !.step = "page", !.source = source, !.owed = Keys(Upstream(source))]
    BY <1>5 DEF BeginFetch
  <2>2. /\ DOMAIN fetch' = FetchFields /\ fetch'.step = "page" /\ fetch'.source = source
        /\ fetch'.owed = Keys(Upstream(source)) /\ fetch'.offset = 0 /\ fetch'.attempt = 0
        /\ fetch'.records = << >>
    BY <2>1 DEF NoFetch, FetchFields
  <2>3. UNCHANGED feed /\ FeedOK
    BY <1>5 DEF BeginFetch, upstream, FetchInv
  <2>4. fetch'.owed = Asked(source) /\ Asked(source)' = Asked(source)
    BY <2>2, <2>3, KeysOfUpstream DEF Asked
  <2>5. \A key : ~(Cardinality(Ahead(Asked(source), key)) < 0)
    BY <2>3, AheadIsNat
  <2>6. << >> \in Seq(Record) /\ Keys(<< >>) = {}
    BY DEF Keys
  <2>7. FeedOK'
    BY <2>3 DEF FeedOK
  <2> QED BY <2>2, <2>4, <2>5, <2>6, <2>7, ClientAssumption DEF FetchInv, FetchSteps, FetchCoversUpstream
<1>6. ASSUME GetPage PROVE FetchInv'
  <2> DEFINE rows == Upstream(fetch.source)
             S == Asked(fetch.source)
  <2>1. PICK answer \in Served(rows, fetch.offset) :
          /\ HonestWhenShort(answer, rows, fetch.offset)
          /\ fetch' = [fetch EXCEPT
               !.records = @ \o answer.page, !.offset = @ + Len(answer.page), !.attempt = 0,
               !.step = IF Finished(answer.page, fetch.offset + Len(answer.page), answer.total)
                        THEN "process" ELSE "page"]
    BY <1>6 DEF GetPage
  <2>2. /\ fetch.step = "page" /\ UNCHANGED feed /\ FeedOK /\ fetch.offset \in Nat
        /\ fetch.owed \subseteq S
    BY <1>6 DEF GetPage, upstream, FetchInv
  <2>3. /\ answer.page \in Seq(Record) /\ Keys(answer.page) \subseteq S
        /\ Len(answer.page) \in Nat
        /\ \A key \in S :
             (/\ fetch.offset <= Cardinality(Ahead(S, key))
              /\ Cardinality(Ahead(S, key)) < fetch.offset + Len(answer.page)) => key \in Keys(answer.page)
        /\ Finished(answer.page, fetch.offset + Len(answer.page), answer.total) =>
             \A key \in S : Cardinality(Ahead(S, key)) < fetch.offset + Len(answer.page)
    BY <2>1, <2>2, PageBrings
  <2>4. /\ DOMAIN fetch' = FetchFields /\ fetch'.records = fetch.records \o answer.page
        /\ fetch'.offset = fetch.offset + Len(answer.page) /\ fetch'.attempt = 0
        /\ fetch'.owed = fetch.owed /\ fetch'.source = fetch.source
        /\ fetch'.step = IF Finished(answer.page, fetch.offset + Len(answer.page), answer.total)
                         THEN "process" ELSE "page"
    BY <2>1 DEF FetchInv, FetchFields
  <2>5. /\ fetch'.records \in Seq(Record)
        /\ Keys(fetch'.records) = Keys(fetch.records) \cup Keys(answer.page)
    <3>1. fetch.records \in Seq(Record)
      BY DEF FetchInv
    <3> QED BY <2>3, <2>4, <3>1, Joined
  <2>6. Asked(fetch.source)' = S /\ S \subseteq DOMAIN feed
    BY <2>2, <2>4 DEF Asked
  <2>7. ASSUME NEW key \in fetch.owed, Cardinality(Ahead(S, key)) < fetch.offset + Len(answer.page)
        PROVE  key \in Keys(fetch'.records)
    <3>1. Cardinality(Ahead(S, key)) \in Nat
      BY <2>2, AheadIsNat
    <3>2. Cardinality(Ahead(S, key)) < fetch.offset => key \in Keys(fetch.records)
      BY <2>2 DEF FetchInv
    <3>3. fetch.offset <= Cardinality(Ahead(S, key)) => key \in Keys(answer.page)
      BY <2>2, <2>3, <2>7
    <3> QED BY <2>2, <2>5, <3>1, <3>2, <3>3
  <2> HIDE DEF S
  <2>8. FeedOK' /\ Keys(fetch'.records) \subseteq DOMAIN feed'
    <3>1. Keys(fetch.records) \subseteq DOMAIN feed
      BY DEF FetchInv
    <3>2. Keys(answer.page) \subseteq DOMAIN feed
      BY <2>3, <2>6
    <3> QED BY <2>2, <2>5, <3>1, <3>2 DEF FeedOK
  <2>9. fetch'.step \in FetchSteps /\ fetch'.attempt \in 0 .. MaxRetries
    BY <2>4, ClientAssumption DEF FetchSteps
  <2>10. fetch'.step = "page" =>
           /\ fetch'.offset \in Nat /\ fetch'.owed \subseteq Asked(fetch.source)'
           /\ \A key \in fetch'.owed :
                Cardinality(Ahead(Asked(fetch.source)', key)) < fetch'.offset => key \in Keys(fetch'.records)
    BY <2>2, <2>3, <2>4, <2>6, <2>7
  <2>11. FetchCoversUpstream'
    <3>1. CASE Finished(answer.page, fetch.offset + Len(answer.page), answer.total)
      BY <2>2, <2>3, <2>4, <2>7, <3>1 DEF FetchCoversUpstream
    <3>2. CASE ~Finished(answer.page, fetch.offset + Len(answer.page), answer.total)
      BY <2>4, <3>2 DEF FetchCoversUpstream
    <3> QED BY <3>1, <3>2
  <2>12. \A key : Ahead(Asked(fetch.source)', key) = Ahead(Asked(fetch.source), key)'
    BY <2>4 DEF Ahead
  <2> QED BY <2>4, <2>5, <2>8, <2>9, <2>10, <2>11 DEF FetchInv
<1>7. ASSUME RequestRetried PROVE FetchInv'
  <2>1. UNCHANGED feed /\ fetch.step = "page"
    BY <1>7 DEF RequestRetried, upstream
  <2>2. CASE fetch.attempt < MaxRetries
    <3>1. /\ DOMAIN fetch' = FetchFields /\ fetch'.step = "page" /\ fetch'.records = fetch.records
          /\ fetch'.attempt = fetch.attempt + 1 /\ fetch'.owed = fetch.owed
          /\ fetch'.offset = fetch.offset /\ fetch'.source = fetch.source
      BY <1>7, <2>1, <2>2 DEF RequestRetried, FetchInv, FetchFields
    <3>2. fetch'.attempt \in 0 .. MaxRetries
      BY <2>2, <3>1, ClientAssumption DEF FetchInv
    <3>3. Keys(fetch'.records) = Keys(fetch.records) /\ Asked(fetch.source)' = Asked(fetch.source)
      BY <2>1, <3>1 DEF Asked
    <3>4. FeedOK' /\ fetch'.step \in FetchSteps
      BY <2>1, <3>1 DEF FetchInv, FeedOK
    <3> QED BY <2>1, <3>1, <3>2, <3>3, <3>4 DEF FetchInv, FetchCoversUpstream
  <2>3. CASE ~(fetch.attempt < MaxRetries)
    BY <1>2, <1>7, <2>1, <2>3 DEF RequestRetried
  <2> QED BY <2>2, <2>3
<1>8. ASSUME RequestRefused \/ RecordsConflict \/ IngestDemand \/ UpsertCut \/ CreateView \/ FetchCut
      PROVE  FetchInv'
  BY <1>2, <1>8 DEF RequestRefused, RecordsConflict, IngestDemand, UpsertCut, CreateView, FetchCut, upstream
<1>9. ASSUME ProcessRenewables \/ WriteRenewables \/ QuarantineRenewables \/ UpsertRenewables
      PROVE  FetchInv'
  <2>1. UNCHANGED feed /\ fetch.step \notin {"idle", "page"}
    BY <1>9 DEF ProcessRenewables, WriteRenewables, QuarantineRenewables, UpsertRenewables, upstream
  <2>2. \/ fetch' = NoFetch
        \/ \E step \in FetchSteps \ {"idle", "page"} : fetch' = [fetch EXCEPT !.step = step]
    BY <1>9 DEF ProcessRenewables, WriteRenewables, QuarantineRenewables, UpsertRenewables, FetchSteps
  <2> QED BY <1>2, <1>3, <2>1, <2>2
<1>10. ASSUME Detect \/ SkyNext \/ UNCHANGED vars PROVE UNCHANGED <<feed, fetch>>
  BY <1>10 DEF Detect, SkyNext, ReviseSky, BeginGather, RequestChunk, ReadCachedChunk, ChunkFails,
     AggregateWeather, WriteWeather, UpsertLocations, UpsertRegions, GatherCut, eiaVars, upstream, vars
<1> QED BY <1>1, <1>4, <1>5, <1>6, <1>7, <1>8, <1>9, <1>10 DEF Next, Acquire, EiaNext

LEMMA FetchInit == Init => FetchInv
<1> SUFFICES ASSUME Init PROVE FetchInv
  OBVIOUS
<1>1. PICK start \in Starts : feed = start.feed
  BY DEF Init
<1>2. FeedOK
  BY <1>1, StartsAssumption DEF FeedOK, Kinds, Numbers, Number
<1>3. fetch = NoFetch
  BY DEF Init, AcquisitionInit
<1>4. fetch.step = "idle" /\ fetch.attempt = 0 /\ fetch.records = << >>
  BY <1>3 DEF NoFetch
<1>5. << >> \in Seq(Record) /\ Keys(<< >>) = {}
  BY DEF Keys
<1> QED BY <1>2, <1>3, <1>4, <1>5, NoFetchOK, ClientAssumption DEF FetchInv, FetchSteps, FetchCoversUpstream

(* However EIA's rows arrive and change between the pages, and however short *)
(* its pages and small its totals are, a fetch that ends has every row that  *)
(* was there when it began (EIAClient.fetch_hourly_data,                     *)
(* fetch_renewable_data).                                                    *)
THEOREM FetchComplete == Spec => []FetchCoversUpstream
<1>1. FetchInv => FetchCoversUpstream
  BY DEF FetchInv
<1> QED BY <1>1, FetchInit, FetchNext, PTL DEF Spec

-----------------------------------------------------------------------------
(* A regional row and the location rows it is the mean of.                   *)
Agrees(key) ==
  /\ \A place \in Locations : << <<place, key[1]>>, key[2] >> \in DOMAIN spots
  /\ weather[key] = SpotMean(key)

(* The rows the run at hand has still to store again.                        *)
Pending(key) == gather.step = "regions" /\ key[1] \in GatheredHours /\ key[2] = gather.type

(* A frame that is written has every location in each of its hours, and once *)
(* its location rows are stored they are what the regional rows are          *)
(* aggregated from.                                                          *)
RegionInv ==
  /\ DOMAIN gather = GatherFields /\ faults \in Nat
  /\ gather.step \in {"file", "spots", "regions"} => Locations \X GatheredHours \subseteq DOMAIN gather.frame
  /\ \A key \in DOMAIN weather : key = <<key[1], key[2]>>
  /\ faults = 0 =>
       /\ gather.step = "regions" =>
            \A key \in DOMAIN gather.frame :
              /\ <<key, gather.type>> \in DOMAIN spots
              /\ spots[<<key, gather.type>>] = gather.frame[key]
       /\ \A key \in DOMAIN weather : Agrees(key) \/ Pending(key)

LEMMA RegionsWhileIdle ==
  ASSUME RegionInv, UNCHANGED <<weather, spots>>, gather.step # "regions" \/ faults' # 0,
         DOMAIN gather' = GatherFields, gather'.step \notin {"file", "spots", "regions"},
         faults' \in Nat, faults' = 0 => faults = 0
  PROVE  RegionInv'
<1>1. \A key : Agrees(key)' <=> Agrees(key)
  BY DEF Agrees, SpotMean
<1>2. faults' = 0 => \A key \in DOMAIN weather : Agrees(key)
  BY DEF RegionInv, Pending
<1> QED BY <1>1, <1>2 DEF RegionInv

LEMMA RegionsNext ==
  ASSUME RegionInv, SkyNext
  PROVE  RegionInv'
<1>1. ASSUME ReviseSky PROVE RegionInv'
  BY <1>1 DEF ReviseSky, tables, skyVars, RegionInv, Agrees, Pending, SpotMean, GatheredHours
<1>2. ASSUME BeginGather \/ ChunkFails PROVE RegionInv'
  <2>1. DOMAIN gather' = GatherFields /\ gather'.step \in {"idle", "chunk"}
    BY <1>2, NoGatherOK DEF BeginGather, ChunkFails, GatherFields
  <2>2. UNCHANGED <<weather, spots, faults>> /\ gather.step # "regions"
    BY <1>2 DEF BeginGather, ChunkFails, tables, counters
  <2> QED BY <2>1, <2>2, RegionsWhileIdle DEF RegionInv
<1>3. ASSUME RequestChunk \/ ReadCachedChunk PROVE RegionInv'
  <2>1. DOMAIN gather' = GatherFields /\ gather'.step \in {"idle", "chunk", "aggregate"}
    BY <1>3, TakeOK DEF RequestChunk, ReadCachedChunk, RegionInv
  <2>2. UNCHANGED <<weather, spots, faults>> /\ gather.step # "regions"
    BY <1>3 DEF RequestChunk, ReadCachedChunk, tables, counters
  <2> QED BY <2>1, <2>2, RegionsWhileIdle DEF RegionInv
<1>4. ASSUME AggregateWeather PROVE RegionInv'
  <2>1. UNCHANGED <<weather, spots, faults>> /\ gather.step = "aggregate"
    BY <1>4 DEF AggregateWeather, tables, counters
  <2>2. CASE Locations \X GatheredHours \subseteq DOMAIN gather.frame
    <3>1. /\ DOMAIN gather' = GatherFields /\ gather'.step = "file"
          /\ gather'.frame = gather.frame /\ gather'.type = gather.type
      BY <1>4, <2>2 DEF AggregateWeather, RegionInv, GatherFields
    <3>2. GatheredHours' = GatheredHours
      BY <3>1 DEF GatheredHours
    <3>3. \A key : Agrees(key)' <=> Agrees(key)
      BY <2>1 DEF Agrees, SpotMean
    <3> QED BY <2>1, <2>2, <3>1, <3>2, <3>3 DEF RegionInv, Pending
  <2>3. CASE ~(Locations \X GatheredHours \subseteq DOMAIN gather.frame)
    BY <1>4, <2>1, <2>3, NoGatherOK, RegionsWhileIdle DEF AggregateWeather, RegionInv
  <2> QED BY <2>2, <2>3
<1>5. ASSUME WriteWeather PROVE RegionInv'
  <2>1. UNCHANGED <<weather, spots, faults>> /\ gather.step = "file"
    BY <1>5 DEF WriteWeather, tables, counters
  <2>2. CASE regionFile = Torn
    BY <1>5, <2>1, <2>2, NoGatherOK, RegionsWhileIdle DEF WriteWeather, RegionInv
  <2>3. CASE regionFile # Torn
    <3>1. /\ DOMAIN gather' = GatherFields /\ gather'.step = "spots"
          /\ gather'.frame = gather.frame /\ gather'.type = gather.type
      BY <1>5, <2>3 DEF WriteWeather, RegionInv, GatherFields
    <3>2. GatheredHours' = GatheredHours
      BY <3>1 DEF GatheredHours
    <3>3. \A key : Agrees(key)' <=> Agrees(key)
      BY <2>1 DEF Agrees, SpotMean
    <3> QED BY <2>1, <3>1, <3>2, <3>3 DEF RegionInv, Pending
  <2> QED BY <2>2, <2>3
<1>6. ASSUME UpsertLocations PROVE RegionInv'
  <2> DEFINE new == [key \in (DOMAIN gather.frame) \X {gather.type} |-> gather.frame[key[1]]]
  <2>1. /\ UNCHANGED <<weather, faults>> /\ gather.step = "spots"
        /\ spots' = Override(spots, new)
    BY <1>6 DEF UpsertLocations, tables, counters
  <2>2. /\ DOMAIN gather' = GatherFields /\ gather'.step = "regions"
        /\ gather'.frame = gather.frame /\ gather'.type = gather.type
    BY <1>6 DEF UpsertLocations, RegionInv, GatherFields
  <2>3. GatheredHours' = GatheredHours
    BY <2>2 DEF GatheredHours
  <2>4. DOMAIN new = (DOMAIN gather.frame) \X {gather.type}
    OBVIOUS
  <2>5. \A key \in DOMAIN gather.frame : new[<<key, gather.type>>] = gather.frame[key]
    OBVIOUS
  <2> HIDE DEF new
  <2>6. DOMAIN spots' = DOMAIN spots \cup DOMAIN new
    BY <2>1, Overridden
  <2>7. \A key \in DOMAIN spots' : spots'[key] = IF key \in DOMAIN new THEN new[key] ELSE spots[key]
    BY <2>1 DEF Override
  <2>8. \A key \in DOMAIN gather.frame :
          <<key, gather.type>> \in DOMAIN spots' /\ spots'[<<key, gather.type>>] = gather.frame[key]
    BY <2>4, <2>5, <2>6, <2>7
  <2>9. ASSUME NEW key \in DOMAIN weather, Agrees(key) PROVE Agrees(key)' \/ Pending(key)'
    <3>1. CASE key[1] \in GatheredHours /\ key[2] = gather.type
      BY <2>2, <2>3, <3>1 DEF Pending
    <3>2. CASE ~(key[1] \in GatheredHours /\ key[2] = gather.type)
      <4>1. \A place \in Locations : << <<place, key[1]>>, key[2] >> \notin DOMAIN new
        BY <2>4, <3>2 DEF GatheredHours
      <4>2. \A place \in Locations : << <<place, key[1]>>, key[2] >> \in DOMAIN spots
        BY <2>9 DEF Agrees
      <4>3. \A place \in Locations :
              /\ << <<place, key[1]>>, key[2] >> \in DOMAIN spots'
              /\ spots'[<< <<place, key[1]>>, key[2] >>] = spots[<< <<place, key[1]>>, key[2] >>]
        BY <2>6, <2>7, <4>1, <4>2
      <4>4. [place \in Locations |-> spots'[<< <<place, key[1]>>, key[2] >>]]
              = [place \in Locations |-> spots[<< <<place, key[1]>>, key[2] >>]]
        BY <4>3
      <4>5. SpotMean(key)' = SpotMean(key)
        BY <4>4 DEF SpotMean
      <4> QED BY <2>1, <2>9, <4>3, <4>5 DEF Agrees
    <3> QED BY <3>1, <3>2
  <2>10. faults = 0 => \A key \in DOMAIN weather : Agrees(key)
    BY <2>1 DEF RegionInv, Pending
  <2> QED BY <2>1, <2>2, <2>3, <2>8, <2>9, <2>10 DEF RegionInv
<1>7. ASSUME UpsertRegions PROVE RegionInv'
  <2>1. /\ UNCHANGED <<spots, faults>> /\ gather.step = "regions"
        /\ weather' = Override(weather, RegionRows) /\ gather' = NoGather
    BY <1>7 DEF UpsertRegions, counters
  <2>2. /\ DOMAIN RegionRows = GatheredHours \X {gather.type}
        /\ \A key \in GatheredHours \X {gather.type} : RegionRows[key] = HourMean(key[1])
    BY DEF RegionRows
  <2>3. DOMAIN weather' = DOMAIN weather \cup DOMAIN RegionRows
    BY <2>1, Overridden
  <2>4. \A key \in DOMAIN weather' :
          weather'[key] = IF key \in DOMAIN RegionRows THEN RegionRows[key] ELSE weather[key]
    BY <2>1 DEF Override
  <2>5. \A key \in DOMAIN weather' : key = <<key[1], key[2]>>
    BY <2>2, <2>3 DEF RegionInv
  <2>6. ASSUME faults = 0, NEW key \in DOMAIN weather' PROVE Agrees(key)'
    <3>1. CASE key \in DOMAIN RegionRows
      <4>1. key[1] \in GatheredHours /\ key[2] = gather.type
        BY <2>2, <3>1
      <4>2. \A place \in Locations : <<place, key[1]>> \in DOMAIN gather.frame
        BY <2>1, <4>1 DEF RegionInv
      <4>3. \A place \in Locations :
              /\ << <<place, key[1]>>, key[2] >> \in DOMAIN spots
              /\ spots[<< <<place, key[1]>>, key[2] >>] = gather.frame[<<place, key[1]>>]
        BY <2>1, <2>6, <4>1, <4>2 DEF RegionInv
      <4>4. [place \in Locations |-> spots[<< <<place, key[1]>>, key[2] >>]]
              = [place \in Locations |-> gather.frame[<<place, key[1]>>]]
        BY <4>3
      <4>5. SpotMean(key) = HourMean(key[1])
        BY <4>4 DEF SpotMean, HourMean
      <4>6. weather'[key] = HourMean(key[1])
        BY <2>2, <2>4, <3>1
      <4>7. SpotMean(key)' = SpotMean(key)
        BY <2>1 DEF SpotMean
      <4> QED BY <2>1, <4>3, <4>5, <4>6, <4>7 DEF Agrees
    <3>2. CASE key \notin DOMAIN RegionRows
      <4>1. key \in DOMAIN weather /\ weather'[key] = weather[key]
        BY <2>3, <2>4, <3>2
      <4>2. ~(key[1] \in GatheredHours /\ key[2] = gather.type)
        BY <2>2, <3>2, <4>1 DEF RegionInv
      <4>3. Agrees(key)
        BY <2>6, <4>1, <4>2 DEF RegionInv, Pending
      <4>4. SpotMean(key)' = SpotMean(key)
        BY <2>1 DEF SpotMean
      <4> QED BY <2>1, <4>1, <4>3, <4>4 DEF Agrees
    <3> QED BY <3>1, <3>2
  <2> QED BY <2>1, <2>5, <2>6, NoGatherOK DEF RegionInv
<1>8. ASSUME GatherCut PROVE RegionInv'
  <2>1. /\ gather' = NoGather /\ faults' = faults + 1 /\ UNCHANGED <<weather, spots>>
    BY <1>8 DEF GatherCut, tables
  <2>2. faults' \in Nat /\ faults' # 0
    BY <2>1 DEF RegionInv
  <2> QED BY <2>1, <2>2, NoGatherOK, RegionsWhileIdle
<1> QED BY <1>1, <1>2, <1>3, <1>4, <1>5, <1>6, <1>7, <1>8 DEF SkyNext

(* Whatever is gathered, from the provider or the cache, and however a run   *)
(* before it raised, without a fault between the two upserts a region's      *)
(* weather is the mean of the location rows beside it (aggregate_region_     *)
(* weather, WeatherStorage.upsert_locations, upsert_regions).                *)
THEOREM RegionsAreMeans == Spec => []RegionsFollowLocations
<1>1. Init => RegionInv
  <2> SUFFICES ASSUME Init PROVE RegionInv
    OBVIOUS
  <2>1. PICK start \in Starts : spots = start.spots
    BY DEF Init
  <2>2. /\ gather = NoGather /\ faults = 0
        /\ weather = [key \in {<<k[1][2], k[2]>> : k \in DOMAIN spots} |-> SpotMean(key)]
    BY DEF Init, AcquisitionInit
  <2>3. \A k \in DOMAIN spots, place \in Locations : << <<place, k[1][2]>>, k[2] >> \in DOMAIN spots
    BY <2>1, StartsAssumption
  <2>4. ASSUME NEW key \in DOMAIN weather PROVE key = <<key[1], key[2]>> /\ Agrees(key)
    <3>1. PICK k \in DOMAIN spots : key = <<k[1][2], k[2]>>
      BY <2>2
    <3>2. weather[key] = SpotMean(key)
      BY <2>2
    <3> QED BY <2>3, <3>1, <3>2 DEF Agrees
  <2> QED BY <2>2, <2>4, NoGatherOK DEF RegionInv
<1>2. RegionInv /\ [Next]_vars => RegionInv'
  <2> SUFFICES ASSUME RegionInv, [Next]_vars PROVE RegionInv'
    OBVIOUS
  <2>1. ASSUME UNCHANGED <<skyVars, weather>>, faults' \in {faults, faults + 1} PROVE RegionInv'
    <3>1. UNCHANGED <<gather, spots, weather>>
      BY <2>1 DEF skyVars
    <3>2. \A key : (Agrees(key)' <=> Agrees(key)) /\ (Pending(key)' <=> Pending(key))
      BY <3>1 DEF Agrees, Pending, SpotMean, GatheredHours
    <3>3. GatheredHours' = GatheredHours
      BY <3>1 DEF GatheredHours
    <3>4. faults' \in Nat /\ (faults' = 0 => faults = 0)
      BY <2>1 DEF RegionInv
    <3> QED BY <3>1, <3>2, <3>3, <3>4 DEF RegionInv
  <2>2. ASSUME EiaNext PROVE UNCHANGED <<skyVars, weather>> /\ faults' \in {faults, faults + 1}
    BY <2>2 DEF EiaNext, Revise, BeginFetch, GetPage, RequestRetried, RequestRefused, RecordsConflict,
       IngestDemand, ProcessRenewables, WriteRenewables, QuarantineRenewables, UpsertRenewables,
       UpsertCut, CreateView, FetchCut, tables, counters
  <2>3. ASSUME Detect \/ UNCHANGED vars PROVE UNCHANGED <<skyVars, weather, faults>>
    BY <2>3 DEF Detect, RunNext, BeginRun, LoadTarget, AllScored, ScoreTarget, RunRaises, StoreEvents,
       HandToAlerts, Report, Cut, vars, tables, counters
  <2> QED BY <2>1, <2>2, <2>3, RegionsNext DEF Next, Acquire
<1>3. RegionInv => RegionsFollowLocations
  BY DEF RegionInv, RegionsFollowLocations, Agrees, Pending
<1> QED BY <1>1, <1>2, <1>3, PTL DEF Spec

-----------------------------------------------------------------------------
(* The rows of a target: finitely many whole hours with a number or NaN.     *)
SeriesOK(s) == /\ DOMAIN s \subseteq Int /\ IsFiniteSet(DOMAIN s)
               /\ \A h \in DOMAIN s : s[h] \in Numbers

GenerationOK(s) == /\ DOMAIN s \subseteq Int /\ IsFiniteSet(DOMAIN s)
                   /\ \A h \in DOMAIN s : s[h].solar \in Numbers /\ s[h].wind \in Numbers

TablesInv ==
  /\ SeriesOK(demand)
  /\ renewables # NoTable => GenerationOK(renewables)

LEMMA EmptySeries == SeriesOK(<< >>) /\ GenerationOK(<< >>)
<1>1. DOMAIN << >> = {}
  OBVIOUS
<1> QED BY <1>1, FS_EmptySet DEF SeriesOK, GenerationOK

LEMMA KeysFinite ==
  ASSUME NEW records \in Seq(Record)
  PROVE  /\ IsFiniteSet(Hours(records)) /\ Hours(records) \subseteq Int
         /\ \A hour, kind : Measured(records, hour, kind) \in Numbers
<1>1. DOMAIN records = 1 .. Len(records) /\ Len(records) \in Nat
  OBVIOUS
<1>2. IsFiniteSet(DOMAIN records)
  BY <1>1, FS_Interval
<1>3. \A n \in DOMAIN records : records[n] \in Record
  OBVIOUS
<1>4. \A n \in DOMAIN records : records[n].key \in Int \X Kinds /\ records[n].value \in Numbers
  BY <1>3 DEF Record
<1> DEFINE f == [n \in DOMAIN records |-> records[n].key[1]]
<1>5. f \in [DOMAIN records -> Hours(records)]
  BY DEF Hours, Keys
<1>6. \A h \in Hours(records) : \E n \in DOMAIN records : f[n] = h
  BY DEF Hours, Keys
<1> HIDE DEF f
<1>7. IsFiniteSet(Hours(records))
  BY <1>2, <1>5, <1>6, FiniteImage
<1>8. Hours(records) \subseteq Int
  BY <1>4 DEF Hours, Keys
<1>9. ASSUME NEW hour, NEW kind PROVE Measured(records, hour, kind) \in Numbers
  <2>1. CASE <<hour, kind>> \in Keys(records)
    <3>1. \E n \in DOMAIN records : records[n].key = <<hour, kind>>
      BY <2>1 DEF Keys
    <3> DEFINE m == CHOOSE n \in DOMAIN records : records[n].key = <<hour, kind>>
    <3>2. m \in DOMAIN records
      BY <3>1
    <3> HIDE DEF m
    <3>3. records[m].value \in Numbers
      BY <1>4, <3>2
    <3> QED BY <2>1, <3>3 DEF Measured, m
  <2>2. CASE ~(<<hour, kind>> \in Keys(records))
    BY <2>2 DEF Measured, Numbers
  <2> QED BY <2>1, <2>2
<1> QED BY <1>7, <1>8, <1>9

LEMMA OverrideOK ==
  ASSUME NEW s, NEW t
  PROVE  /\ SeriesOK(s) /\ SeriesOK(t) => SeriesOK(Override(s, t))
         /\ GenerationOK(s) /\ GenerationOK(t) => GenerationOK(Override(s, t))
<1> DEFINE u == Override(s, t)
<1>1. DOMAIN u = DOMAIN s \cup DOMAIN t
  BY Overridden
<1>2. \A k \in DOMAIN u : u[k] = IF k \in DOMAIN t THEN t[k] ELSE s[k]
  BY DEF Override
<1>3. IsFiniteSet(DOMAIN s) /\ IsFiniteSet(DOMAIN t) => IsFiniteSet(DOMAIN u)
  BY <1>1, FS_Union
<1> HIDE DEF u
<1> QED BY <1>1, <1>2, <1>3 DEF SeriesOK, GenerationOK, u

LEMMA ValidOK ==
  ASSUME NEW records \in Seq(Record)
  PROVE  GenerationOK(Valid(records))
<1>1. DOMAIN Valid(records) \subseteq Hours(records)
  BY DEF Valid
<1>2. \A h \in DOMAIN Valid(records) : /\ Valid(records)[h].solar = Measured(records, h, Sun)
                                       /\ Valid(records)[h].wind = Measured(records, h, Wind)
  BY DEF Valid
<1> QED BY <1>1, <1>2, KeysFinite, FS_Subset DEF GenerationOK

LEMMA RenewableRowsOK ==
  ASSUME TablesInv
  PROVE  GenerationOK(RenewableRows)
  BY EmptySeries DEF TablesInv, RenewableRows

LEMMA TablesNext ==
  ASSUME FetchInv, TablesInv, [Next]_vars
  PROVE  TablesInv'
<1>1. ASSUME UNCHANGED <<demand, renewables>> PROVE TablesInv'
  BY <1>1 DEF TablesInv
<1>2. fetch.records \in Seq(Record)
  BY DEF FetchInv
<1>3. ASSUME IngestDemand PROVE TablesInv'
  <2> DEFINE rows == [h \in Hours(fetch.records) |-> Measured(fetch.records, h, Demand)]
  <2>1. SeriesOK(rows)
    BY <1>2, KeysFinite DEF SeriesOK
  <2>2. UNCHANGED renewables /\ (demand' = demand \/ demand' = Override(demand, rows))
    BY <1>3 DEF IngestDemand
  <2> QED BY <2>1, <2>2, OverrideOK DEF TablesInv
<1>4. ASSUME UpsertRenewables PROVE TablesInv'
  <2>1. UNCHANGED demand /\ renewables' = Override(RenewableRows, Valid(fetch.records))
    BY <1>4 DEF UpsertRenewables
  <2>2. GenerationOK(renewables')
    BY <1>2, <2>1, RenewableRowsOK, ValidOK, OverrideOK
  <2> QED BY <2>1, <2>2 DEF TablesInv
<1>5. ASSUME UpsertCut PROVE TablesInv'
  <2>1. /\ UNCHANGED demand
        /\ renewables' = [h \in DOMAIN RenewableRows \ DOMAIN Valid(fetch.records) |-> renewables[h]]
    BY <1>5 DEF UpsertCut
  <2>2. DOMAIN renewables' \subseteq DOMAIN RenewableRows /\ DOMAIN RenewableRows = Covered
    BY <2>1, NoRows
  <2>3. \A h \in DOMAIN renewables' : renewables # NoTable /\ RenewableRows[h] = renewables[h]
    BY <2>2 DEF Covered, RenewableRows
  <2>4. \A h \in DOMAIN renewables' : renewables'[h] = renewables[h]
    BY <2>1
  <2>5. IsFiniteSet(DOMAIN renewables') /\ DOMAIN renewables' \subseteq Int
    BY <2>2, RenewableRowsOK, FS_Subset DEF GenerationOK
  <2>6. GenerationOK(renewables')
    BY <2>2, <2>3, <2>4, <2>5, RenewableRowsOK DEF GenerationOK
  <2> QED BY <2>1, <2>6 DEF TablesInv
<1>6. ASSUME \/ Revise \/ BeginFetch \/ GetPage \/ RequestRetried \/ RequestRefused \/ RecordsConflict
             \/ ProcessRenewables \/ WriteRenewables \/ QuarantineRenewables \/ CreateView \/ FetchCut
      PROVE  UNCHANGED <<demand, renewables>>
  BY <1>6 DEF Revise, BeginFetch, GetPage, RequestRetried, RequestRefused, RecordsConflict,
     ProcessRenewables, WriteRenewables, QuarantineRenewables, CreateView, FetchCut, tables
<1>7. ASSUME SkyNext PROVE UNCHANGED <<demand, renewables>>
  BY <1>7 DEF SkyNext, ReviseSky, BeginGather, RequestChunk, ReadCachedChunk, ChunkFails,
     AggregateWeather, WriteWeather, UpsertLocations, UpsertRegions, GatherCut, tables
<1>8. ASSUME Detect \/ UNCHANGED vars PROVE UNCHANGED <<demand, renewables>>
  BY <1>8 DEF Detect, RunNext, BeginRun, LoadTarget, AllScored, ScoreTarget, RunRaises, StoreEvents,
     HandToAlerts, Report, Cut, vars, tables
<1> QED BY <1>1, <1>3, <1>4, <1>5, <1>6, <1>7, <1>8 DEF Next, Acquire, EiaNext

LEMMA BetweenOK ==
  ASSUME NEW s, SeriesOK(s), NEW first, NEW last
  PROVE  /\ SeriesOK(Between(s, first, last))
         /\ DOMAIN Between(s, first, last) = DOMAIN s \cap (first .. last)
         /\ \A h \in DOMAIN Between(s, first, last) : Between(s, first, last)[h] = s[h]
<1> DEFINE t == Between(s, first, last)
<1>1. DOMAIN t = DOMAIN s \cap (first .. last) /\ \A h \in DOMAIN t : t[h] = s[h]
  BY DEF Between
<1> HIDE DEF t
<1>2. IsFiniteSet(DOMAIN t)
  BY <1>1, FS_Subset DEF SeriesOK
<1> QED BY <1>1, <1>2 DEF SeriesOK, t

LEMMA GeneratedOK ==
  ASSUME TablesInv, NEW target, NEW h \in Covered
  PROVE  Generated(target, h) \in Numbers
<1>1. renewables # NoTable /\ h \in DOMAIN renewables
  BY DEF Covered
<1>2. renewables[h].solar \in Numbers /\ renewables[h].wind \in Numbers
  BY <1>1 DEF TablesInv, GenerationOK
<1>3. Plus(renewables[h].solar, renewables[h].wind) \in Numbers
  BY <1>2 DEF Plus, Numbers
<1> QED BY <1>2, <1>3 DEF Generated

(* Whatever target is read, its rows are a series.                           *)
LEMMA ObservedOK ==
  ASSUME TablesInv, NEW target
  PROVE  SeriesOK(Observed(target))
<1>1. Covered \subseteq Int /\ IsFiniteSet(Covered)
  BY FS_EmptySet DEF Covered, TablesInv, GenerationOK
<1>2. SeriesOK([h \in Covered |-> Generated(target, h)])
  BY <1>1, GeneratedOK DEF SeriesOK
<1>3. SeriesOK([h \in NetLoadHours |-> demand[h] - Generated("total", h)])
  <2>1. NetLoadHours \subseteq DOMAIN demand \cap Covered
    BY DEF NetLoadHours
  <2>2. \A h \in NetLoadHours : demand[h] \in Int /\ Generated("total", h) \in Int
    BY <2>1, GeneratedOK DEF NetLoadHours, TablesInv, SeriesOK, Numbers
  <2>3. \A h \in NetLoadHours : demand[h] - Generated("total", h) \in Numbers
    BY <2>2 DEF Numbers
  <2>4. NetLoadHours \subseteq Int /\ IsFiniteSet(NetLoadHours)
    BY <1>1, <2>1, FS_Subset
  <2> QED BY <2>3, <2>4 DEF SeriesOK
<1>4. SeriesOK(demand)
  BY DEF TablesInv
<1> QED BY <1>2, <1>3, <1>4 DEF Observed


Found(read, high, outliers, points) ==
  UNION {[rules            |-> RulesPart(read) \cup ForecastPart(read),
          residual         |-> ResidualPart(high),
          isolation_forest |-> OutlierEvents(outliers, Target, points)][d] : d \in run.detectors}

LEMMA FoundParts ==
  ASSUME run.detectors \subseteq AllDetectors, NEW read, NEW high, NEW outliers, NEW points
  PROVE  Found(read, high, outliers, points)
           = {e \in RulesPart(read) \cup ForecastPart(read) : "rules" \in run.detectors}
               \cup {e \in ResidualPart(high) : "residual" \in run.detectors}
               \cup {e \in OutlierEvents(outliers, Target, points) : "isolation_forest" \in run.detectors}
<1> DEFINE found == [rules            |-> RulesPart(read) \cup ForecastPart(read),
                     residual         |-> ResidualPart(high),
                     isolation_forest |-> OutlierEvents(outliers, Target, points)]
<1>1. /\ found["rules"] = RulesPart(read) \cup ForecastPart(read)
      /\ found["residual"] = ResidualPart(high)
      /\ found["isolation_forest"] = OutlierEvents(outliers, Target, points)
  OBVIOUS
<1>2. Found(read, high, outliers, points) = UNION {found[d] : d \in run.detectors}
  BY DEF Found
<1> HIDE DEF found
<1> QED BY <1>1, <1>2 DEF AllDetectors

(* What scoring a target does to the run.                                    *)
Scoring(read, high, outliers, points) ==
  /\ read \in WeatherReads /\ high \in BOOLEAN /\ points \in OutlierPoints
  /\ ~Raises(read) /\ outliers \in Outliers(read)
  /\ DOMAIN run' = RunFields /\ run'.step = "load"
  /\ run'.window = run.window /\ run'.detectors = run.detectors
  /\ run'.batch = Upsert(run.batch, Found(read, high, outliers, points))
  /\ run'.seen = [run.seen EXCEPT ![Target] = Evaluation]
  /\ run'.todo = Tail(run.todo) /\ run'.source = << >>

LEMMA ScoreBrings ==
  ASSUME DOMAIN run = RunFields, ScoreTarget
  PROVE  \E read, high, outliers, points : Scoring(read, high, outliers, points)
<1>1. PICK read \in WeatherReads :
        /\ ~Raises(read)
        /\ \E high \in BOOLEAN : \E outliers \in Outliers(read), points \in OutlierPoints :
             LET found == [rules |-> RulesPart(read) \cup ForecastPart(read),
                           residual |-> ResidualPart(high),
                           isolation_forest |-> OutlierEvents(outliers, Target, points)]
             IN  run' = [run EXCEPT !.batch = Upsert(@, UNION {found[d] : d \in run.detectors}),
                                    !.seen[Target] = Evaluation,
                                    !.todo = Tail(@), !.source = <<>>, !.step = "load"]
  BY DEF ScoreTarget
<1>2. PICK high \in BOOLEAN, outliers \in Outliers(read), points \in OutlierPoints :
        run' = [run EXCEPT !.batch = Upsert(@, Found(read, high, outliers, points)),
                           !.seen[Target] = Evaluation,
                           !.todo = Tail(@), !.source = <<>>, !.step = "load"]
  BY <1>1 DEF Found
<1> DEFINE found == Found(read, high, outliers, points)
<1>3. run' = [run EXCEPT !.batch = Upsert(@, found), !.seen[Target] = Evaluation,
                         !.todo = Tail(@), !.source = <<>>, !.step = "load"]
  BY <1>2
<1> HIDE DEF found
<1>4. /\ DOMAIN run' = RunFields /\ run'.step = "load"
      /\ run'.window = run.window /\ run'.detectors = run.detectors
      /\ run'.batch = Upsert(run.batch, found)
      /\ run'.todo = Tail(run.todo) /\ run'.source = << >>
  BY <1>3 DEF RunFields
<1>5. run'.seen = [run.seen EXCEPT ![Target] = Evaluation]
  BY <1>3 DEF RunFields
<1> QED BY <1>1, <1>2, <1>4, <1>5 DEF Scoring, found

(* A run has a window, and it scores a target that has rows in the window.   *)
RunInv ==
  /\ DOMAIN run = RunFields /\ run.step \in RunSteps
  /\ run.window \in Windows \cup {<<0, 0>>} /\ run.detectors \subseteq AllDetectors
  /\ run.step # "idle" => run.window \in Windows
  /\ SeriesOK(run.source)
  /\ run.todo \in Seq(AllTargets)
  /\ DOMAIN run.seen = AllTargets
  /\ run.step = "score" => run.todo # << >> /\ HourSet(DOMAIN Evaluation)

LEMMA IdleOK ==
  /\ DOMAIN Idle = RunFields /\ Idle.step = "idle" /\ Idle.window = <<0, 0>> /\ Idle.detectors = {}
  /\ Idle.todo = << >> /\ Idle.source = << >> /\ Idle.batch = {}
  /\ Idle.seen = [t \in AllTargets |-> << >>]
BY DEF Idle, RunFields

LEMMA RunEnds ==
  ASSUME run' = Idle
  PROVE  RunInv'
<1>1. << >> \in Seq(AllTargets)
  OBVIOUS
<1>2. DOMAIN run'.seen = AllTargets
  BY IdleOK
<1>3. run'.step \in RunSteps
  BY IdleOK DEF RunSteps
<1> QED BY <1>1, <1>2, <1>3, IdleOK, EmptySeries DEF RunInv

LEMMA NotEmpty ==
  ASSUME NEW s, NEW first, NEW last, Between(s, first, last) # << >>
  PROVE  DOMAIN Between(s, first, last) # {}
  BY DEF Between

LEMMA RunNextOK ==
  ASSUME RunInv, TablesInv, [Next]_vars
  PROVE  RunInv'
<1>1. ASSUME UNCHANGED run PROVE RunInv'
  <2>1. Evaluation' = Evaluation
    BY <1>1 DEF Evaluation, WindowStart, WindowEnd
  <2> QED BY <1>1, <2>1 DEF RunInv
<1>2. ASSUME BeginRun PROVE RunInv'
  <2>1. PICK w \in Windows, list \in TargetLists, d \in DetectorSets :
          run' = [Idle EXCEPT !.step = "load", !.window = w, !.detectors = d, !.todo = list]
    BY <1>2 DEF BeginRun
  <2>2. /\ DOMAIN run' = RunFields /\ run'.step = "load" /\ run'.window = w /\ run'.detectors = d
        /\ run'.todo = list /\ run'.source = << >> /\ run'.seen = [t \in AllTargets |-> << >>]
    BY <2>1 DEF Idle, RunFields
  <2>3. list \in Seq(AllTargets)
    <3>1. list \in Seq(Range(list))
      BY ListAssumption
    <3>2. Range(list) \subseteq AllTargets
      BY DEF Range, AllTargets
    <3>3. list \in [1 .. Len(list) -> Range(list)] /\ Len(list) \in Nat
      BY <3>1
    <3>4. list \in [1 .. Len(list) -> AllTargets]
      BY <3>2, <3>3
    <3> QED BY <3>3, <3>4
  <2>4. DOMAIN run'.seen = AllTargets
    BY <2>2
  <2>5. run'.step \in RunSteps
    BY <2>2 DEF RunSteps
  <2>6. run'.detectors \subseteq AllDetectors
    BY <2>2, DetectorAssumption
  <2> QED BY <2>2, <2>3, <2>4, <2>5, <2>6, EmptySeries DEF RunInv
<1>3. ASSUME LoadTarget PROVE RunInv'
  <2> DEFINE source == Between(Observed(Head(run.todo)), ReadFrom, WindowEnd)
  <2>1. /\ run.step = "load" /\ run.todo # << >>
        /\ IF Between(source, WindowStart, WindowEnd) = << >>
           THEN run' = [run EXCEPT !.todo = Tail(@)]
           ELSE run' = [run EXCEPT !.source = source, !.step = "score"]
    BY <1>3 DEF LoadTarget
  <2>2. SeriesOK(source)
    BY ObservedOK, BetweenOK
  <2> HIDE DEF source
  <2>3. CASE Between(source, WindowStart, WindowEnd) = << >>
    <3>1. /\ DOMAIN run' = RunFields /\ run'.step = "load" /\ run'.window = run.window
          /\ run'.detectors = run.detectors /\ run'.todo = Tail(run.todo)
          /\ run'.source = run.source /\ run'.seen = run.seen
      BY <2>1, <2>3 DEF RunInv, RunFields
    <3>2. Tail(run.todo) \in Seq(AllTargets)
      BY <2>1 DEF RunInv
    <3> QED BY <2>1, <3>1, <3>2 DEF RunInv
  <2>4. CASE Between(source, WindowStart, WindowEnd) # << >>
    <3>1. /\ DOMAIN run' = RunFields /\ run'.step = "score" /\ run'.window = run.window
          /\ run'.detectors = run.detectors /\ run'.todo = run.todo
          /\ run'.source = source /\ run'.seen = run.seen
      BY <2>1, <2>4 DEF RunInv, RunFields
    <3>2. Evaluation' = Between(source, WindowStart, WindowEnd)
      BY <3>1 DEF Evaluation, WindowStart, WindowEnd
    <3>3. HourSet(DOMAIN Evaluation')
      BY <2>2, <2>4, <3>2, NotEmpty, BetweenOK DEF HourSet, SeriesOK
    <3>4. run'.step \in RunSteps
      BY <3>1 DEF RunSteps
    <3> QED BY <2>1, <2>2, <3>1, <3>3, <3>4 DEF RunInv
  <2> QED BY <2>3, <2>4
<1>4. ASSUME AllScored \/ StoreEvents \/ HandToAlerts PROVE RunInv'
  <2>1. \E step \in {"store", "alert", "report"} : run' = [run EXCEPT !.step = step]
    BY <1>4 DEF AllScored, StoreEvents, HandToAlerts
  <2>2. PICK step \in {"store", "alert", "report"} : run' = [run EXCEPT !.step = step]
    BY <2>1
  <2>3. /\ DOMAIN run' = RunFields /\ run'.step = step /\ run'.window = run.window
        /\ run'.detectors = run.detectors /\ run'.todo = run.todo
        /\ run'.source = run.source /\ run'.seen = run.seen
    BY <2>2 DEF RunInv, RunFields
  <2>4. run.step # "idle"
    BY <1>4 DEF AllScored, StoreEvents, HandToAlerts
  <2>5. run'.step \in RunSteps
    BY <2>3 DEF RunSteps
  <2> QED BY <2>3, <2>4, <2>5 DEF RunInv
<1>5. ASSUME ScoreTarget PROVE RunInv'
  <2>1. PICK read, high, outliers, points :
          Scoring(read, high, outliers, points)
    BY <1>5, ScoreBrings DEF RunInv
  <2>2. run.step = "score" /\ run.todo # << >>
    BY <1>5 DEF ScoreTarget, RunInv
  <2>3. Tail(run.todo) \in Seq(AllTargets)
    BY <2>2 DEF RunInv
  <2>4. DOMAIN run'.seen = AllTargets
    BY <2>1 DEF Scoring, RunInv
  <2>5. run'.step \in RunSteps
    BY <2>1 DEF Scoring, RunSteps
  <2> QED BY <2>1, <2>2, <2>3, <2>4, <2>5, EmptySeries DEF Scoring, RunInv
<1>6. ASSUME RunRaises \/ Report \/ Cut PROVE RunInv'
  BY <1>6, RunEnds DEF RunRaises, Report, Cut
<1>7. ASSUME Acquire \/ UNCHANGED vars PROVE UNCHANGED run
  BY <1>7 DEF Acquire, runVars, vars
<1> QED BY <1>1, <1>2, <1>3, <1>4, <1>5, <1>6, <1>7 DEF Next, Detect, RunNext

-----------------------------------------------------------------------------
LEMMA EventFields ==
  ASSUME NEW target, NEW hour, NEW detector, NEW type, NEW score, NEW severity
  PROVE  LET e == Event(target, hour, detector, type, score, severity)
         IN  /\ e.target = target /\ e.hour = hour /\ e.detector = detector /\ e.type = type
             /\ e.score = Clip(score, 0, Points(100)) /\ e.severity = severity
             /\ e.row = 0 /\ e.from = {}
  BY DEF Event

LEMMA Clipped ==
  ASSUME NEW score \in Int
  PROVE  /\ Clip(score, 0, Points(100)) \in Scores
         /\ SeverityOf(score) \in Severities
         /\ SeverityOf(score) = "warning" => Clip(score, 0, Points(100)) >= Points(30)
  BY DEF Clip, Least, Most, Points, Scores, SeverityOf, Severities

LEMMA ScoreIsInt ==
  ASSUME NEW magnitude \in Int, NEW hours \in Int, NEW detectors \in Int
  PROVE  SeverityScore(magnitude, hours, detectors) \in Int
<1>2. Points(100) \in Int /\ Points(1) \in Int
  BY DEF Points
<1>3. /\ Clip(magnitude, 0, Points(100)) \in Int /\ Clip(hours, 1, 6) \in Int
      /\ Clip(detectors, 1, 3) \in Int
  <2>1. Clip(magnitude, 0, Points(100)) \in Int
    BY DEF Clip, Least, Most, Points
  <2>2. Clip(hours, 1, 6) \in Int
    BY DEF Clip, Least, Most
  <2>3. Clip(detectors, 1, 3) \in Int
    BY DEF Clip, Least, Most
  <2> QED BY <2>1, <2>2, <2>3
<1> QED BY <1>2, <1>3 DEF SeverityScore

(* What the rules say of a target.                                           *)
RuleLike(e, target) ==
  /\ e.target = target /\ e.detector = "rules"
  /\ e.severity = "warning" => e.score >= Points(30)
  /\ e.type = "weather_grid_mismatch" =>
       e = RuleEvent(target, e.hour, "weather_grid_mismatch", 45, "warning")

LEMMA RuleEventLike ==
  ASSUME NEW target, NEW hour, NEW type, NEW points \in 30 .. 100, NEW severity,
         type = "weather_grid_mismatch" => points = 45 /\ severity = "warning"
  PROVE  RuleLike(RuleEvent(target, hour, type, points, severity), target)
<1> DEFINE e == RuleEvent(target, hour, type, points, severity)
<1>1. /\ e.target = target /\ e.hour = hour /\ e.detector = "rules" /\ e.type = type
      /\ e.score = Clip(Points(points), 0, Points(100))
  BY EventFields DEF RuleEvent
<1>2. Clip(Points(points), 0, Points(100)) >= Points(30)
  BY DEF Clip, Least, Most, Points
<1> QED BY <1>1, <1>2 DEF RuleLike

LEMMA ChangeLike ==
  ASSUME NEW target, NEW hour, NEW type, type # "weather_grid_mismatch"
  PROVE  RuleLike(ChangeEvent(target, hour, type), target)
<1> DEFINE score == SeverityScore(Points(100), 1, 1)
<1>1. score \in Int
  BY ScoreIsInt DEF Points
<1> HIDE DEF score
<1>2. ChangeEvent(target, hour, type) = Event(target, hour, "rules", type, score, SeverityOf(score))
  BY DEF ChangeEvent, score
<1> QED BY <1>1, <1>2, EventFields, Clipped DEF RuleLike

-----------------------------------------------------------------------------
(* The scan for solar drops, as the recursion in SolarDrops.                 *)
Scan(s, sky0, last, f, h) ==
  IF h > last THEN {}
  ELSE IF ~DropStarts(s, sky0, h) THEN f[h + 1]
  ELSE LET end == DropEnd(s, sky0, h)
       IN  {[first |-> h, hours |-> end - h + 1]} \cup f[end + 1]

Scanned(s, sky0, first, last, f) ==
  f = [h \in first .. last + 1 |-> Scan(s, sky0, last, f, h)]

LEMMA DropEnds ==
  ASSUME NEW s, HourSet(DOMAIN s), NEW sky0, NEW h \in Int, h <= Max(DOMAIN s)
  PROVE  DropEnd(s, sky0, h) \in h .. Max(DOMAIN s)
<1> DEFINE E == {e \in h .. Max(DOMAIN s) :
                   \A g \in h + 1 .. e : g \in DOMAIN s /\ BelowExpected(s, sky0, g, s[h - 1])}
<1>1. Max(DOMAIN s) \in Int
  BY Extremes DEF HourSet
<1>2. h \in E
  BY <1>1
<1>3. E \subseteq h .. Max(DOMAIN s)
  OBVIOUS
<1>4. DropEnd(s, sky0, h) = Max(E)
  BY DEF DropEnd
<1> HIDE DEF E
<1>5. HourSet(E)
  <2>1. IsFiniteSet(h .. Max(DOMAIN s))
    BY <1>1, FS_Interval
  <2>2. IsFiniteSet(E)
    BY <1>3, <2>1, FS_Subset
  <2> QED BY <1>1, <1>2, <1>3, <2>2 DEF HourSet
<1>6. Max(E) \in E
  BY <1>5, Extremes
<1> QED BY <1>3, <1>4, <1>6

LEMMA ScanExists ==
  ASSUME NEW s, HourSet(DOMAIN s), NEW sky0, NEW first \in Int, first <= Max(DOMAIN s) + 1
  PROVE  \E f : Scanned(s, sky0, first, Max(DOMAIN s), f)
<1>0. PICK last \in Int : last = Max(DOMAIN s)
  BY Extremes DEF HourSet
<1> DEFINE S == {k \in Nat : \E f : Scanned(s, sky0, last + 1 - k, last, f)}
<1>1. 0 \in S
  <2> DEFINE f == [h \in last + 1 - 0 .. last + 1 |-> {}]
  <2>1. \A h \in last + 1 - 0 .. last + 1 : Scan(s, sky0, last, f, h) = {}
    BY DEF Scan
  <2>2. f = [h \in last + 1 - 0 .. last + 1 |-> Scan(s, sky0, last, f, h)]
    BY <2>1
  <2>3. Scanned(s, sky0, last + 1 - 0, last, f)
    BY <2>2 DEF Scanned
  <2> QED BY <2>3
<1>2. ASSUME NEW k \in Nat, k \in S PROVE k + 1 \in S
  <2>1. PICK f : Scanned(s, sky0, last + 1 - k, last, f)
    BY <1>2
  <2> DEFINE new == last - k
             old == last + 1 - k .. last + 1
             all == last + 1 - (k + 1) .. last + 1
             g == [h \in all |-> IF h = new THEN Scan(s, sky0, last, f, h) ELSE f[h]]
  <2>2. all = old \cup {new} /\ new \notin old /\ new \in Int /\ new <= last
    OBVIOUS
  <2>3. \A h \in old : g[h] = f[h] /\ f[h] = Scan(s, sky0, last, f, h)
    BY <2>1, <2>2 DEF Scanned
  <2>4. ASSUME NEW h \in all
        PROVE  Scan(s, sky0, last, g, h) = Scan(s, sky0, last, f, h)
    <3>1. CASE h > last
      BY <3>1 DEF Scan
    <3>2. CASE ~(h > last)
      <4>1. h \in Int /\ h <= last
        BY <3>2
      <4>2. DropEnd(s, sky0, h) \in h .. last
        BY <1>0, <4>1, DropEnds
      <4>3. PICK e \in h .. last : e = DropEnd(s, sky0, h)
        BY <4>2
      <4>4. h + 1 \in old /\ e + 1 \in old
        BY <4>1, <4>3
      <4>5. g[h + 1] = f[h + 1] /\ g[e + 1] = f[e + 1]
        BY <2>3, <4>4
      <4> HIDE DEF g
      <4> QED BY <4>3, <4>5 DEF Scan
    <3> QED BY <3>1, <3>2
  <2>5. ASSUME NEW h \in all PROVE g[h] = Scan(s, sky0, last, g, h)
    <3>1. CASE h = new
      BY <2>4, <3>1
    <3>2. CASE h # new
      BY <2>2, <2>3, <2>4, <3>2
    <3> QED BY <3>1, <3>2
  <2>6. g = [h \in all |-> g[h]]
    OBVIOUS
  <2>7. g = [h \in all |-> Scan(s, sky0, last, g, h)]
    <3> HIDE DEF g, all
    <3> QED BY <2>5, <2>6
  <2>8. Scanned(s, sky0, last + 1 - (k + 1), last, g)
    <3> HIDE DEF g
    <3> QED BY <2>7 DEF Scanned
  <2> QED BY <2>8
<1>3. \A k \in Nat : k \in S
  <2> HIDE DEF S
  <2> QED BY <1>1, <1>2, InductionOverNat
<1>4. PICK k \in Nat : k = last + 1 - first /\ last + 1 - k = first
  BY <1>0
<1>5. \E f : Scanned(s, sky0, last + 1 - k, last, f)
  BY <1>3
<1> QED BY <1>0, <1>4, <1>5

(* A drop begins where its hour says, and lasts.                             *)
IsDrop(s, sky0, drop) == DropStarts(s, sky0, drop.first) /\ drop.hours \in Nat \ {0}

LEMMA ScanFindsDrops ==
  ASSUME NEW s, HourSet(DOMAIN s), NEW sky0, NEW first \in Int,
         NEW f, Scanned(s, sky0, first, Max(DOMAIN s), f)
  PROVE  \A h \in first .. Max(DOMAIN s) + 1 : \A drop \in f[h] : IsDrop(s, sky0, drop)
<1>0. PICK last \in Int : last = Max(DOMAIN s)
  BY Extremes DEF HourSet
<1> DEFINE Good(h) == \A drop \in f[h] : IsDrop(s, sky0, drop)
           S == {k \in Nat : \A h \in first .. last + 1 : h >= last + 1 - k => Good(h)}
<1>1. \A h \in first .. last + 1 : f[h] = Scan(s, sky0, last, f, h)
  BY <1>0 DEF Scanned
<1>2. 0 \in S
  <2> SUFFICES ASSUME NEW h \in first .. last + 1, h >= last + 1 - 0 PROVE Good(h)
    OBVIOUS
  <2>1. h > last
    BY <1>0
  <2> QED BY <1>1, <2>1 DEF Scan
<1>3. ASSUME NEW k \in Nat, k \in S PROVE k + 1 \in S
  <2> SUFFICES ASSUME NEW h \in first .. last + 1, h >= last + 1 - (k + 1) PROVE Good(h)
    OBVIOUS
  <2>0. \A g \in first .. last + 1 : g >= last + 1 - k => Good(g)
    BY <1>3
  <2> HIDE DEF Good, S
  <2>1. CASE h > last
    BY <1>1, <2>1 DEF Scan, Good
  <2>2. CASE ~(h > last) /\ ~DropStarts(s, sky0, h)
    <3>1. h + 1 \in first .. last + 1 /\ h + 1 >= last + 1 - k
      BY <2>2
    <3>2. f[h] = f[h + 1]
      BY <1>1, <2>2 DEF Scan
    <3> QED BY <2>0, <3>1, <3>2 DEF Good
  <2>3. CASE ~(h > last) /\ DropStarts(s, sky0, h)
    <3>1. h \in Int /\ h <= last
      BY <2>3
    <3>2. DropEnd(s, sky0, h) \in h .. last
      BY <1>0, <3>1, DropEnds
    <3>3. PICK e \in h .. last : e = DropEnd(s, sky0, h)
      BY <3>2
    <3>4. e + 1 \in first .. last + 1 /\ e + 1 >= last + 1 - k
      BY <3>1, <3>3
    <3>5. f[h] = {[first |-> h, hours |-> e - h + 1]} \cup f[e + 1]
      BY <1>1, <2>3, <3>3 DEF Scan
    <3>6. e - h + 1 \in Nat \ {0}
      BY <3>1, <3>3
    <3>7. Good(e + 1)
      BY <2>0, <3>4
    <3> QED BY <2>3, <3>5, <3>6, <3>7 DEF Good, IsDrop
  <2> QED BY <2>1, <2>2, <2>3
<1>4. \A k \in Nat : k \in S
  <2> HIDE DEF S
  <2> QED BY <1>2, <1>3, InductionOverNat
<1>5. ASSUME NEW h \in first .. last + 1 PROVE Good(h)
  <2>1. PICK k \in Nat : k = last + 1 - h /\ h >= last + 1 - k
    BY <1>0
  <2> QED BY <1>4, <2>1
<1> QED BY <1>0, <1>5

LEMMA SolarDropsStart ==
  ASSUME NEW s, HourSet(DOMAIN s), NEW sky0
  PROVE  \A drop \in SolarDrops(s, sky0) : IsDrop(s, sky0, drop)
<1> DEFINE first == Min(DOMAIN s)
           last == Max(DOMAIN s)
           F == CHOOSE f : f = [h \in first .. last + 1 |-> Scan(s, sky0, last, f, h)]
<1>1. first \in Int /\ last \in Int /\ first <= last
  BY Extremes DEF HourSet
<1>2. Scanned(s, sky0, first, last, F)
  <2>1. \E f : Scanned(s, sky0, first, last, f)
    BY <1>1, ScanExists
  <2> QED BY <2>1 DEF Scanned
<1>3. SolarDrops(s, sky0) = F[first]
  BY DEF SolarDrops, Scan
<1>4. first \in first .. last + 1
  BY <1>1
<1> HIDE DEF F, first
<1> QED BY <1>1, <1>2, <1>3, <1>4, ScanFindsDrops

LEMMA RuleEventsLike ==
  ASSUME NEW rows, NEW target, NEW sky0, NEW covered, NEW now,
         SeriesOK(Series(rows)), HourSet(DOMAIN Series(rows))
  PROVE  \A e \in RuleEvents(rows, target, sky0, covered, now) : RuleLike(e, target)
<1> DEFINE s == Series(rows)
           Like(batch) == \A e \in batch : RuleLike(e, target)
<1> HIDE DEF s
<1>0. ASSUME NEW hour, NEW type, NEW points \in {40, 45, 50, 55, 75, 80, 90}, NEW severity,
             type = "weather_grid_mismatch" => points = 45 /\ severity = "warning"
      PROVE  RuleLike(RuleEvent(target, hour, type, points, severity), target)
  <2>1. points \in 30 .. 100
    OBVIOUS
  <2> QED BY <1>0, <2>1, RuleEventLike
<1>1. Like(OrderingEvents(rows, target))
  <2>1. ASSUME NEW i \in DOMAIN rows
        PROVE  RuleLike(RuleEvent(target, rows[i].hour, "duplicate_timestamp", 75, "critical"), target)
    BY <1>0
  <2>2. ASSUME NEW i \in DOMAIN rows
        PROVE  RuleLike([RuleEvent(target, rows[i].hour, "non_monotonic_timestamp", 55, "warning")
                           EXCEPT !.row = i], target)
    <3> DEFINE e == RuleEvent(target, rows[i].hour, "non_monotonic_timestamp", 55, "warning")
               f == [e EXCEPT !.row = i]
    <3>1. RuleLike(e, target)
      BY <1>0
    <3>0. e.type = "non_monotonic_timestamp"
      BY EventFields DEF RuleEvent
    <3>2. /\ f.target = e.target /\ f.detector = e.detector /\ f.severity = e.severity
          /\ f.score = e.score /\ f.type = e.type
      BY DEF RuleEvent, Event
    <3> HIDE DEF e, f
    <3>3. RuleLike(f, target)
      BY <3>0, <3>1, <3>2 DEF RuleLike
    <3> QED BY <3>3 DEF f, e
  <2> QED BY <2>1, <2>2 DEF OrderingEvents
<1>2. Like(FrequencyEvents(s, target))
  BY <1>0 DEF FrequencyEvents
<1>3. Like(MissingEvents(s, target))
  BY <1>0 DEF MissingEvents
<1>4. Like(InvalidEvents(s, target))
  BY <1>0 DEF InvalidEvents
<1>5. Like(WeatherRangeEvents(s, target, sky0))
  BY <1>0 DEF WeatherRangeEvents
<1>6. Like(StaleEvents(s, target, now))
  BY <1>0 DEF StaleEvents
<1>7. Like(ChangeEvents(s, target))
  BY ChangeLike DEF ChangeEvents
<1>8. Like(SolarDropEvents(s, target, sky0))
  <2> SUFFICES ASSUME NEW drop \in SolarDrops(s, sky0)
               PROVE  RuleLike(SolarDropEvent(s, target, drop.first, drop.hours), target)
    BY DEF SolarDropEvents
  <2> DEFINE h == drop.first
             n == (Points(100) * (s[h - 1] - s[h])) \div s[h - 1]
             score == SeverityScore(n, drop.hours, 1)
  <2>1. DropStarts(s, sky0, h) /\ drop.hours \in Int
    <3>1. IsDrop(s, sky0, drop)
      BY SolarDropsStart DEF s
    <3> QED BY <3>1 DEF IsDrop
  <2>2. /\ h \in DOMAIN s /\ h - 1 \in DOMAIN s /\ s[h - 1] # NaN /\ s[h] # NaN
        /\ s[h - 1] >= Rules.solarExpected
    BY <2>1 DEF DropStarts, Consecutive
  <2>3. s[h - 1] \in Int /\ s[h] \in Int
    BY <2>2 DEF SeriesOK, Numbers, s
  <2>4. s[h - 1] > 0
    BY <2>2, <2>3, RulesAssumption
  <2>5. n \in Int
    BY <2>3, <2>4 DEF Points
  <2> HIDE DEF n
  <2>6. score \in Int
    <3>1. PICK hours \in Int : hours = drop.hours
      BY <2>1
    <3>2. SeverityScore(n, hours, 1) \in Int
      BY <2>5, ScoreIsInt
    <3> QED BY <3>1, <3>2
  <2> HIDE DEF score
  <2>7. SolarDropEvent(s, target, h, drop.hours)
          = Event(target, h, "rules", "renewable_drop", score, SeverityOf(score))
    BY DEF SolarDropEvent, score, n
  <2> QED BY <2>6, <2>7, EventFields, Clipped DEF RuleLike
<1>9. Like(FlatlineEvents(s, target, sky0))
  BY <1>0 DEF FlatlineEvents
<1>10. Like(CoverageEvents(DOMAIN s, DOMAIN sky0, target, "weather_grid_mismatch"))
  BY <1>0 DEF CoverageEvents
<1>11. Like(IF covered # NaN /\ target = "demand_mw"
            THEN CoverageEvents(DOMAIN s, covered, target, "coverage_mismatch") ELSE {})
  BY <1>0 DEF CoverageEvents
<1> QED BY <1>1, <1>2, <1>3, <1>4, <1>5, <1>6, <1>7, <1>8, <1>9, <1>10, <1>11 DEF RuleEvents, s

(* Rows in the order of their hours are the series they come from.           *)
LEMMA SeriesOfRows ==
  ASSUME NEW s, SeriesOK(s)
  PROVE  /\ DOMAIN Series(RowsOf(s)) = DOMAIN s
         /\ \A h \in DOMAIN s : Series(RowsOf(s))[h] = s[h]
<1> DEFINE hours == Hourly(DOMAIN s)
           rows == RowsOf(s)
<1>1. /\ \A n \in DOMAIN hours : hours[n] \in DOMAIN s
      /\ \A x \in DOMAIN s : \E n \in DOMAIN hours : hours[n] = x
      /\ \A m, n \in DOMAIN hours : m < n => hours[m] < hours[n]
      /\ DOMAIN hours = 1 .. Cardinality(DOMAIN s) /\ Cardinality(DOMAIN s) \in Nat
  BY HourlyOrders DEF SeriesOK
<1>2. rows = [n \in DOMAIN hours |-> [hour |-> hours[n], value |-> s[hours[n]]]]
  BY DEF RowsOf
<1> HIDE DEF hours, rows
<1>3. DOMAIN rows = DOMAIN hours /\ \A n \in DOMAIN hours : rows[n].hour = hours[n] /\ rows[n].value = s[hours[n]]
  BY <1>2
<1>4. {rows[i].hour : i \in DOMAIN rows} = DOMAIN s
  <2>1. {rows[i].hour : i \in DOMAIN rows} \subseteq DOMAIN s
    BY <1>1, <1>3
  <2>2. ASSUME NEW x \in DOMAIN s PROVE \E i \in DOMAIN rows : rows[i].hour = x
    BY <1>1, <1>3
  <2> QED BY <2>1, <2>2
<1>5. ASSUME NEW h \in DOMAIN s
      PROVE  rows[Max({i \in DOMAIN rows : rows[i].hour = h})].value = s[h]
  <2>1. PICK n \in DOMAIN rows : rows[n].hour = h
    BY <1>1, <1>3
  <2>2. ASSUME NEW i \in DOMAIN rows, rows[i].hour = h PROVE i = n
    <3>1. hours[i] = hours[n] /\ i \in Int /\ n \in Int /\ hours[n] \in Int
      BY <1>1, <1>3, <2>1, <2>2 DEF SeriesOK
    <3> QED BY <1>1, <1>3, <3>1
  <2>3. {i \in DOMAIN rows : rows[i].hour = h} = {n}
    BY <2>1, <2>2
  <2>4. n \in Int
    BY <1>1, <1>3
  <2>5. HourSet({n})
    BY <2>4, FS_Singleton DEF HourSet
  <2>6. Max({n}) = n
    BY <2>5, Extremes
  <2>7. rows[n].value = s[h]
    BY <1>3, <2>1
  <2> QED BY <2>3, <2>6, <2>7
<1> QED BY <1>4, <1>5 DEF Series, rows

(* What a detector may report of a target: only rules and residuals are      *)
(* critical, and a warning has the score of one, of isolation forest a       *)
(* higher one.                                                               *)
Fine(e) ==
  /\ e.type \in AnomalyTypes /\ e.severity \in Severities /\ e.score \in Scores
  /\ \/ e.detector \in {"rules", "residual"} /\ (e.severity = "warning" => e.score >= Points(30))
     \/ /\ e.detector = "isolation_forest" /\ e.severity # "critical"
        /\ e.severity = "warning" => e.score >= Points(50)

Unique(batch) == \A e, f \in batch : Id(e) = Id(f) => e = f

(* A batch of one detector for one target.                                   *)
Of(batch, target, detector) ==
  /\ Unique(batch)
  /\ \A e \in batch : Fine(e) /\ e.target = target /\ e.detector = detector

LEMMA KnownTypes ==
  /\ "weather_grid_mismatch" \in AnomalyTypes /\ "multivariate_outlier" \in AnomalyTypes
  /\ ResidualTypes \subseteq AnomalyTypes
<1>1. RuleTypes[11] = "weather_grid_mismatch" /\ 11 \in DOMAIN RuleTypes
  BY DEF RuleTypes
<1>2. "weather_grid_mismatch" \in {RuleTypes[n] : n \in DOMAIN RuleTypes}
  BY <1>1
<1> QED BY <1>2 DEF AnomalyTypes

LEMMA RulesReport ==
  ASSUME SeriesOK(Evaluation), HourSet(DOMAIN Evaluation), NEW read, ValidBatch(RulesPart(read))
  PROVE  Of(RulesPart(read) \cup ForecastPart(read), Target, "rules")
<1> DEFINE s == Series(RowsOf(Evaluation))
           mismatch(h) == RuleEvent(Target, h, "weather_grid_mismatch", 45, "warning")
<1>1. DOMAIN s = DOMAIN Evaluation /\ \A h \in DOMAIN Evaluation : s[h] = Evaluation[h]
  BY SeriesOfRows
<1>2. SeriesOK(s) /\ HourSet(DOMAIN s)
  BY <1>1 DEF SeriesOK
<1>3. \A e \in RulesPart(read) : RuleLike(e, Target)
  BY <1>2, RuleEventsLike DEF RulesPart
<1>4. \A e \in ForecastPart(read) : \E h : e = mismatch(h)
  BY DEF ForecastPart, ForecastCoverage, CoverageEvents
<1>5. \A h : /\ mismatch(h).hour = h /\ mismatch(h).target = Target /\ mismatch(h).detector = "rules"
             /\ mismatch(h).type = "weather_grid_mismatch" /\ mismatch(h).severity = "warning"
             /\ mismatch(h).score = Points(45)
  <2>1. Clip(Points(45), 0, Points(100)) = Points(45)
    BY DEF Clip, Least, Most, Points
  <2> QED BY <2>1, EventFields DEF RuleEvent
<1>6. Points(45) \in Scores /\ Points(45) >= Points(30)
  BY DEF Points, Scores
<1> HIDE DEF mismatch
<1>7. \A e \in ForecastPart(read) : Fine(e) /\ e.target = Target /\ e.detector = "rules"
  BY <1>4, <1>5, <1>6, KnownTypes DEF Fine, Severities
<1>8. \A e \in RulesPart(read) : Fine(e) /\ e.target = Target /\ e.detector = "rules"
  BY <1>3 DEF RuleLike, ValidBatch, Fine
<1>9. ASSUME NEW e \in RulesPart(read), NEW f \in ForecastPart(read), Id(e) = Id(f) PROVE e = f
  <2>1. PICK h : f = mismatch(h)
    BY <1>4
  <2>2. e.type = "weather_grid_mismatch" /\ e.hour = h
    BY <1>5, <1>9, <2>1 DEF Id
  <2>3. e = mismatch(h)
    BY <1>3, <2>2 DEF RuleLike, mismatch
  <2> QED BY <2>1, <2>3
<1>10. ASSUME NEW e \in ForecastPart(read), NEW f \in ForecastPart(read), Id(e) = Id(f) PROVE e = f
  <2>1. PICK g : e = mismatch(g)
    BY <1>4
  <2>2. PICK h : f = mismatch(h)
    BY <1>4
  <2> QED BY <1>5, <1>10, <2>1, <2>2 DEF Id
<1>11. Unique(RulesPart(read) \cup ForecastPart(read))
  <2>1. Unique(RulesPart(read))
    BY DEF Unique, ValidBatch
  <2> QED BY <1>9, <1>10, <2>1 DEF Unique
<1> QED BY <1>7, <1>8, <1>11 DEF Of

LEMMA AlignedHours ==
  ASSUME NEW s, SeriesOK(s), NEW target
  PROVE  /\ DOMAIN Align(s, forecasts, target) \subseteq DOMAIN s
         /\ DOMAIN Align(s, forecasts, target) \subseteq Int
         /\ IsFiniteSet(DOMAIN Align(s, forecasts, target))
<1>1. DOMAIN Align(s, forecasts, target) \subseteq DOMAIN s
  BY DEF Align
<1> QED BY <1>1, FS_Subset DEF SeriesOK

LEMMA ResidualReport ==
  ASSUME SeriesOK(run.source), NEW high
  PROVE  Of(ResidualPart(high), Target, "residual")
<1> DEFINE aligned == Align(run.source, forecasts, Target)
           hours == Hourly(DOMAIN aligned)
           r == Residuals(run.source, aligned)
           critical(n) == Critical(Prior(r, n), r[n])
           score(n) == IF critical(n) THEN Points(IF high THEN 100 ELSE 70) ELSE Points(IF high THEN 69 ELSE 30)
           severity(n) == IF critical(n) THEN "critical" ELSE "warning"
           report(n) == Event(Target, hours[n], "residual", ResidualType(Target, r[n]), score(n), severity(n))
<1>1. DOMAIN aligned \subseteq Int /\ IsFiniteSet(DOMAIN aligned)
  BY AlignedHours
<1>2. DOMAIN r = DOMAIN hours
  BY DEF Residuals
<1>3. \A e \in ResidualPart(high) : \E n \in DOMAIN hours : e = report(n)
  <2>1. \A n \in Flagged(r, hours, Target) : n \in DOMAIN hours
    BY <1>2 DEF Flagged
  <2> QED BY <2>1 DEF ResidualPart, InWindow, ResidualEvents
<1> HIDE DEF r, hours, critical
<1>4. /\ \A n \in DOMAIN hours : hours[n] \in Int
      /\ \A m, n \in DOMAIN hours : m < n => hours[m] < hours[n]
      /\ DOMAIN hours \subseteq Int
  <2>1. /\ \A n \in DOMAIN hours : hours[n] \in DOMAIN aligned
        /\ \A m, n \in DOMAIN hours : m < n => hours[m] < hours[n]
        /\ DOMAIN hours = 1 .. Cardinality(DOMAIN aligned)
    BY <1>1, HourlyOrders DEF hours
  <2> QED BY <1>1, <2>1
<1>5. \A n : /\ score(n) \in Scores /\ Clip(score(n), 0, Points(100)) = score(n)
             /\ severity(n) \in {"critical", "warning"}
             /\ score(n) >= Points(30)
  BY DEF Points, Scores, Clip, Least, Most
<1>6. \A value : ResidualType(Target, value) \in ResidualTypes
  BY DEF ResidualType, ResidualTypes
<1> HIDE DEF score, severity
<1>7. \A n : /\ report(n).hour = hours[n] /\ report(n).target = Target /\ report(n).detector = "residual"
             /\ report(n).type \in AnomalyTypes /\ report(n).severity = severity(n)
             /\ report(n).score = score(n)
  BY <1>5, <1>6, EventFields, KnownTypes
<1> HIDE DEF report
<1>8. ASSUME NEW e \in ResidualPart(high) PROVE Fine(e) /\ e.target = Target /\ e.detector = "residual"
  <2>1. PICK n \in DOMAIN hours : e = report(n)
    BY <1>3
  <2> QED BY <1>5, <1>7, <2>1 DEF Fine, Severities
<1>9. ASSUME NEW e \in ResidualPart(high), NEW f \in ResidualPart(high), Id(e) = Id(f) PROVE e = f
  <2>1. PICK m \in DOMAIN hours : e = report(m)
    BY <1>3
  <2>2. PICK n \in DOMAIN hours : f = report(n)
    BY <1>3
  <2>3. hours[m] = hours[n]
    BY <1>7, <1>9, <2>1, <2>2 DEF Id
  <2>4. m = n
    BY <1>4, <2>3
  <2> QED BY <2>1, <2>2, <2>4
<1> QED BY <1>8, <1>9 DEF Of, Unique

LEMMA OutlierReport ==
  ASSUME NEW outliers, NEW points \in OutlierPoints
  PROVE  Of(OutlierEvents(outliers, Target, points), Target, "isolation_forest")
<1> DEFINE severity == IF points >= 50 THEN "warning" ELSE "info"
           report(h) == Event(Target, h, "isolation_forest", "multivariate_outlier", Points(points), severity)
<1>1. \A e \in OutlierEvents(outliers, Target, points) : \E h : e = report(h)
  BY DEF OutlierEvents
<1>2. /\ Clip(Points(points), 0, Points(100)) = Points(points) /\ Points(points) \in Scores
      /\ severity \in {"info", "warning"} /\ (severity = "warning" => Points(points) >= Points(50))
  BY DEF OutlierPoints, Points, Scores, Clip, Least, Most
<1> HIDE DEF severity
<1>3. \A h : /\ report(h).hour = h /\ report(h).target = Target /\ report(h).detector = "isolation_forest"
             /\ report(h).type = "multivariate_outlier" /\ report(h).severity = severity
             /\ report(h).score = Points(points)
  BY <1>2, EventFields
<1> HIDE DEF report
<1>4. \A e \in OutlierEvents(outliers, Target, points) :
        Fine(e) /\ e.target = Target /\ e.detector = "isolation_forest"
  BY <1>1, <1>2, <1>3, KnownTypes DEF Fine, Severities
<1>5. Unique(OutlierEvents(outliers, Target, points))
  BY <1>1, <1>3 DEF Unique, Id
<1> QED BY <1>4, <1>5 DEF Of

(* What the detectors that run report of a target.                           *)
LEMMA FoundReport ==
  ASSUME RunInv, run.step = "score", NEW read, NEW high, NEW outliers, NEW points,
         Scoring(read, high, outliers, points)
  PROVE  /\ Unique(Found(read, high, outliers, points))
         /\ \A e \in Found(read, high, outliers, points) : Fine(e) /\ e.target = Target
         /\ "rules" \in run.detectors =>
              RulesPart(read) \subseteq Found(read, high, outliers, points)
<1> DEFINE rules == RulesPart(read) \cup ForecastPart(read)
           residual == ResidualPart(high)
           isolated == OutlierEvents(outliers, Target, points)
<1>1. /\ run.detectors \subseteq AllDetectors
      /\ SeriesOK(run.source) /\ HourSet(DOMAIN Evaluation)
  BY DEF RunInv
<1>2. SeriesOK(Evaluation)
  BY <1>1, BetweenOK DEF Evaluation
<1>3. ("rules" \in run.detectors => ValidBatch(RulesPart(read))) /\ points \in OutlierPoints
  BY <1>1 DEF Scoring, Raises
<1>4. "rules" \in run.detectors => Of(rules, Target, "rules")
  BY <1>1, <1>2, <1>3, RulesReport
<1>5. Of(residual, Target, "residual")
  BY <1>1, ResidualReport
<1>6. Of(isolated, Target, "isolation_forest")
  BY <1>3, OutlierReport
<1>7. /\ \A e \in Found(read, high, outliers, points) :
           (e \in rules /\ "rules" \in run.detectors) \/ e \in residual \/ e \in isolated
      /\ "rules" \in run.detectors => rules \subseteq Found(read, high, outliers, points)
  BY <1>1, FoundParts
<1>8. RulesPart(read) \subseteq rules
  OBVIOUS
<1> HIDE DEF rules, residual, isolated
<1>9. \A e, f : Id(e) = Id(f) => e.detector = f.detector
  BY DEF Id
<1> QED BY <1>4, <1>5, <1>6, <1>7, <1>8, <1>9 DEF Of, Unique

LEMMA UpsertUnique ==
  ASSUME NEW stored, NEW batch, Unique(stored), Unique(batch)
  PROVE  Unique(Upsert(stored, batch))
<1>1. \A e \in Upsert(stored, batch) : e \in batch \/ (e \in stored /\ Id(e) \notin Ids(batch))
  BY DEF Upsert
<1>2. \A e \in batch : Id(e) \in Ids(batch)
  BY DEF Ids
<1> HIDE DEF Id
<1> QED BY <1>1, <1>2 DEF Unique

-----------------------------------------------------------------------------
GroupOf(batch, target, hour) == {e \in batch : e.target = target /\ e.hour = hour}

(* The best score of a group is the score of one of its events.              *)
LEMMA TopScore ==
  ASSUME NEW group, group # {}, \A e \in group : Fine(e)
  PROVE  /\ Max({e.score : e \in group}) \in Scores
         /\ \A e \in group : e.score <= Max({f.score : f \in group})
<1> DEFINE S == {e.score : e \in group}
<1>1. S \subseteq Scores /\ S # {}
  BY DEF Fine
<1>2. Scores \subseteq Int /\ IsFiniteSet(Scores)
  <2>1. PICK most \in Nat : most = Points(100)
    BY DEF Points
  <2>2. IsFiniteSet(0 .. most) /\ 0 .. most \subseteq Int
    BY FS_Interval
  <2>3. Scores = 0 .. most
    BY <2>1 DEF Scores
  <2> QED BY <2>2, <2>3
<1>3. HourSet(S)
  <2>1. IsFiniteSet(S)
    BY <1>1, <1>2, FS_Subset
  <2> QED BY <1>1, <1>2, <2>1 DEF HourSet
<1>4. Max(S) \in S /\ \A x \in S : x <= Max(S)
  BY <1>3, Extremes
<1>5. \A e \in group : e.score \in S
  OBVIOUS
<1> HIDE DEF S
<1>6. Max(S) \in Scores /\ \A e \in group : e.score <= Max(S)
  BY <1>1, <1>4, <1>5
<1> QED BY <1>6 DEF S

(* A group has one to three detectors.                                       *)
LEMMA DetectorCount ==
  ASSUME NEW group, group # {}, \A e \in group : Fine(e)
  PROVE  Cardinality({e.detector : e \in group}) \in 1 .. 3
<1> DEFINE D == {e.detector : e \in group}
<1>1. D \subseteq AllDetectors /\ D # {}
  BY DEF Fine, AllDetectors
<1>2. IsFiniteSet(AllDetectors) /\ Cardinality(AllDetectors) <= 3
  <2>1. AllDetectors = (({"rules"} \cup {"residual"}) \cup {"isolation_forest"})
    BY DEF AllDetectors
  <2>2. IsFiniteSet({"rules"}) /\ Cardinality({"rules"}) = 1
    BY FS_Singleton
  <2>3. /\ IsFiniteSet({"rules"} \cup {"residual"})
        /\ Cardinality({"rules"} \cup {"residual"}) \in {1, 2}
    BY <2>2, FS_AddElement
  <2>4. /\ IsFiniteSet(({"rules"} \cup {"residual"}) \cup {"isolation_forest"})
        /\ Cardinality(({"rules"} \cup {"residual"}) \cup {"isolation_forest"}) \in {1, 2, 3}
    BY <2>3, FS_AddElement
  <2> QED BY <2>1, <2>4
<1>3. IsFiniteSet(D) /\ Cardinality(D) <= Cardinality(AllDetectors) /\ Cardinality(AllDetectors) \in Nat
  BY <1>1, <1>2, FS_Subset, FS_CardinalityType
<1>4. Cardinality(D) \in Nat /\ Cardinality(D) # 0
  BY <1>1, <1>3, FS_CardinalityType, FS_EmptySet
<1> HIDE DEF D
<1>5. Cardinality(D) \in 1 .. 3
  BY <1>2, <1>3, <1>4
<1> QED BY <1>5 DEF D

(* Of a score of a warning the vote makes no less than a warning.            *)
LEMMA VotesScore ==
  ASSUME NEW top \in Scores, NEW n \in 1 .. 3
  PROVE  /\ SeverityScore(top, 1, n) \in Int /\ SeverityScore(top, 1, n) >= 0
         /\ top >= Points(30) => SeverityOf(SeverityScore(top, 1, n)) \in {"warning", "critical"}
<1> DEFINE score == SeverityScore(top, 1, n)
<1>1. Clip(top, 0, Points(100)) = top /\ Clip(1, 1, 6) = 1 /\ Clip(n, 1, 3) = n
  BY DEF Clip, Least, Most, Scores, Points
<1>2. score = (9 * top) \div 20 + 300 * 1 + 800 * n + 800 + Points(1)
  BY <1>1 DEF SeverityScore
<1>3. top \in 0 .. 12000 /\ Points(1) = 120 /\ Points(30) = 3600 /\ Points(70) = 8400
  BY DEF Scores, Points
<1>4. PICK part \in Int : /\ part = (9 * top) \div 20 /\ part >= 0
                          /\ top >= 3600 => part >= 1620
  BY <1>3
<1>5. score = part + 300 + 800 * n + 920
  BY <1>2, <1>3, <1>4
<1> HIDE DEF score
<1>6. score \in Int /\ score >= 0
  BY <1>4, <1>5
<1>7. top >= Points(30) => score >= 3600
  BY <1>3, <1>4, <1>5
<1>8. top >= Points(30) => SeverityOf(score) \in {"warning", "critical"}
  BY <1>3, <1>6, <1>7 DEF SeverityOf
<1> QED BY <1>6, <1>8 DEF score

(* The decision on a group is a severity no milder than any of its events.   *)
LEMMA Decides ==
  ASSUME NEW group, group # {}, \A e \in group : Fine(e)
  PROVE  /\ Decision(group).severity \in Severities
         /\ \A e \in group : Rank[Decision(group).severity] >= Rank[e.severity]
<1> DEFINE top == Max({e.score : e \in group})
           n == Cardinality({e.detector : e \in group})
           score == SeverityScore(top, 1, n)
<1>1. top \in Scores /\ \A e \in group : e.score <= top
  BY TopScore
<1>2. n \in 1 .. 3
  BY DetectorCount
<1> HIDE DEF top, n
<1>3. score \in Int /\ (top >= Points(30) => SeverityOf(score) \in {"warning", "critical"})
  BY <1>1, <1>2, VotesScore
<1> HIDE DEF score
<1>4. SeverityOf(score) \in Severities
  BY <1>3, Clipped
<1>5. /\ Overrides(group) => Vote(group).severity = "critical"
      /\ Vote(group).severity \in Severities
      /\ SeverityOf(score) \in {"warning", "critical"} => Vote(group).severity \in {"warning", "critical"}
  BY <1>4 DEF Vote, top, n, score, Severities
<1>6. Points(30) = 3600 /\ Points(50) = 6000 /\ top \in Int
  BY <1>1 DEF Points, Scores
<1>7. \A e \in group : /\ e.severity \in Severities /\ e.score \in Int
                       /\ e.severity = "warning" => e.score >= 3600
  BY <1>6 DEF Fine, Scores
<1>8. ASSUME NEW e \in group, e.severity = "warning" PROVE top >= 3600
  BY <1>1, <1>6, <1>7, <1>8
<1>9. CASE {e.detector : e \in group} # {"isolation_forest"}
  <2>1. Decision(group) = Vote(group)
    BY <1>9 DEF Decision
  <2>2. ASSUME NEW e \in group, e.severity = "critical" PROVE Overrides(group)
    BY <2>2 DEF Fine, Overrides
  <2>3. ASSUME NEW e \in group, e.severity = "warning" PROVE Vote(group).severity \in {"warning", "critical"}
    BY <1>3, <1>5, <1>6, <1>8, <2>3
  <2> QED BY <1>5, <1>7, <2>1, <2>2, <2>3 DEF Severities, Rank
<1>10. CASE {e.detector : e \in group} = {"isolation_forest"}
  <2>1. \A e \in group : e.detector = "isolation_forest"
    BY <1>10
  <2>2. Decision(group).severity = IF top >= Points(50) THEN "warning" ELSE "info"
    BY <1>10 DEF Decision, top
  <2>3. ASSUME NEW e \in group, e.severity = "warning" PROVE top >= Points(50)
    <3>1. e.score >= Points(50)
      BY <2>1, <2>3 DEF Fine
    <3> QED BY <1>1, <1>6, <1>7, <3>1
  <2>4. \A e \in group : e.severity # "critical"
    BY <2>1 DEF Fine
  <2> QED BY <1>7, <2>2, <2>3, <2>4 DEF Severities, Rank
<1> QED BY <1>9, <1>10

LEMMA EnsembleFields ==
  ASSUME NEW group
  PROVE  LET a == EnsembleOf(group)
             first == CHOOSE e \in group : TRUE
         IN  /\ a.target = first.target /\ a.hour = first.hour /\ a.detector = "ensemble"
             /\ a.severity = Decision(group).severity
  BY DEF EnsembleOf, Event

(* One ensemble event for each instant, as severe as the reports of it.      *)
LEMMA Combines ==
  ASSUME NEW batch, \A e \in batch : Fine(e)
  PROVE  /\ \A a \in Combine(batch) : a.detector = "ensemble" /\ a.severity \in Severities
         /\ \A a, b \in Combine(batch) : a.target = b.target /\ a.hour = b.hour => a = b
         /\ \A e \in batch : \E a \in Combine(batch) :
              a.target = e.target /\ a.hour = e.hour /\ Rank[a.severity] >= Rank[e.severity]
<1> DEFINE ensemble(t, h) == EnsembleOf(GroupOf(batch, t, h))
<1>1. Combine(batch) = {ensemble(key[1], key[2]) : key \in {<<e.target, e.hour>> : e \in batch}}
  BY DEF Combine, GroupOf
<1>2. ASSUME NEW e \in batch
      PROVE  LET a == ensemble(e.target, e.hour)
             IN  /\ a \in Combine(batch)
                 /\ a.target = e.target /\ a.hour = e.hour /\ a.detector = "ensemble"
                 /\ a.severity \in Severities /\ Rank[a.severity] >= Rank[e.severity]
  <2> DEFINE group == GroupOf(batch, e.target, e.hour)
             a == EnsembleOf(group)
             first == CHOOSE f \in group : TRUE
  <2>1. e \in group /\ \A f \in group : Fine(f) /\ f.target = e.target /\ f.hour = e.hour
    BY DEF GroupOf
  <2>2. a \in Combine(batch)
    <3>1. <<e.target, e.hour>> \in {<<f.target, f.hour>> : f \in batch}
      OBVIOUS
    <3>2. <<e.target, e.hour>>[1] = e.target /\ <<e.target, e.hour>>[2] = e.hour
      OBVIOUS
    <3> HIDE DEF ensemble
    <3>3. ensemble(e.target, e.hour) \in Combine(batch)
      BY <1>1, <3>1, <3>2
    <3> QED BY <3>3 DEF ensemble
  <2> HIDE DEF group
  <2>3. first \in group
    BY <2>1
  <2>4. /\ a.target = first.target /\ a.hour = first.hour /\ a.detector = "ensemble"
        /\ a.severity = Decision(group).severity
    BY EnsembleFields
  <2>5. Decision(group).severity \in Severities /\ Rank[Decision(group).severity] >= Rank[e.severity]
    BY <2>1, Decides
  <2> HIDE DEF a, first
  <2>6. /\ a \in Combine(batch)
        /\ a.target = e.target /\ a.hour = e.hour /\ a.detector = "ensemble"
        /\ a.severity \in Severities /\ Rank[a.severity] >= Rank[e.severity]
    BY <2>1, <2>2, <2>3, <2>4, <2>5
  <2> QED BY <2>6 DEF a, group
<1>3. \A a \in Combine(batch) : \E e \in batch : a = ensemble(e.target, e.hour)
  <2> SUFFICES ASSUME NEW key \in {<<e.target, e.hour>> : e \in batch}
               PROVE  \E e \in batch : ensemble(key[1], key[2]) = ensemble(e.target, e.hour)
    BY <1>1
  <2>1. PICK e \in batch : key = <<e.target, e.hour>>
    OBVIOUS
  <2>2. key[1] = e.target /\ key[2] = e.hour
    BY <2>1
  <2> QED BY <2>2
<1> HIDE DEF ensemble
<1> QED BY <1>2, <1>3

(* The gaps of a target that was scored are among the reports, an ensemble   *)
(* is stored before it is handed to the alerts, and what was handed over     *)
(* stays stored under its id.                                                *)
ReportsInv ==
  /\ Unique(run.batch) /\ \A e \in run.batch : Fine(e)
  /\ \A t \in AllTargets : run.seen[t] # << >> =>
       /\ SeriesOK(run.seen[t]) /\ HourSet(DOMAIN run.seen[t])
       /\ "rules" \in run.detectors => MissingEvents(run.seen[t], t) \subseteq run.batch
  /\ run.step \in {"alert", "report"} => Combine(run.batch) \subseteq events
  /\ run.step = "report" => Ids(Combine(run.batch)) \subseteq alerted
  /\ Unique(events) /\ \A e \in events : e.detector # "ensemble" => Fine(e)
  /\ alerted \subseteq Ids(events)

LEMMA MissingOf ==
  ASSUME NEW s, NEW target
  PROVE  \A e \in MissingEvents(s, target) : e.target = target
  BY EventFields DEF MissingEvents, RuleEvent

(* The gaps of the rows in the window are reported.                          *)
LEMMA GapsFound ==
  ASSUME SeriesOK(Evaluation), NEW read
  PROVE  MissingEvents(Evaluation, Target) \subseteq RulesPart(read)
<1> DEFINE s == Series(RowsOf(Evaluation))
<1>1. DOMAIN s = DOMAIN Evaluation
  BY SeriesOfRows
<1>2. MissingEvents(s, Target) \subseteq RulesPart(read)
  BY DEF RulesPart, RuleEvents
<1> HIDE DEF s
<1>3. \A h : GapSize(s, h) = GapSize(Evaluation, h)
  BY <1>1 DEF GapSize, Later, Earlier
<1>4. Absent(s) = Absent(Evaluation)
  BY <1>1 DEF Absent
<1>5. MissingEvents(s, Target) = MissingEvents(Evaluation, Target)
  BY <1>3, <1>4 DEF MissingEvents
<1> QED BY <1>2, <1>5

LEMMA ReportsNext ==
  ASSUME ReportsInv, RunInv, [Next]_vars
  PROVE  ReportsInv'
<1>1. ASSUME UNCHANGED <<run, events, alerted>> PROVE ReportsInv'
  BY <1>1 DEF ReportsInv
<1>2. ASSUME run'.batch = {}, run'.seen = [t \in AllTargets |-> << >>],
             run'.step \notin {"alert", "report"}, UNCHANGED <<events, alerted>>
      PROVE  ReportsInv'
  BY <1>2 DEF ReportsInv, Unique
<1>3. ASSUME UNCHANGED <<events, alerted>>, run'.batch = run.batch, run'.seen = run.seen,
             run'.detectors = run.detectors, run'.step \notin {"alert", "report"}
      PROVE  ReportsInv'
  BY <1>3 DEF ReportsInv
<1>4. ASSUME BeginRun PROVE ReportsInv'
  <2>1. PICK w \in Windows, list \in TargetLists, d \in DetectorSets :
          run' = [Idle EXCEPT !.step = "load", !.window = w, !.detectors = d, !.todo = list]
    BY <1>4 DEF BeginRun
  <2>2. run'.step = "load" /\ run'.batch = {} /\ run'.seen = [t \in AllTargets |-> << >>]
    BY <2>1 DEF Idle
  <2> QED BY <1>2, <1>4, <2>2 DEF BeginRun
<1>5. ASSUME LoadTarget \/ AllScored PROVE ReportsInv'
  <2>1. /\ run'.batch = run.batch /\ run'.seen = run.seen /\ run'.step \in {"load", "score", "store"}
        /\ run'.detectors = run.detectors
        /\ UNCHANGED <<events, alerted>>
    BY <1>5 DEF LoadTarget, AllScored, RunInv, RunFields
  <2> QED BY <1>3, <2>1
<1>6. ASSUME ScoreTarget PROVE ReportsInv'
  <2>1. PICK read, high, outliers, points : Scoring(read, high, outliers, points)
    BY <1>6, ScoreBrings DEF RunInv
  <2> DEFINE found == Found(read, high, outliers, points)
  <2>2. /\ run.step = "score" /\ run.todo # << >> /\ HourSet(DOMAIN Evaluation)
        /\ UNCHANGED <<events, alerted>>
    BY <1>6 DEF ScoreTarget, RunInv
  <2>3. /\ Unique(found) /\ \A e \in found : Fine(e) /\ e.target = Target
        /\ "rules" \in run.detectors => RulesPart(read) \subseteq found
    BY <2>1, <2>2, FoundReport
  <2>4. SeriesOK(Evaluation)
    BY BetweenOK DEF RunInv, Evaluation
  <2>5. /\ run'.batch = Upsert(run.batch, found) /\ run'.step = "load"
        /\ run'.detectors = run.detectors
        /\ run'.seen = [run.seen EXCEPT ![Target] = Evaluation]
    BY <2>1 DEF Scoring
  <2>6. "rules" \in run.detectors => MissingEvents(Evaluation, Target) \subseteq found
    BY <2>3, <2>4, GapsFound
  <2> HIDE DEF found
  <2>7. Unique(run'.batch)
    BY <2>3, <2>5, UpsertUnique DEF ReportsInv
  <2>8. found \subseteq run'.batch /\ \A e \in run'.batch : Fine(e)
    BY <2>3, <2>5 DEF Upsert, ReportsInv
  <2>9. ASSUME NEW t \in AllTargets, run'.seen[t] # << >>
        PROVE  /\ SeriesOK(run'.seen[t]) /\ HourSet(DOMAIN run'.seen[t])
               /\ "rules" \in run.detectors => MissingEvents(run'.seen[t], t) \subseteq run'.batch
    <3>1. CASE t = Target
      <4>1. run'.seen[t] = Evaluation
        BY <2>5, <3>1 DEF RunInv
      <4> QED BY <2>2, <2>4, <2>6, <2>8, <3>1, <4>1
    <3>2. CASE t # Target
      <4>1. run'.seen[t] = run.seen[t]
        BY <2>5, <3>2 DEF RunInv
      <4>2. /\ SeriesOK(run.seen[t]) /\ HourSet(DOMAIN run.seen[t])
            /\ "rules" \in run.detectors => MissingEvents(run.seen[t], t) \subseteq run.batch
        BY <2>9, <4>1 DEF ReportsInv
      <4>3. ASSUME NEW m \in MissingEvents(run.seen[t], t), "rules" \in run.detectors
            PROVE  m \in run'.batch
        <5>1. m.target = t
          BY MissingOf
        <5>2. Id(m) \notin Ids(found)
          BY <2>3, <3>2, <5>1 DEF Ids, Id
        <5>3. m \in run.batch
          BY <4>2, <4>3
        <5> QED BY <2>5, <5>2, <5>3 DEF Upsert
      <4> QED BY <2>5, <4>1, <4>2, <4>3
    <3> QED BY <3>1, <3>2
  <2> QED BY <2>2, <2>5, <2>7, <2>8, <2>9 DEF ReportsInv
<1>7. ASSUME StoreEvents PROVE ReportsInv'
  <2> DEFINE batch == run.batch \cup Combine(run.batch)
  <2>1. events' = Upsert(events, batch) /\ UNCHANGED alerted
    BY <1>7 DEF StoreEvents
  <2>2. /\ run'.step = "alert" /\ run'.batch = run.batch /\ run'.seen = run.seen
        /\ run'.detectors = run.detectors
    BY <1>7 DEF StoreEvents, RunInv, RunFields
  <2>3. /\ \A a \in Combine(run.batch) : a.detector = "ensemble"
        /\ \A a, b \in Combine(run.batch) : a.target = b.target /\ a.hour = b.hour => a = b
    BY Combines DEF ReportsInv
  <2>4. \A e \in run.batch : Fine(e) /\ e.detector # "ensemble"
    BY DEF ReportsInv, Fine
  <2>5. Unique(batch)
    <3>1. \A e, f : Id(e) = Id(f) => e.target = f.target /\ e.hour = f.hour /\ e.detector = f.detector
      BY DEF Id
    <3> QED BY <2>3, <2>4, <3>1 DEF ReportsInv, Unique
  <2>6. Combine(run.batch) \subseteq events'
    BY <2>1 DEF Upsert
  <2>7. \A e \in events' : e \in events \/ e \in run.batch \/ e \in Combine(run.batch)
    BY <2>1 DEF Upsert
  <2>8. Ids(events) \subseteq Ids(events')
    BY <2>1, UpsertKeepsIds
  <2>9. Unique(events')
    BY <2>1, <2>5, UpsertUnique DEF ReportsInv
  <2> QED BY <2>1, <2>2, <2>3, <2>4, <2>6, <2>7, <2>8, <2>9 DEF ReportsInv
<1>8. ASSUME HandToAlerts PROVE ReportsInv'
  <2>1. /\ alerted' = alerted \cup Ids(Combine(run.batch)) /\ UNCHANGED events
        /\ run.step = "alert"
    BY <1>8 DEF HandToAlerts
  <2>2. /\ run'.step = "report" /\ run'.batch = run.batch /\ run'.seen = run.seen
        /\ run'.detectors = run.detectors
    BY <1>8 DEF HandToAlerts, RunInv, RunFields
  <2>3. Ids(Combine(run.batch)) \subseteq Ids(events)
    BY <2>1 DEF ReportsInv, Ids
  <2> QED BY <2>1, <2>2, <2>3 DEF ReportsInv
<1>9. ASSUME RunRaises \/ Report \/ Cut PROVE ReportsInv'
  <2>1. run' = Idle /\ UNCHANGED <<events, alerted>>
    BY <1>9 DEF RunRaises, Report, Cut
  <2>2. run'.batch = {} /\ run'.seen = [t \in AllTargets |-> << >>] /\ run'.step = "idle"
    BY <2>1, IdleOK
  <2> QED BY <1>2, <2>1, <2>2
<1>10. ASSUME Acquire \/ UNCHANGED vars PROVE UNCHANGED <<run, events, alerted>>
  BY <1>10 DEF Acquire, runVars, vars
<1> QED BY <1>1, <1>4, <1>5, <1>6, <1>7, <1>8, <1>9, <1>10 DEF Next, Detect, RunNext

-----------------------------------------------------------------------------
DetectionInv == FetchInv /\ TablesInv /\ RunInv /\ ReportsInv

LEMMA DetectionHolds == Spec => []DetectionInv
<1>1. Init => DetectionInv
  <2> SUFFICES ASSUME Init PROVE DetectionInv
    OBVIOUS
  <2>1. PICK start \in Starts :
          demand = start.demand /\ renewables = start.renewables /\ feed = start.feed
    BY DEF Init
  <2>2. FetchInv
    BY FetchInit
  <2>3. TablesInv
    BY <2>1, StartsAssumption DEF TablesInv, SeriesOK, GenerationOK, Numbers, Number
  <2>4. run = Idle /\ events = {} /\ alerted = {}
    BY DEF Init, RunInit
  <2>5. RunInv
    <3>1. << >> \in Seq(AllTargets)
      OBVIOUS
    <3> QED BY <2>4, <3>1, IdleOK, EmptySeries DEF RunInv, RunSteps
  <2>6. ReportsInv
    BY <2>4, IdleOK DEF ReportsInv, Unique
  <2> QED BY <2>2, <2>3, <2>5, <2>6 DEF DetectionInv
<1>2. DetectionInv /\ [Next]_vars => DetectionInv'
  BY FetchNext, TablesNext, RunNextOK, ReportsNext DEF DetectionInv
<1> QED BY <1>1, <1>2, PTL DEF Spec

(* Whatever each detector found of an instant, critical or mild, AlertManager  *)
(* is handed one event of it that is no milder (combine_detector_events).      *)
THEOREM ReportsReachAlerts == Spec => []AlertsCoverReports
<1>1. DetectionInv => AlertsCoverReports
  <2> SUFFICES ASSUME DetectionInv, run.step = "report", NEW e \in run.batch
               PROVE  \E a \in Combine(run.batch) :
                        /\ Id(a) \in alerted
                        /\ a.target = e.target /\ a.hour = e.hour
                        /\ Rank[a.severity] >= Rank[e.severity]
                        /\ \A b \in Combine(run.batch) : (b.target = e.target /\ b.hour = e.hour) => b = a
    BY DEF AlertsCoverReports
  <2>1. PICK a \in Combine(run.batch) :
          a.target = e.target /\ a.hour = e.hour /\ Rank[a.severity] >= Rank[e.severity]
    BY Combines DEF DetectionInv, ReportsInv
  <2>2. Id(a) \in alerted
    BY DEF DetectionInv, ReportsInv, Ids
  <2>3. \A b \in Combine(run.batch) : (b.target = e.target /\ b.hour = e.hour) => b = a
    BY <2>1, Combines DEF DetectionInv, ReportsInv
  <2> QED BY <2>1, <2>2, <2>3
<1> QED BY <1>1, DetectionHolds, PTL

(* However long the window, in whichever order its rows came and whatever else *)
(* is reported of the same hours: a run whose detectors include the rules      *)
(* stores and tells each missing hour, as a                                    *)
(* critical event throughout a long gap (_gap_size, _region_events).           *)
THEOREM GapsAreTold == Spec => []GapsReported
<1>1. ASSUME DetectionInv, run.step = "report", "rules" \in run.detectors,
             NEW t \in AllTargets, run.seen[t] # << >>,
             NEW h \in Min(DOMAIN run.seen[t]) .. Max(DOMAIN run.seen[t]), h \notin DOMAIN run.seen[t]
      PROVE  \E e \in Ensembles :
               /\ e.target = t /\ e.hour = h /\ Id(e) \in alerted
               /\ (\E first \in Min(DOMAIN run.seen[t]) .. h :
                     /\ h < first + Rules.missingCritical
                     /\ (first .. first + Rules.missingCritical - 1) \cap DOMAIN run.seen[t] = {})
                  => e.severity = "critical"
  <2> DEFINE s == run.seen[t]
             D == DOMAIN s
             gap == GapSize(s, h)
             m == IF gap >= Rules.missingCritical
                  THEN RuleEvent(t, h, "missing_timestamp", 80, "critical")
                  ELSE RuleEvent(t, h, "missing_timestamp", 45, "warning")
  <2>1. HourSet(D) /\ MissingEvents(s, t) \subseteq run.batch
    BY <1>1 DEF DetectionInv, ReportsInv
  <2>2. m \in MissingEvents(s, t)
    BY <1>1 DEF MissingEvents, Absent
  <2>3. m.target = t /\ m.hour = h /\ (gap >= Rules.missingCritical => m.severity = "critical")
    BY EventFields DEF RuleEvent
  <2> HIDE DEF m, s
  <2>4. PICK a \in Combine(run.batch) :
          a.target = t /\ a.hour = h /\ Rank[a.severity] >= Rank[m.severity]
    BY <1>1, <2>1, <2>2, <2>3, Combines DEF DetectionInv, ReportsInv
  <2>5. a.detector = "ensemble" /\ a.severity \in Severities
    BY <1>1, Combines DEF DetectionInv, ReportsInv
  <2>6. a \in Ensembles /\ Id(a) \in alerted
    BY <1>1, <2>5 DEF DetectionInv, ReportsInv, Ids, Ensembles
  <2>7. ASSUME NEW first \in Min(D) .. h, h < first + Rules.missingCritical,
               (first .. first + Rules.missingCritical - 1) \cap D = {}
        PROVE  gap >= Rules.missingCritical
    <3>1. D \subseteq Int /\ Min(D) \in D /\ Max(D) \in D /\ \A g \in D : Min(D) <= g /\ g <= Max(D)
      BY <2>1, Extremes DEF HourSet
    <3>2. PICK length \in Int : length = Rules.missingCritical
      BY RulesAssumption
    <3>3. h \in Int /\ first \in Int /\ first <= h /\ h < first + length /\ Min(D) <= h /\ h <= Max(D) /\ h \notin D
      BY <1>1, <2>7, <3>1, <3>2 DEF s
    <3>4. \A g \in D : g < first \/ g >= first + length
      BY <2>7, <3>1, <3>2, <3>3
    <3>5. HourSet(Earlier(s, h)) /\ HourSet(Later(s, h))
      <4>1. Min(D) \in Earlier(s, h) /\ Max(D) \in Later(s, h)
        BY <3>1, <3>3 DEF Earlier, Later
      <4>2. Earlier(s, h) \subseteq D /\ Later(s, h) \subseteq D
        BY DEF Earlier, Later
      <4> QED BY <2>1, <4>1, <4>2, FS_Subset DEF HourSet
    <3>6. Max(Earlier(s, h)) \in Earlier(s, h) /\ Min(Later(s, h)) \in Later(s, h)
      BY <3>5, Extremes
    <3>7. PICK before \in D : before = Max(Earlier(s, h)) /\ before < h
      BY <3>6 DEF Earlier
    <3>8. PICK after \in D : after = Min(Later(s, h)) /\ after > h
      BY <3>6 DEF Later
    <3>9. before < first /\ after >= first + length
      BY <3>1, <3>3, <3>4, <3>7, <3>8
    <3>10. gap = after - before - 1
      BY <3>7, <3>8 DEF GapSize
    <3> QED BY <3>1, <3>2, <3>3, <3>7, <3>8, <3>9, <3>10
  <2>8. gap >= Rules.missingCritical => a.severity = "critical"
    BY <2>3, <2>4, <2>5 DEF Severities, Rank
  <2> QED BY <2>4, <2>6, <2>7, <2>8 DEF s
<1>2. DetectionInv => GapsReported
  BY <1>1 DEF GapsReported
<1> QED BY <1>2, DetectionHolds, PTL

-----------------------------------------------------------------------------
(* Two hours are in one run when every row after the first of them up to the *)
(* second repeats the row before it.                                         *)
LEMMA SameRun ==
  ASSUME NEW s, HourSet(DOMAIN s), NEW g \in DOMAIN s, NEW h \in DOMAIN s, g < h
  PROVE  RunOf(s, g) = RunOf(s, h) <=> \A x \in g + 1 .. h : Flat(s, x)
<1> DEFINE D == DOMAIN s
           Breaks(y) == {x \in D : x <= y /\ ~Flat(s, x)}
<1>1. D \subseteq Int /\ IsFiniteSet(D) /\ g \in Int /\ h \in Int
  BY DEF HourSet
<1>2. \A x : Flat(s, x) => x \in D /\ x - 1 \in D
  BY DEF Flat, Consecutive
<1>3. RunOf(s, g) = Cardinality(Breaks(g)) /\ RunOf(s, h) = Cardinality(Breaks(h))
  BY DEF RunOf
<1>4. Breaks(g) \subseteq Breaks(h) /\ IsFiniteSet(Breaks(h))
  BY <1>1, FS_Subset
<1>5. Cardinality(Breaks(g)) = Cardinality(Breaks(h)) <=> Breaks(g) = Breaks(h)
  <2> HIDE DEF Breaks
  <2> QED BY <1>4, FS_Subset
<1>6. ASSUME \A x \in g + 1 .. h : Flat(s, x) PROVE Breaks(g) = Breaks(h)
  BY <1>1, <1>6
<1>7. ASSUME Breaks(g) = Breaks(h), NEW z \in g + 1 .. h PROVE Flat(s, z)
  <2>1. \A x \in D : g < x /\ x <= h => Flat(s, x)
    BY <1>1, <1>7
  <2> DEFINE E == {x \in g .. h : \A y \in x .. h : y \in D}
  <2>2. h \in E /\ E \subseteq g .. h /\ g .. h \subseteq Int
    BY <1>1
  <2>3. IsFiniteSet(g .. h)
    BY <1>1, FS_Interval
  <2>4. HourSet(E)
    BY <2>2, <2>3, FS_Subset DEF HourSet
  <2>5. PICK m \in E : \A x \in E : m <= x
    <3> HIDE DEF E
    <3> QED BY <2>4, Extremes
  <2>6. m = g
    <3> SUFFICES ASSUME m # g PROVE FALSE
      OBVIOUS
    <3>1. m \in D /\ g < m /\ m <= h /\ m \in Int
      BY <1>1, <2>2, <2>5
    <3>2. m - 1 \in D
      BY <1>2, <2>1, <3>1
    <3>3. m - 1 \in g .. h /\ \A y \in m - 1 .. h : y = m - 1 \/ y \in m .. h
      BY <1>1, <3>1
    <3>4. m - 1 \in E
      BY <2>5, <3>2, <3>3
    <3> QED BY <2>5, <3>1, <3>4
  <2>7. z \in D
    BY <1>1, <2>5, <2>6
  <2> QED BY <1>1, <2>1, <2>7
<1> HIDE DEF Breaks
<1> QED BY <1>3, <1>5, <1>6, <1>7

LEMMA RunEndsFlat ==
  ASSUME NEW s, HourSet(DOMAIN s), NEW h \in DOMAIN s, Cardinality(Run(s, h)) >= Rules.flatlineHours
  PROVE  /\ Max(Run(s, h)) \in DOMAIN s /\ ~Flat(s, Max(Run(s, h)) + 1)
         /\ \A k \in 1 .. Rules.flatlineHours - 1 : Flat(s, Max(Run(s, h)) - k + 1)
<1> DEFINE R == Run(s, h)
<1>1. R \subseteq DOMAIN s /\ h \in R /\ \A x \in R : RunOf(s, x) = RunOf(s, h)
  BY DEF Run
<1>2. HourSet(R)
  BY <1>1, FS_Subset DEF HourSet
<1>3. PICK a \in R, b \in R : a = Min(R) /\ b = Max(R) /\ \A x \in R : a <= x /\ x <= b
  <2> HIDE DEF R
  <2> QED BY <1>2, Extremes
<1>4. a \in Int /\ b \in Int /\ a \in DOMAIN s /\ b \in DOMAIN s /\ a <= b
  BY <1>1, <1>2, <1>3 DEF HourSet
<1>5. \A x \in DOMAIN s : RunOf(s, x) = RunOf(s, h) => x \in R
  BY DEF Run
<1>6. PICK F \in Int : F = Rules.flatlineHours
  BY RulesAssumption
<1>7. b - a + 1 >= F
  <2>1. IsFiniteSet(a .. b) /\ Cardinality(a .. b) = b - a + 1
    BY <1>4, FS_Interval
  <2>2. R \subseteq a .. b
    BY <1>2, <1>3, <1>4 DEF HourSet
  <2>3. Cardinality(R) <= Cardinality(a .. b) /\ Cardinality(R) \in Nat
    <3> HIDE DEF R
    <3> QED BY <2>1, <2>2, FS_Subset, FS_CardinalityType
  <2> QED BY <1>4, <1>6, <2>1, <2>3
<1> HIDE DEF R
<1>8. ~Flat(s, b + 1)
  <2> SUFFICES ASSUME Flat(s, b + 1) PROVE FALSE
    OBVIOUS
  <2>1. b + 1 \in DOMAIN s
    BY DEF Flat, Consecutive
  <2>2. \A x \in b + 1 .. b + 1 : Flat(s, x)
    BY <1>4
  <2>3. RunOf(s, b) = RunOf(s, b + 1)
    BY <1>4, <2>1, <2>2, SameRun
  <2>4. b + 1 \in R
    BY <1>1, <1>3, <1>5, <2>1, <2>3
  <2> QED BY <1>3, <1>4, <2>4
<1>9. \A x \in a + 1 .. b : Flat(s, x)
  <2>1. CASE a = b
    BY <1>4, <2>1
  <2>2. CASE a # b
    <3>1. a < b /\ RunOf(s, a) = RunOf(s, b)
      BY <1>1, <1>3, <1>4, <2>2
    <3> QED BY <1>4, <3>1, SameRun
  <2> QED BY <2>1, <2>2
<1>10. ASSUME NEW k \in 1 .. F - 1 PROVE Flat(s, b - k + 1)
  <2>1. b - k + 1 \in a + 1 .. b
    BY <1>4, <1>6, <1>7
  <2> QED BY <1>9, <2>1
<1> QED BY <1>3, <1>4, <1>6, <1>8, <1>10 DEF R

LEMMA FlatEndsRun ==
  ASSUME NEW s, HourSet(DOMAIN s), NEW h \in DOMAIN s, ~Flat(s, h + 1),
         \A k \in 1 .. Rules.flatlineHours - 1 : Flat(s, h - k + 1)
  PROVE  Max(Run(s, h)) = h /\ Cardinality(Run(s, h)) >= Rules.flatlineHours
<1> DEFINE R == Run(s, h)
<1>1. R \subseteq DOMAIN s /\ h \in R /\ \A x \in R : RunOf(s, x) = RunOf(s, h)
  BY DEF Run
<1>2. HourSet(R) /\ h \in Int
  BY <1>1, FS_Subset DEF HourSet
<1>3. PICK F \in Int : F = Rules.flatlineHours /\ F > 1
  BY RulesAssumption
<1>4. \A x \in DOMAIN s : RunOf(s, x) = RunOf(s, h) => x \in R
  BY DEF Run
<1> HIDE DEF R
<1>5. \A x \in R : x <= h
  <2> SUFFICES ASSUME NEW x \in R, ~(x <= h) PROVE FALSE
    OBVIOUS
  <2>1. x \in DOMAIN s /\ x \in Int /\ h < x /\ RunOf(s, h) = RunOf(s, x)
    BY <1>1, <1>2 DEF HourSet
  <2>2. \A y \in h + 1 .. x : Flat(s, y)
    BY <2>1, SameRun
  <2>3. h + 1 \in h + 1 .. x
    BY <1>2, <2>1
  <2> QED BY <2>2, <2>3
<1>6. Max(R) = h
  <2>1. Max(R) \in R /\ \A x \in R : x <= Max(R)
    BY <1>2, Extremes
  <2>2. Max(R) \in Int /\ Max(R) <= h /\ h <= Max(R)
    BY <1>1, <1>2, <1>5, <2>1 DEF HourSet
  <2> QED BY <1>2, <2>2
<1>7. ASSUME NEW x \in h - F + 2 .. h PROVE Flat(s, x)
  <2>1. PICK k \in 1 .. F - 1 : k = h - x + 1 /\ h - k + 1 = x
    BY <1>2, <1>3
  <2>2. Flat(s, h - k + 1)
    BY <1>3
  <2> QED BY <2>1, <2>2
<1>8. h - F + 1 .. h \subseteq R
  <2> SUFFICES ASSUME NEW g \in h - F + 1 .. h, g # h PROVE g \in R
    BY <1>1
  <2>1. g < h /\ g + 1 \in h - F + 2 .. h /\ (g + 1) - 1 = g /\ g \in Int
    BY <1>2, <1>3
  <2>2. Flat(s, g + 1)
    BY <1>7, <2>1
  <2>3. g \in DOMAIN s
    BY <2>1, <2>2 DEF Flat, Consecutive
  <2>4. \A x \in g + 1 .. h : x \in h - F + 2 .. h
    BY <1>2, <1>3, <2>1
  <2>5. RunOf(s, g) = RunOf(s, h)
    BY <1>7, <2>1, <2>3, <2>4, SameRun
  <2> QED BY <1>4, <2>3, <2>5
<1>9. Cardinality(R) >= F
  <2>1. Cardinality(h - F + 1 .. h) = F
    <3>1. PICK a \in Int : a = h - F + 1 /\ a <= h /\ h - a + 1 = F
      BY <1>2, <1>3
    <3>2. Cardinality(a .. h) = h - a + 1
      BY <1>2, <3>1, FS_Interval
    <3> QED BY <3>1, <3>2
  <2>2. Cardinality(h - F + 1 .. h) <= Cardinality(R) /\ Cardinality(R) \in Nat
    BY <1>2, <1>8, FS_Subset, FS_CardinalityType DEF HourSet
  <2> QED BY <1>3, <2>1, <2>2
<1> QED BY <1>3, <1>6, <1>9 DEF R

(* Whatever the series, its gaps and its NaNs, a flatline is told at the last  *)
(* hour of each maximal stretch that is long enough and nowhere else: the      *)
(* running count never joins two stretches (_flatline_events).                 *)
THEOREM FlatlinesMaximal == Spec => []FlatlinesAreMaximal
<1>1. ASSUME NEW s, HourSet(DOMAIN s), NEW target, target # "solar_generation_mw"
      PROVE  {e.hour : e \in FlatlineEvents(s, target, << >>)}
               = {h \in {h \in DOMAIN s : \A k \in 1 .. Rules.flatlineHours - 1 : Flat(s, h - k + 1)} :
                    ~Flat(s, h + 1)}
  <2> DEFINE told == {e.hour : e \in FlatlineEvents(s, target, << >>)}
             ends == {h \in {h \in DOMAIN s : \A k \in 1 .. Rules.flatlineHours - 1 : Flat(s, h - k + 1)} :
                        ~Flat(s, h + 1)}
  <2>1. ASSUME NEW e \in FlatlineEvents(s, target, << >>) PROVE e.hour \in ends
    <3>1. PICK h \in DOMAIN s : /\ Cardinality(Run(s, h)) >= Rules.flatlineHours
                                /\ e = RuleEvent(target, Max(Run(s, h)), "flatline", 50, "warning")
      BY DEF FlatlineEvents
    <3>2. e.hour = Max(Run(s, h))
      BY <3>1, EventFields DEF RuleEvent
    <3> QED BY <1>1, <3>1, <3>2, RunEndsFlat
  <2>2. ASSUME NEW h \in ends PROVE h \in told
    <3>1. h \in DOMAIN s /\ Max(Run(s, h)) = h /\ Cardinality(Run(s, h)) >= Rules.flatlineHours
      BY <1>1, FlatEndsRun
    <3>2. RuleEvent(target, Max(Run(s, h)), "flatline", 50, "warning") \in FlatlineEvents(s, target, << >>)
      BY <1>1, <3>1 DEF FlatlineEvents
    <3>3. RuleEvent(target, Max(Run(s, h)), "flatline", 50, "warning").hour = h
      BY <3>1, EventFields DEF RuleEvent
    <3> QED BY <3>2, <3>3
  <2> QED BY <2>1, <2>2
<1>2. DetectionInv => FlatlinesAreMaximal
  BY <1>1 DEF DetectionInv, RunInv, FlatlinesAreMaximal
<1> QED BY <1>2, DetectionHolds, PTL

-----------------------------------------------------------------------------
(* The same row numbers, the same earlier residuals.                         *)
LEMMA SamePrior ==
  ASSUME NEW r, NEW q, NEW n \in Nat, \A i \in 1 .. n : q[i] = r[i]
  PROVE  Prior(q, n) = Prior(r, n)
<1> DEFINE first == Most(1, n - Residual.window)
           S == {r[i] : i \in 1 .. n}
<1>1. first \in Int /\ first >= 1
  <2>1. PICK w \in Int : w = Residual.window
    BY ResidualAssumption
  <2>2. first = Most(1, n - w) /\ n - w \in Int
    BY <2>1
  <2> QED BY <2>2 DEF Most
<1> HIDE DEF first
<1>2. /\ \A i \in first .. n - 1 : r[i] \in S /\ q[i] \in S
      /\ \A i \in first .. n - 1 : q[i] = r[i]
  BY <1>1
<1> DEFINE a == SubSeq(q, first, n - 1)
           b == SubSeq(r, first, n - 1)
<1> HIDE DEF S
<1>3. /\ a \in Seq(S) /\ Len(a) = IF first <= n - 1 THEN n - 1 - first + 1 ELSE 0
      /\ \A i \in 1 .. n - 1 - first + 1 : a[i] = q[first + i - 1]
  BY <1>1, <1>2, SubSeqProperties
<1>4. /\ b \in Seq(S) /\ Len(b) = IF first <= n - 1 THEN n - 1 - first + 1 ELSE 0
      /\ \A i \in 1 .. n - 1 - first + 1 : b[i] = r[first + i - 1]
  BY <1>1, <1>2, SubSeqProperties
<1>5. Prior(q, n) = a /\ Prior(r, n) = b
  BY DEF Prior, first
<1> HIDE DEF a, b
<1>6. \A i \in 1 .. Len(a) : a[i] = b[i]
  BY <1>1, <1>2, <1>3, <1>4
<1>7. a = b
  BY <1>1, <1>3, <1>4, <1>6
<1> QED BY <1>5, <1>7

(* What is said of an hour takes no row after it.                            *)
LEMMA Causal ==
  ASSUME NEW s, SeriesOK(s), NEW t, NEW h \in Int, NEW target, NEW high,
         DOMAIN t = {x \in DOMAIN s : x <= h}, \A x \in DOMAIN t : t[x] = s[x]
  PROVE  ResidualEvents(t, forecasts, target, high)
           = {e \in ResidualEvents(s, forecasts, target, high) : e.hour <= h}
<1> DEFINE al == Align(s, forecasts, target)
           am == Align(t, forecasts, target)
           hours == Hourly(DOMAIN al)
           kept  == Hourly(DOMAIN am)
           r == Residuals(s, al)
           q == Residuals(t, am)
<1>1. \A x \in DOMAIN t : Usable(forecasts, target, t, x) = Usable(forecasts, target, s, x)
  BY DEF Usable
<1>2. /\ DOMAIN am = {x \in DOMAIN al : x <= h} /\ \A x \in DOMAIN am : am[x] = al[x]
      /\ DOMAIN al \subseteq DOMAIN s
  BY <1>1 DEF Align
<1>3. DOMAIN al \subseteq Int /\ IsFiniteSet(DOMAIN al)
  BY <1>2, FS_Subset DEF SeriesOK
<1>4. DOMAIN r = DOMAIN hours /\ \A n \in DOMAIN hours : r[n] = s[hours[n]] - al[hours[n]].value
  BY DEF Residuals
<1>5. DOMAIN q = DOMAIN kept /\ \A n \in DOMAIN kept : q[n] = t[kept[n]] - am[kept[n]].value
  BY DEF Residuals
<1> HIDE DEF al, am, r, q
<1>6. /\ DOMAIN kept = {n \in DOMAIN hours : hours[n] <= h}
      /\ \A n \in DOMAIN kept : kept[n] = hours[n] /\ 1 .. n \subseteq DOMAIN kept
  BY <1>2, <1>3, RowsUpTo
<1>7. /\ DOMAIN hours \subseteq Nat /\ \A n \in DOMAIN hours : hours[n] \in DOMAIN al
      /\ \A n \in DOMAIN kept : kept[n] \in DOMAIN am
  <2>1. DOMAIN am \subseteq Int /\ IsFiniteSet(DOMAIN am)
    BY <1>2, <1>3, FS_Subset
  <2>2. \A n \in DOMAIN kept : kept[n] \in DOMAIN am
    BY <2>1, HourlyOrders
  <2>3. DOMAIN hours = 1 .. Cardinality(DOMAIN al) /\ Cardinality(DOMAIN al) \in Nat
    BY <1>3, HourlyOrders
  <2>4. \A n \in DOMAIN hours : hours[n] \in DOMAIN al
    BY <1>3, HourlyOrders
  <2> QED BY <2>2, <2>3, <2>4
<1> HIDE DEF hours, kept
<1>8. \A n \in DOMAIN kept : q[n] = r[n]
  <2> SUFFICES ASSUME NEW n \in DOMAIN kept PROVE q[n] = r[n]
    OBVIOUS
  <2>1. kept[n] = hours[n] /\ n \in DOMAIN hours /\ kept[n] \in DOMAIN am
    BY <1>6, <1>7
  <2>2. kept[n] \in DOMAIN t
    BY <1>2, <2>1, <1>3
  <2>3. t[kept[n]] = s[hours[n]] /\ am[kept[n]] = al[hours[n]]
    BY <1>2, <2>1, <2>2
  <2>4. q[n] = t[kept[n]] - am[kept[n]].value /\ r[n] = s[hours[n]] - al[hours[n]].value
    BY <1>4, <1>5, <2>1
  <2> QED BY <2>3, <2>4
<1>9. ASSUME NEW n \in DOMAIN kept PROVE Prior(q, n) = Prior(r, n)
  <2>1. n \in Nat /\ \A i \in 1 .. n : q[i] = r[i]
    BY <1>6, <1>7, <1>8
  <2> QED BY <2>1, SamePrior
<1>10. Flagged(q, kept, target) = {n \in Flagged(r, hours, target) : hours[n] <= h}
  <2> DEFINE Here(p, v, x) == /\ Len(p) >= Residual.minHistory
                              /\ target = "solar_generation_mw" => DaylightHour(x)
                              /\ Anomalous(p, v)
  <2>1. /\ Flagged(q, kept, target) = {n \in DOMAIN kept : Here(Prior(q, n), q[n], kept[n])}
        /\ Flagged(r, hours, target) = {n \in DOMAIN hours : Here(Prior(r, n), r[n], hours[n])}
    BY <1>4, <1>5 DEF Flagged
  <2> HIDE DEF Here
  <2>2. \A n \in DOMAIN kept : Here(Prior(q, n), q[n], kept[n]) = Here(Prior(r, n), r[n], hours[n])
    BY <1>6, <1>8, <1>9, Zenon
  <2> QED BY <1>6, <2>1, <2>2
<1> DEFINE Told(p, v, x) == Event(target, x, "residual", ResidualType(target, v),
                               IF Critical(p, v) THEN Points(IF high THEN 100 ELSE 70)
                               ELSE Points(IF high THEN 69 ELSE 30),
                               IF Critical(p, v) THEN "critical" ELSE "warning")
<1>11. \A p, v, x : Told(p, v, x).hour = x
  BY EventFields
<1>12. /\ ResidualEvents(s, forecasts, target, high)
            = {Told(Prior(r, n), r[n], hours[n]) : n \in Flagged(r, hours, target)}
       /\ ResidualEvents(t, forecasts, target, high)
            = {Told(Prior(q, n), q[n], kept[n]) : n \in Flagged(q, kept, target)}
  BY DEF ResidualEvents, al, am, r, q, hours, kept
<1> HIDE DEF Told
<1>13. \A n \in Flagged(q, kept, target) : Told(Prior(q, n), q[n], kept[n]) = Told(Prior(r, n), r[n], hours[n])
  <2>1. \A n \in Flagged(q, kept, target) : n \in DOMAIN kept
    BY <1>5 DEF Flagged
  <2> QED BY <1>6, <1>8, <1>9, <2>1, Zenon
<1> QED BY <1>10, <1>11, <1>12, <1>13

(* The rows a run scores begin with its lookback.                            *)
SourceInv == run.step = "score" => \A x \in DOMAIN run.source : x >= ReadFrom

LEMMA SourceNext ==
  ASSUME DetectionInv, SourceInv, [Next]_vars
  PROVE  SourceInv'
<1>1. CASE run'.step # "score"
  BY <1>1 DEF SourceInv
<1>2. CASE run' = run
  <2>1. ReadFrom' = ReadFrom
    BY <1>2 DEF ReadFrom, WindowStart
  <2> QED BY <1>2, <2>1 DEF SourceInv
<1>3. CASE LoadTarget /\ run' # run /\ run'.step = "score"
  <2> DEFINE source == Between(Observed(Head(run.todo)), ReadFrom, WindowEnd)
  <2>0. run.step = "load" /\ DOMAIN run = RunFields /\ run.window \in Windows
    BY <1>3 DEF LoadTarget, DetectionInv, RunInv
  <2>1. run' = [run EXCEPT !.todo = Tail(@)] \/ run' = [run EXCEPT !.source = source, !.step = "score"]
    BY <1>3 DEF LoadTarget
  <2>2. DOMAIN source \subseteq ReadFrom .. WindowEnd
    BY DEF Between
  <2> HIDE DEF source
  <2>3. run'.source = source /\ run'.window = run.window
    BY <1>3, <2>0, <2>1 DEF RunFields
  <2>4. ReadFrom' = ReadFrom
    BY <2>3 DEF ReadFrom, WindowStart
  <2>5. ReadFrom \in Int /\ WindowEnd \in Int
    BY <2>0, WindowAssumption, RunAssumption DEF ReadFrom, WindowStart, WindowEnd
  <2>6. \A x \in DOMAIN source : x >= ReadFrom
    BY <2>2, <2>5
  <2> QED BY <2>3, <2>4, <2>6 DEF SourceInv
<1>4. ASSUME Next, ~LoadTarget, run' # run PROVE run'.step # "score"
  <2>1. ASSUME BeginRun PROVE run'.step = "load"
    BY <2>1 DEF BeginRun, Idle
  <2>2. ASSUME AllScored \/ StoreEvents \/ HandToAlerts PROVE run'.step \in {"store", "alert", "report"}
    BY <2>2 DEF AllScored, StoreEvents, HandToAlerts, DetectionInv, RunInv, RunFields
  <2>3. ASSUME ScoreTarget PROVE run'.step = "load"
    BY <2>3, ScoreBrings DEF Scoring, DetectionInv, RunInv
  <2>4. ASSUME RunRaises \/ Report \/ Cut PROVE run'.step = "idle"
    BY <2>4, IdleOK DEF RunRaises, Report, Cut
  <2>5. ASSUME Acquire PROVE UNCHANGED run
    BY <2>5 DEF Acquire, runVars
  <2> QED BY <1>4, <2>1, <2>2, <2>3, <2>4, <2>5 DEF Next, Detect, RunNext
<1>5. CASE UNCHANGED vars
  BY <1>2, <1>5 DEF vars, runVars
<1> QED BY <1>1, <1>2, <1>3, <1>4, <1>5

(* "Leakage-safe": no row that follows an hour, nor the forecasts aligned    *)
(* with it, changes what the residual detector says of that hour             *)
(* (residuals.py: align_actuals_and_forecasts, _score_region).               *)
THEOREM ResidualsCausal == Spec => []ResidualsAreCausal
<1>1. Init => SourceInv
  BY IdleOK DEF Init, RunInit, SourceInv
<1>2. DetectionInv /\ SourceInv /\ [Next]_vars => SourceInv'
  BY SourceNext
<1>3. DetectionInv /\ SourceInv => ResidualsAreCausal
  <2> SUFFICES ASSUME DetectionInv, SourceInv, run.step = "score", NEW h \in DOMAIN run.source
               PROVE  ResidualEvents(Between(run.source, ReadFrom, h), forecasts, Target, TRUE)
                        = {e \in ResidualEvents(run.source, forecasts, Target, TRUE) : e.hour <= h}
    BY DEF ResidualsAreCausal
  <2> DEFINE t == Between(run.source, ReadFrom, h)
  <2>1. SeriesOK(run.source) /\ run.window \in Windows
    BY DEF DetectionInv, RunInv
  <2>2. ReadFrom \in Int /\ h \in Int
    BY <2>1, WindowAssumption, RunAssumption DEF ReadFrom, WindowStart, SeriesOK
  <2>3. DOMAIN t = DOMAIN run.source \cap (ReadFrom .. h) /\ \A x \in DOMAIN t : t[x] = run.source[x]
    BY DEF Between
  <2> HIDE DEF t
  <2>4. DOMAIN t = {x \in DOMAIN run.source : x <= h}
    BY <2>1, <2>2, <2>3 DEF SourceInv, SeriesOK
  <2>5. ASSUME NEW high
        PROVE  ResidualEvents(t, forecasts, Target, high)
                 = {e \in ResidualEvents(run.source, forecasts, Target, high) : e.hour <= h}
    BY <2>1, <2>2, <2>3, <2>4, Causal
  <2>6. ResidualEvents(t, forecasts, Target, TRUE)
          = {e \in ResidualEvents(run.source, forecasts, Target, TRUE) : e.hour <= h}
    BY <2>5, Zenon
  <2> QED BY <2>6 DEF t
<1> QED BY <1>1, <1>2, <1>3, DetectionHolds, PTL DEF Spec

-----------------------------------------------------------------------------
CountInv ==
  /\ revisions \in Nat /\ faults \in 0 .. MaxFaults /\ runs \in Nat /\ cuts \in 0 .. MaxCuts
  /\ netLoad \in BOOLEAN
  /\ rejected \subseteq {key[1] : key \in DOMAIN feed}
  /\ gather.step \in GatherSteps /\ gather.cursor \in FirstDay .. LastDay + 1

LEMMA CountsMove ==
  ASSUME [Next]_vars
  PROVE  /\ revisions' = revisions \/ (revisions > 0 /\ revisions' = revisions - 1)
         /\ faults' = faults \/ (faults < MaxFaults /\ faults' = faults + 1)
         /\ runs' = runs \/ (runs > 0 /\ runs' = runs - 1)
         /\ cuts' = cuts \/ (cuts < MaxCuts /\ cuts' = cuts + 1)
<1>1. ASSUME RunNext, UNCHANGED counters
      PROVE  /\ UNCHANGED <<revisions, faults>>
             /\ runs' = runs \/ (runs > 0 /\ runs' = runs - 1)
             /\ cuts' = cuts \/ (cuts < MaxCuts /\ cuts' = cuts + 1)
  BY <1>1 DEF RunNext, BeginRun, LoadTarget, AllScored, ScoreTarget, RunRaises, StoreEvents,
     HandToAlerts, Report, Cut, counters
<1>2. ASSUME EiaNext
      PROVE  /\ revisions' = revisions \/ (revisions > 0 /\ revisions' = revisions - 1)
             /\ faults' = faults \/ (faults < MaxFaults /\ faults' = faults + 1)
  BY <1>2 DEF EiaNext, Revise, BeginFetch, GetPage, RequestRetried, RequestRefused,
     RecordsConflict, IngestDemand, ProcessRenewables, WriteRenewables, QuarantineRenewables,
     UpsertRenewables, UpsertCut, CreateView, FetchCut, counters
<1>3. ASSUME SkyNext
      PROVE  /\ revisions' = revisions \/ (revisions > 0 /\ revisions' = revisions - 1)
             /\ faults' = faults \/ (faults < MaxFaults /\ faults' = faults + 1)
  BY <1>3 DEF SkyNext, ReviseSky, BeginGather, RequestChunk, ReadCachedChunk, ChunkFails,
     AggregateWeather, WriteWeather, UpsertLocations, UpsertRegions, GatherCut, counters
<1> QED BY <1>1, <1>2, <1>3 DEF Next, Detect, Acquire, vars, runVars, counters

(* The view is created and never dropped.                                    *)
LEMMA ViewStays ==
  ASSUME netLoad \in BOOLEAN, [Next]_vars
  PROVE  netLoad' \in BOOLEAN
<1>1. ASSUME CreateView PROVE netLoad' \in BOOLEAN
  <2>1. netLoad' = (netLoad \/ demand # << >>)
    BY <1>1 DEF CreateView
  <2> QED BY <2>1
<1>2. ASSUME RunNext \/ SkyNext \/ UNCHANGED vars PROVE UNCHANGED netLoad
  BY <1>2 DEF RunNext, BeginRun, LoadTarget, AllScored, ScoreTarget, RunRaises, StoreEvents,
     HandToAlerts, Report, Cut, SkyNext, ReviseSky, BeginGather, RequestChunk, ReadCachedChunk, ChunkFails,
     AggregateWeather, WriteWeather, UpsertLocations, UpsertRegions, GatherCut, tables, vars
<1>3. ASSUME EiaNext, ~CreateView PROVE UNCHANGED netLoad
  BY <1>3 DEF EiaNext, Revise, BeginFetch, GetPage, RequestRetried, RequestRefused,
     RecordsConflict, IngestDemand, ProcessRenewables, WriteRenewables, QuarantineRenewables,
     UpsertRenewables, UpsertCut, FetchCut, tables
<1> QED BY <1>1, <1>2, <1>3 DEF Next, Detect, Acquire

(* Only rows EIA reported are set aside.                                     *)
LEMMA RejectedNext ==
  ASSUME FetchInv, rejected \subseteq {key[1] : key \in DOMAIN feed}, [Next]_vars
  PROVE  rejected' \subseteq {key[1] : key \in DOMAIN feed'}
<1>1. DOMAIN feed \subseteq DOMAIN feed' /\ (rejected' = rejected \/ rejected' = rejected \cup Invalid(fetch.records))
  <2>1. ASSUME Revise PROVE DOMAIN feed \subseteq DOMAIN feed' /\ rejected' = rejected
    <3>1. PICK key \in (FirstDay .. LastDay) \X KindsOf(fetch.source), value \in Amounts :
            feed' = Override(feed, [k \in {key} |-> value])
      BY <2>1 DEF Revise
    <3> QED BY <2>1, <3>1, Overridden DEF Revise, eiaVars
  <2>2. ASSUME EiaNext, ~Revise
        PROVE  feed' = feed /\ (rejected' = rejected \/ rejected' = rejected \cup Invalid(fetch.records))
    BY <2>2 DEF EiaNext, BeginFetch, GetPage, RequestRetried, RequestRefused,
       RecordsConflict, IngestDemand, ProcessRenewables, WriteRenewables, QuarantineRenewables,
       UpsertRenewables, UpsertCut, CreateView, FetchCut, upstream
  <2>3. ASSUME Detect \/ SkyNext \/ UNCHANGED vars PROVE feed' = feed /\ rejected' = rejected
    BY <2>3 DEF Detect, SkyNext, ReviseSky, BeginGather, RequestChunk, ReadCachedChunk, ChunkFails,
       AggregateWeather, WriteWeather, UpsertLocations, UpsertRegions, GatherCut, eiaVars, upstream, vars
  <2> QED BY <2>1, <2>2, <2>3 DEF Next, Acquire
<1>2. Invalid(fetch.records) \subseteq {key[1] : key \in DOMAIN feed}
  BY DEF FetchInv, Invalid, Hours
<1> QED BY <1>1, <1>2

(* The weather pipeline moves between its steps, its cursor within the days. *)
LEMMA GatherSteady ==
  ASSUME SkyInv, gather.step \in GatherSteps, gather.cursor \in FirstDay .. LastDay + 1, [Next]_vars
  PROVE  gather'.step \in GatherSteps /\ gather'.cursor \in FirstDay .. LastDay + 1
<1> DEFINE Steady == gather'.step \in GatherSteps /\ gather'.cursor \in FirstDay .. LastDay + 1
<1>0. FirstDay \in FirstDay .. LastDay + 1
  BY ClientAssumption
<1>1. ASSUME gather' = NoGather PROVE Steady
  BY <1>0, <1>1 DEF NoGather, GatherSteps
<1>2. ASSUME NEW step \in GatherSteps, gather' = [gather EXCEPT !.step = step] PROVE Steady
  BY <1>2 DEF SkyInv, GatherFields
<1>3. ASSUME BeginGather PROVE Steady
  <2>1. gather'.step = "chunk" /\ gather'.cursor = FirstDay
    BY <1>3 DEF BeginGather, NoGather
  <2> QED BY <1>0, <2>1 DEF GatherSteps
<1>4. ASSUME NEW payload, gather.step = "chunk", gather' = Take(payload) PROVE Steady
  <2>1. CASE Take(payload) = NoGather
    BY <1>1, <1>4, <2>1
  <2>2. CASE Take(payload) # NoGather
    <3>1. Take(payload) = [NextChunk EXCEPT !.frame =
            Override(NextChunk.frame, [key \in {Place} \X (DOMAIN payload) |-> payload[key[2]]])]
      BY <2>2 DEF Take
    <3>2. /\ gather'.step = NextChunk.step /\ gather'.cursor = NextChunk.cursor
          /\ NextChunk.step \in {"chunk", "aggregate"}
      BY <1>4, <3>1, NextChunkOK DEF SkyInv, GatherFields
    <3>3. NextChunk.cursor = FirstDay \/ (ChunkEnd < gather.last /\ NextChunk.cursor = ChunkEnd + 1)
      BY DEF NextChunk, SkyInv, GatherFields
    <3>4. NextChunk.cursor \in FirstDay .. LastDay + 1
      BY <1>0, <1>4, <3>3, ChunkEnds, ClientAssumption DEF SkyInv
    <3> QED BY <3>2, <3>4 DEF GatherSteps
  <2> QED BY <2>1, <2>2
<1>5. ASSUME RequestChunk \/ ReadCachedChunk PROVE Steady
  <2>1. gather.step = "chunk" /\ \E payload : gather' = Take(payload)
    BY <1>5 DEF RequestChunk, ReadCachedChunk
  <2> QED BY <1>4, <2>1
<1>6. ASSUME ChunkFails \/ AggregateWeather \/ WriteWeather \/ UpsertLocations \/ UpsertRegions \/ GatherCut
      PROVE  gather' = NoGather \/ \E step \in {"file", "spots", "regions"} : gather' = [gather EXCEPT !.step = step]
  BY <1>6 DEF ChunkFails, AggregateWeather, WriteWeather, UpsertLocations, UpsertRegions, GatherCut
<1>7. {"file", "spots", "regions"} \subseteq GatherSteps
  BY DEF GatherSteps
<1>8. ASSUME Detect \/ EiaNext \/ ReviseSky \/ UNCHANGED vars PROVE UNCHANGED gather
  BY <1>8 DEF Detect, EiaNext, Revise, BeginFetch, GetPage, RequestRetried, RequestRefused,
     RecordsConflict, IngestDemand, ProcessRenewables, WriteRenewables, QuarantineRenewables,
     UpsertRenewables, UpsertCut, CreateView, FetchCut, ReviseSky, skyVars, upstream, vars
<1>9. UNCHANGED gather => Steady
  OBVIOUS
<1> HIDE DEF Steady
<1>10. Steady
  BY <1>1, <1>2, <1>3, <1>5, <1>6, <1>7, <1>8, <1>9 DEF Next, Acquire, SkyNext
<1> QED BY <1>10 DEF Steady

LEMMA CountNext ==
  ASSUME FetchInv, SkyInv, CountInv, [Next]_vars
  PROVE  CountInv'
<1>1. revisions' \in Nat /\ faults' \in 0 .. MaxFaults /\ runs' \in Nat /\ cuts' \in 0 .. MaxCuts
  BY CountsMove, ClientAssumption, RunAssumption DEF CountInv
<1>2. netLoad' \in BOOLEAN
  BY ViewStays DEF CountInv
<1>3. rejected' \subseteq {key[1] : key \in DOMAIN feed'}
  BY RejectedNext DEF CountInv
<1>4. gather'.step \in GatherSteps /\ gather'.cursor \in FirstDay .. LastDay + 1
  BY GatherSteady DEF CountInv
<1> QED BY <1>1, <1>2, <1>3, <1>4 DEF CountInv

LEMMA CountInit == Init => CountInv
<1> SUFFICES ASSUME Init PROVE CountInv
  OBVIOUS
<1>1. PICK start \in Starts : netLoad = start.netLoad /\ runs = start.runs /\ revisions = start.revisions
  BY DEF Init
<1>2. netLoad \in BOOLEAN /\ runs \in Nat /\ revisions \in Nat
  BY <1>1, StartsAssumption
<1>3. faults = 0 /\ cuts = 0 /\ rejected = {} /\ gather = NoGather
  BY DEF Init, AcquisitionInit, RunInit
<1>4. gather.step = "idle" /\ gather.cursor = FirstDay
  BY <1>3 DEF NoGather
<1> QED BY <1>2, <1>3, <1>4, ClientAssumption, RunAssumption DEF CountInv, GatherSteps

(* Whatever fails, is cut short or is detected again, the pipelines stay in  *)
(* their steps and within their bounds, and anomaly_events holds one valid   *)
(* event per id (validate_anomaly_frame, AnomalyStorage.upsert).             *)
THEOREM MonitoringTypeCorrect == Spec => []MonitoringTypeOK
<1>1. DetectionInv /\ SkyInv /\ CountInv => MonitoringTypeOK
  <2> SUFFICES ASSUME DetectionInv, SkyInv, CountInv PROVE MonitoringTypeOK
    OBVIOUS
  <2>1. AcquisitionTypeOK
    BY DEF DetectionInv, FetchInv, CountInv, AcquisitionTypeOK
  <2>2. ValidBatch({e \in events : e.detector # "ensemble"})
    BY DEF DetectionInv, ReportsInv, Fine, Unique, ValidBatch
  <2>3. \A e, f \in events : Id(e) = Id(f) => e = f
    BY DEF DetectionInv, ReportsInv, Unique
  <2>4. RunTypeOK
    BY <2>2, <2>3 DEF DetectionInv, RunInv, ReportsInv, CountInv, RunTypeOK, AllDetectors
  <2> QED BY <2>1, <2>4 DEF MonitoringTypeOK
<1>2. DetectionInv => FetchInv
  BY DEF DetectionInv
<1>3. DetectionInv /\ SkyInv /\ CountInv /\ [Next]_vars => CountInv'
  BY <1>2, CountNext
<1>4. SkyInv /\ [Next]_vars => SkyInv'
  BY SkyInvNext
<1> QED BY <1>1, <1>3, <1>4, SkyInit, CountInit, DetectionHolds, PTL DEF Spec
=============================================================================
