----------------------------- MODULE Acquisition -----------------------------
(***************************************************************************)
(* How grid, renewable and weather rows reach the tables: EIA pagination    *)
(* with its retries (data/eia_client.py), renewable ingestion               *)
(* (pipelines/renewable_ingest.py, renewables/), and the weather client     *)
(* with its response cache and weather ingestion (weather/,                 *)
(* pipelines/weather_ingest.py).  Ingestion details what happens to hourly  *)
(* demand after it is fetched; here that is one step.                       *)
(*                                                                         *)
(* EIA keeps revising its rows while they are paged through, serves pages   *)
(* shorter than asked for, or under-reports the total; the weather provider *)
(* revises its forecasts and may answer with a payload of another shape.    *)
(***************************************************************************)
EXTENDS GridTables

CONSTANTS
  Amounts,      \* what EIA reports; a negative amount is invalid
  PageSize,     \* rows asked for per page
  MaxRetries,   \* of one request
  Locations,    \* the weather locations of the region, equally weighted
  Radiations,   \* what the provider reports
  FirstDay, LastDay,  \* the days asked for; a day is one hour here
  ChunkDays,    \* days per weather request
  Torn,         \* a file whose write was interrupted
  Malformed,    \* a payload without aligned hourly arrays
  MaxFaults     \* bound: exceptions of a store, deaths of the process

ASSUME ClientAssumption ==
  /\ PageSize \in Nat \ {0} /\ MaxRetries \in Nat /\ ChunkDays \in Nat \ {0} /\ MaxFaults \in Nat
  /\ Amounts \subseteq Int /\ Locations # {} /\ FirstDay \in Int /\ LastDay \in Int /\ FirstDay <= LastDay

VARIABLES
  feed,       \* EIA: amounts by hour and kind
  sky,        \* the weather provider: radiation by location, hour and data type
  fetch,      \* the EIA pipeline under way
  renewFile,  \* renewable_generation.parquet; no file yet is one without rows
  rejected,   \* hours in renewable quarantine files
  cache,      \* weather responses by location, first and last day, and data type
  gather,     \* the weather pipeline under way
  regionFile, \* the Parquet files of location and of regional weather, as one
  spots,      \* hourly_location_weather
  fetches,    \* bound: how many pipelines may still begin
  revisions,  \* bound: how many upstream changes are left
  faults

upstream   == <<feed, sky>>
eiaVars    == <<fetch, renewFile, rejected>>
skyVars    == <<cache, gather, regionFile, spots>>
counters   == <<fetches, revisions, faults>>

(* The kinds of an hour's rows, in the order of their codes.                 *)
Demand == 0
Sun    == 1
Wind   == 2
KindsOf(source) == IF source = "demand" THEN {Demand} ELSE {Sun, Wind}

NoFetch  == [step |-> "idle", source |-> "demand", records |-> <<>>, offset |-> 0,
             attempt |-> 0, owed |-> {}]
NoGather == [step |-> "idle", type |-> "forecast", last |-> FirstDay, todo |-> {}, cursor |-> FirstDay,
             frame |-> <<>>]

FetchSteps  == {"idle", "page", "process", "file", "quarantine", "table", "view"}
GatherSteps == {"idle", "chunk", "aggregate", "file", "spots", "regions"}

AcquisitionTypeOK ==
  /\ fetch.step \in FetchSteps /\ fetch.attempt \in 0 .. MaxRetries
  /\ gather.step \in GatherSteps /\ gather.cursor \in FirstDay .. LastDay + 1
  /\ netLoad \in BOOLEAN /\ rejected \subseteq {key[1] : key \in DOMAIN feed}
  /\ revisions \in Nat /\ faults \in 0 .. MaxFaults

(* A table that was never created has no rows.                               *)
RenewableRows == IF renewables = NoTable THEN <<>> ELSE renewables

(* The weighted mean of a reading of each location.                          *)
Mean(values) ==
  IF \E place \in Locations : values[place] = NaN THEN NaN
  ELSE FoldFunction(+, 0, values) \div Cardinality(Locations)

(* The mean of the location rows stored of an hour and data type.            *)
SpotMean(key) == Mean([place \in Locations |-> spots[<< <<place, key[1]>>, key[2] >>]])

(* What earlier runs stored of the weather was aggregated like this.         *)
AcquisitionInit ==
  /\ fetch = NoFetch /\ rejected = {}
  /\ renewFile = RenewableRows
  /\ cache = <<>> /\ gather = NoGather
  /\ weather = [key \in {<<k[1][2], k[2]>> : k \in DOMAIN spots} |-> SpotMean(key)]
  /\ regionFile = weather
  /\ faults = 0

-----------------------------------------------------------------------------
(* The rows of a route, sorted by period and then by code.                   *)
Upstream(source) ==
  LET keys == InOrder({key \in DOMAIN feed : key[2] \in KindsOf(source)},
                      LAMBDA a, b : a[1] < b[1] \/ (a[1] = b[1] /\ a[2] < b[2]))
  IN  [n \in DOMAIN keys |-> [key |-> keys[n], value |-> feed[keys[n]]]]

Keys(records) == {records[n].key : n \in DOMAIN records}

(* A late row, or a revised one.                                             *)
Revise ==
  /\ revisions > 0 /\ fetch.step = "page"
  /\ \E key \in (FirstDay .. LastDay) \X KindsOf(fetch.source), value \in Amounts :
       feed' = Override(feed, [k \in {key} |-> value])
  /\ revisions' = revisions - 1
  /\ UNCHANGED <<tables, sky, eiaVars, skyVars, fetches, faults>>

BeginFetch ==
  /\ fetch.step = "idle" /\ fetches > 0
  /\ \E source \in {"demand", "renewable"} :
       fetch' = [NoFetch EXCEPT !.step = "page", !.source = source, !.owed = Keys(Upstream(source))]
  /\ fetches' = fetches - 1
  /\ UNCHANGED <<tables, upstream, renewFile, rejected, skyVars, revisions, faults>>

SlipFinished(page, offset, total) == page = <<>> \/ Len(page) < PageSize

(* A full page warrants one more request, a short one is the last only if it *)
(* reaches the total.                                                        *)
Finished(page, offset, total) ==
  page = <<>> \/ (Len(page) < PageSize /\ offset >= total)

(* EIA serves at most PageSize rows; if it serves fewer although more remain *)
(* its total is right, otherwise the total may be too small.                 *)
Served(rows, offset) ==
  {[page |-> SubSeq(rows, offset + 1, Least(offset + n, Len(rows))), total |-> total] :
     n \in 1 .. PageSize, total \in {0, Len(rows)}}

HonestWhenShort(answer, rows, offset) ==
  \/ Len(answer.page) = PageSize
  \/ offset + Len(answer.page) >= Len(rows)
  \/ answer.total = Len(rows)

GetPage ==
  /\ fetch.step = "page"
  /\ LET rows == Upstream(fetch.source)
     IN  \E answer \in Served(rows, fetch.offset) :
           /\ HonestWhenShort(answer, rows, fetch.offset)
           /\ fetch' = [fetch EXCEPT
                !.records = @ \o answer.page, !.offset = @ + Len(answer.page), !.attempt = 0,
                !.step = IF Finished(answer.page, fetch.offset + Len(answer.page), answer.total)
                         THEN "process" ELSE "page"]
  /\ UNCHANGED <<tables, upstream, renewFile, rejected, skyVars, counters>>

(* _request: a network error, HTTP 429 or 5xx is retried until MaxRetries.   *)
RequestRetried ==
  /\ fetch.step = "page"
  /\ fetch' = IF fetch.attempt < MaxRetries THEN [fetch EXCEPT !.attempt = @ + 1] ELSE NoFetch
  /\ UNCHANGED <<tables, upstream, renewFile, rejected, skyVars, counters>>

(* Any other status and any malformed body ends the fetch at once.           *)
RequestRefused ==
  /\ fetch.step = "page"
  /\ fetch' = NoFetch
  /\ UNCHANGED <<tables, upstream, renewFile, rejected, skyVars, counters>>

-----------------------------------------------------------------------------
Conflicting(records) ==
  \E m, n \in DOMAIN records : records[m].key = records[n].key /\ records[m].value # records[n].value

(* The value of a measurement, NaN if there is none.                         *)
Measured(records, hour, kind) ==
  IF <<hour, kind>> \in Keys(records)
  THEN records[CHOOSE n \in DOMAIN records : records[n].key = <<hour, kind>>].value ELSE NaN

Hours(records) == {key[1] : key \in Keys(records)}

Negative(value) == value # NaN /\ value < 0

(* process_renewable_records pivots the measurements and sets an hour aside  *)
(* when either of them is negative.                                          *)
Invalid(records) ==
  {h \in Hours(records) : Negative(Measured(records, h, Sun)) \/ Negative(Measured(records, h, Wind))}

Valid(records) ==
  [h \in Hours(records) \ Invalid(records) |->
     [solar |-> Measured(records, h, Sun), wind |-> Measured(records, h, Wind)]]

(* Contradicting records raise, for either source.                           *)
RecordsConflict ==
  /\ fetch.step = "process" /\ Conflicting(fetch.records)
  /\ fetch' = NoFetch
  /\ UNCHANGED <<tables, upstream, renewFile, rejected, skyVars, counters>>

(* Ingestion: an invalid hour stops it, the others replace their rows.       *)
IngestDemand ==
  /\ fetch.step = "process" /\ fetch.source = "demand" /\ ~Conflicting(fetch.records)
  /\ LET rows == [h \in Hours(fetch.records) |-> Measured(fetch.records, h, Demand)]
     IN  demand' = IF \E h \in DOMAIN rows : Negative(rows[h]) THEN demand ELSE Override(demand, rows)
  /\ fetch' = NoFetch
  /\ UNCHANGED <<renewables, netLoad, weather, forecasts, upstream, renewFile, rejected,
                 skyVars, counters>>

ProcessRenewables ==
  /\ fetch.step = "process" /\ fetch.source = "renewable" /\ ~Conflicting(fetch.records)
  /\ fetch' = IF fetch.records = <<>> THEN NoFetch ELSE [fetch EXCEPT !.step = "file"]
  /\ UNCHANGED <<tables, upstream, renewFile, rejected, skyVars, counters>>

SlipOverwriteRenewables ==
  /\ fetch.step = "file"
  /\ renewFile' = Valid(fetch.records)
  /\ fetch' = [fetch EXCEPT !.step = "quarantine"]
  /\ UNCHANGED <<tables, upstream, rejected, skyVars, counters>>

(* write_renewable_parquet reads the file, merges and overwrites it; a torn  *)
(* file cannot be read.                                                      *)
WriteRenewables ==
  /\ fetch.step = "file"
  /\ IF renewFile = Torn THEN fetch' = NoFetch /\ UNCHANGED renewFile
     ELSE /\ renewFile' = Override(renewFile, Valid(fetch.records))
          /\ fetch' = [fetch EXCEPT !.step = "quarantine"]
  /\ UNCHANGED <<tables, upstream, rejected, skyVars, counters>>

QuarantineRenewables ==
  /\ fetch.step = "quarantine"
  /\ rejected' = rejected \cup Invalid(fetch.records)
  /\ fetch' = [fetch EXCEPT !.step = "table"]
  /\ UNCHANGED <<tables, upstream, renewFile, skyVars, counters>>

(* RenewableStorage.upsert.                                                  *)
UpsertRenewables ==
  /\ fetch.step = "table"
  /\ renewables' = Override(RenewableRows, Valid(fetch.records))
  /\ fetch' = [fetch EXCEPT !.step = "view"]
  /\ UNCHANGED <<demand, netLoad, weather, forecasts, upstream, renewFile, rejected,
                 skyVars, counters>>

(* The table is created, and the old rows deleted, by statements that each   *)
(* commit: the process may end before the INSERT.                            *)
UpsertCut ==
  /\ fetch.step = "table" /\ faults < MaxFaults
  /\ renewables' = [h \in DOMAIN RenewableRows \ DOMAIN Valid(fetch.records) |-> renewables[h]]
  /\ fetch' = NoFetch /\ faults' = faults + 1
  /\ UNCHANGED <<demand, netLoad, weather, forecasts, upstream, renewFile, rejected,
                 skyVars, fetches, revisions>>

(* The view is created if both tables exist, by this pipeline only.          *)
CreateView ==
  /\ fetch.step = "view"
  /\ netLoad' = (netLoad \/ demand # <<>>)
  /\ fetch' = NoFetch
  /\ UNCHANGED <<demand, renewables, weather, forecasts, upstream, renewFile, rejected,
                 skyVars, counters>>

(* An exception or the end of the process between two steps; in the middle   *)
(* of overwriting the file it leaves a torn one.                             *)
FetchCut ==
  /\ fetch.step \notin {"idle", "page"} /\ faults < MaxFaults
  /\ fetch' = NoFetch /\ faults' = faults + 1
  /\ renewFile' \in IF fetch.step = "file" THEN {renewFile, Torn} ELSE {renewFile}
  /\ UNCHANGED <<tables, upstream, rejected, skyVars, fetches, revisions>>

EiaNext == \/ Revise \/ BeginFetch \/ GetPage \/ RequestRetried \/ RequestRefused
           \/ RecordsConflict \/ IngestDemand \/ ProcessRenewables \/ WriteRenewables
           \/ QuarantineRenewables \/ UpsertRenewables \/ UpsertCut \/ CreateView \/ FetchCut

-----------------------------------------------------------------------------
(* The provider revises its forecast, or extends it.                         *)
ReviseSky ==
  /\ revisions > 0 /\ (gather.step = "chunk" \/ fetches > 0)
  /\ \E place \in Locations, h \in FirstDay .. LastDay, value \in Radiations :
       sky' = Override(sky, [k \in {<<place, h, "forecast">>} |-> value])
  /\ revisions' = revisions - 1
  /\ UNCHANGED <<tables, feed, eiaVars, skyVars, fetches, faults>>

BeginGather ==
  /\ gather.step = "idle" /\ fetches > 0
  /\ \E type \in DataTypes, last \in FirstDay .. LastDay :
       gather' = [NoGather EXCEPT !.step = "chunk", !.type = type, !.last = last, !.todo = Locations]
  /\ fetches' = fetches - 1
  /\ UNCHANGED <<tables, upstream, eiaVars, cache, regionFile, spots, revisions, faults>>

Place    == CHOOSE place \in gather.todo : TRUE
ChunkEnd == Least(gather.cursor + ChunkDays - 1, gather.last)

(* _cache_path: the request without the time it is made.                     *)
CacheKey == <<Place, gather.cursor, ChunkEnd, gather.type>>

(* The provider's answer covers the hours it has.                            *)
Answer(key) ==
  [h \in {h \in key[2] .. key[3] : <<key[1], h, key[4]>> \in DOMAIN sky} |-> sky[<<key[1], h, key[4]>>]]

SlipNextChunk ==
  IF ChunkEnd < gather.last THEN [gather EXCEPT !.cursor = ChunkEnd + 2]
  ELSE [gather EXCEPT !.cursor = FirstDay, !.todo = @ \ {Place},
                      !.step = IF gather.todo = {Place} THEN "aggregate" ELSE @]

(* The next chunk of a location, or the first of the next location.          *)
NextChunk ==
  IF ChunkEnd < gather.last THEN [gather EXCEPT !.cursor = ChunkEnd + 1]
  ELSE [gather EXCEPT !.cursor = FirstDay, !.todo = @ \ {Place},
                      !.step = IF gather.todo = {Place} THEN "aggregate" ELSE @]

(* _validate_payload and normalize_weather_pages raise on a payload of the   *)
(* wrong shape and on values out of range.                                   *)
Take(payload) ==
  IF payload = Malformed THEN NoGather
  ELSE IF \E h \in DOMAIN payload : Negative(payload[h]) THEN NoGather
  ELSE [NextChunk EXCEPT !.frame =
          Override(@, [key \in {Place} \X (DOMAIN payload) |-> payload[key[2]]])]

(* A response is cached before it is looked at, and never expires.           *)
RequestChunk ==
  /\ gather.step = "chunk" /\ CacheKey \notin DOMAIN cache
  /\ \E payload \in {Answer(CacheKey), Malformed} :
       /\ cache' = Override(cache, [k \in {CacheKey} |-> payload])
       /\ gather' = Take(payload)
  /\ UNCHANGED <<tables, upstream, eiaVars, regionFile, spots, counters>>

ReadCachedChunk ==
  /\ gather.step = "chunk" /\ CacheKey \in DOMAIN cache
  /\ gather' = Take(cache[CacheKey])
  /\ UNCHANGED <<tables, upstream, eiaVars, cache, regionFile, spots, counters>>

(* A request that keeps failing raises after its retries.                    *)
ChunkFails ==
  /\ gather.step = "chunk" /\ CacheKey \notin DOMAIN cache
  /\ gather' = NoGather
  /\ UNCHANGED <<tables, upstream, eiaVars, cache, regionFile, spots, counters>>

-----------------------------------------------------------------------------
GatheredHours == {key[2] : key \in DOMAIN gather.frame}

(* The mean over all locations of an hour.                                   *)
HourMean(h) == Mean([place \in Locations |-> gather.frame[<<place, h>>]])

(* aggregate_region_weather raises if an hour lacks a location.              *)
AggregateWeather ==
  /\ gather.step = "aggregate"
  /\ gather' = IF Locations \X GatheredHours \subseteq DOMAIN gather.frame
               THEN [gather EXCEPT !.step = "file"] ELSE NoGather
  /\ UNCHANGED <<tables, upstream, eiaVars, cache, regionFile, spots, counters>>

RegionRows == [key \in GatheredHours \X {gather.type} |-> HourMean(key[1])]

(* write_weather_parquet, of the location and then of the regional rows: the *)
(* two files are kept as one here.                                           *)
WriteWeather ==
  /\ gather.step = "file"
  /\ IF regionFile = Torn THEN gather' = NoGather /\ UNCHANGED regionFile
     ELSE /\ regionFile' = Override(regionFile, RegionRows)
          /\ gather' = [gather EXCEPT !.step = "spots"]
  /\ UNCHANGED <<tables, upstream, eiaVars, cache, spots, counters>>

UpsertLocations ==
  /\ gather.step = "spots"
  /\ spots' = Override(spots, [key \in (DOMAIN gather.frame) \X {gather.type} |-> gather.frame[key[1]]])
  /\ gather' = [gather EXCEPT !.step = "regions"]
  /\ UNCHANGED <<tables, upstream, eiaVars, cache, regionFile, counters>>

SlipUpsertAsHistorical ==
  /\ gather.step = "regions"
  /\ weather' = Override(weather, [key \in GatheredHours \X {"historical"} |-> HourMean(key[1])])
  /\ gather' = NoGather
  /\ UNCHANGED <<demand, renewables, netLoad, forecasts, upstream, eiaVars, cache, regionFile,
                 spots, counters>>

UpsertRegions ==
  /\ gather.step = "regions"
  /\ weather' = Override(weather, RegionRows)
  /\ gather' = NoGather
  /\ UNCHANGED <<demand, renewables, netLoad, forecasts, upstream, eiaVars, cache, regionFile,
                 spots, counters>>

GatherCut ==
  /\ gather.step # "idle" /\ faults < MaxFaults
  /\ gather' = NoGather /\ faults' = faults + 1
  /\ regionFile' \in IF gather.step = "file" THEN {regionFile, Torn} ELSE {regionFile}
  /\ UNCHANGED <<tables, upstream, eiaVars, cache, spots, fetches, revisions>>

SkyNext == \/ ReviseSky \/ BeginGather \/ RequestChunk \/ ReadCachedChunk \/ ChunkFails
           \/ AggregateWeather \/ WriteWeather \/ UpsertLocations \/ UpsertRegions \/ GatherCut

-----------------------------------------------------------------------------
(* A fetch that ends without an error has every row EIA held when it began,  *)
(* although rows arrive and change between its pages, pages come short and   *)
(* totals are too small (fetch_hourly_data, fetch_renewable_data).           *)
FetchCoversUpstream == fetch.step \notin {"idle", "page"} => fetch.owed \subseteq Keys(fetch.records)

(* The tables are the younger stores: whatever rows they hold, the Parquet   *)
(* files hold too, of every hour, also after an exception or a death between *)
(* the two writes; only a torn file breaks this (run_renewable_ingestion,    *)
(* run_weather_ingestion).                                                   *)
FilesHoldTables ==
  /\ renewFile # Torn => Covered \subseteq DOMAIN renewFile
  /\ regionFile # Torn => DOMAIN weather \subseteq DOMAIN regionFile

(* Regional weather is the mean of the location rows stored beside it, for   *)
(* each data type, unless a run ended between the two upserts                *)
(* (WeatherStorage.upsert_locations, upsert_regions).                        *)
RegionsFollowLocations ==
  (faults = 0 /\ gather.step # "regions") =>
    \A key \in DOMAIN weather :
      /\ \A place \in Locations : << <<place, key[1]>>, key[2] >> \in DOMAIN spots
      /\ weather[key] = SpotMean(key)

(* A gather of historical weather that stores anything has covered every     *)
(* hour it was asked for, whatever the chunks and wherever each of them came *)
(* from (WeatherClient.fetch).                                               *)
GatherCoversRequest ==
  (gather.step \in {"file", "spots", "regions"} /\ gather.type = "historical") =>
    \A h \in FirstDay .. gather.last :
      (\A place \in Locations : <<place, h, "historical">> \in DOMAIN sky) => h \in GatheredHours
=============================================================================
