----------------------------- MODULE Monitoring -----------------------------
(***************************************************************************)
(* Acquisition and anomaly detection over the same tables.  They are        *)
(* separate commands, each with a connection per read or write, so a row    *)
(* may appear, change or be lost between any two reads of a detection run.  *)
(***************************************************************************)
EXTENDS DetectionRun, Acquisition

CONSTANT Starts  \* what the tables and the sources hold at first

(* Hours are whole numbers and finitely many, values numbers or NaN, and     *)
(* weather was stored for all locations of an hour or for none.              *)
Number(value) == value # NaN => value \in Int

ASSUME StartsAssumption ==
  \A start \in Starts :
    /\ IsFiniteSet(DOMAIN start.demand)
    /\ \A h \in DOMAIN start.demand : h \in Int /\ Number(start.demand[h])
    /\ start.renewables # NoTable =>
         /\ IsFiniteSet(DOMAIN start.renewables)
         /\ \A h \in DOMAIN start.renewables :
              h \in Int /\ Number(start.renewables[h].solar) /\ Number(start.renewables[h].wind)
    /\ IsFiniteSet(DOMAIN start.feed) /\ DOMAIN start.feed \subseteq Int \X {Demand, Sun, Wind}
    /\ \A key \in DOMAIN start.feed : Number(start.feed[key])
    /\ start.netLoad \in BOOLEAN /\ start.runs \in Nat /\ start.revisions \in Nat
    /\ \A k \in DOMAIN start.spots :
         /\ k[1][2] \in Int /\ k[2] \in DataTypes
         /\ \A place \in Locations : << <<place, k[1][2]>>, k[2] >> \in DOMAIN start.spots

vars == <<tables, upstream, eiaVars, skyVars, counters, runVars>>

Init ==
  /\ \E start \in Starts :
       /\ demand = start.demand /\ renewables = start.renewables /\ netLoad = start.netLoad
       /\ spots = start.spots /\ forecasts = start.forecasts
       /\ feed = start.feed /\ sky = start.sky /\ fetches = start.fetches /\ runs = start.runs
       /\ revisions = start.revisions
  /\ AcquisitionInit /\ RunInit

Detect  == RunNext /\ UNCHANGED <<upstream, eiaVars, skyVars, counters>>
Acquire == (EiaNext \/ SkyNext) /\ UNCHANGED runVars

Next == Detect \/ Acquire
Spec == Init /\ [][Next]_vars

-----------------------------------------------------------------------------
(* The pipelines are in one of their steps, and the anomaly table has one    *)
(* valid event per id however often a window was detected                    *)
(* (validate_anomaly_frame, AnomalyStorage.upsert).                          *)
MonitoringTypeOK == AcquisitionTypeOK /\ RunTypeOK
=============================================================================
