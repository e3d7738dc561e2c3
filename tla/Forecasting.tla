----------------------------- MODULE Forecasting -----------------------------
(***************************************************************************)
(* Training and serving around one registry and the same tables: models are *)
(* trained and promoted, and rows arrive, between any two steps of a        *)
(* prediction, of a dispatch or of a request.                               *)
(***************************************************************************)
EXTENDS Serving

CONSTANTS
  Starts,  \* what the tables and the registry hold at first
  Values   \* what may arrive

(* At first every table has hours, finitely many of finitely many regions;   *)
(* every alias and every forecast names a registered version, a forecast is  *)
(* of an hour after its origin, and a champion is one the gate let through.  *)
ASSUME StartsAssumption ==
  \A start \in Starts :
    /\ DOMAIN start.readings = Names
    /\ \A name \in Names :
         LET frame == start.readings[name]
         IN  /\ IsFiniteSet(DOMAIN frame)
             /\ \A r \in DOMAIN frame :
                  /\ DOMAIN frame[r] \subseteq Int /\ DOMAIN frame[r] # {}
                  /\ IsFiniteSet(DOMAIN frame[r])
    /\ DOMAIN start.registry = Names /\ DOMAIN start.aliases = Names
    /\ \A name \in Names :
         LET versions == start.registry[name]
             alias    == start.aliases[name]
         IN  /\ versions \in Seq(Range(versions))
             /\ DOMAIN alias = {"candidate", "champion"}
             /\ alias.candidate \in {0} \cup DOMAIN versions
             /\ alias.champion # 0 =>
                  alias.champion \in DOMAIN versions /\ Earned(versions[alias.champion])
    /\ IsFiniteSet(DOMAIN start.published)
    /\ \A key \in DOMAIN start.published :
         /\ key[1] \in Names /\ key[5] \in DOMAIN start.registry[key[1]]
         /\ key[3] \in Int /\ key[4] \in Int /\ key[4] > key[3]

vars == <<trainingVars, published, workVars, dispatchTables, cacheVars, past, left, faults>>

Init ==
  /\ \E start \in Starts :
       /\ readings = start.readings /\ skies = start.skies
       /\ registry = start.registry /\ aliases = start.aliases
       /\ published = start.published /\ left = start.left /\ trainings = start.trainings
  /\ crowned = [name \in Names |-> {aliases[name].champion} \ {0}]
  /\ jobs = [t \in Trainers |-> NoJob]
  /\ ServingInit

Learn == (\E t \in Trainers : Train(t))
         /\ UNCHANGED <<published, workVars, dispatchTables, cacheVars, past, left, faults>>

NewHour == /\ May("arrivals") /\ \E value \in Values : Arrive(value)
           /\ Less("arrivals")
           /\ UNCHANGED <<published, workVars, dispatchTables, cacheVars, past, faults>>

Next == Learn \/ NewHour \/ Serve
Spec == Init /\ [][Next]_vars

-----------------------------------------------------------------------------
(* Every pipeline is in one of its steps, aliases and rows name versions     *)
(* that exist, and a champion is one the gate let through.                   *)
ForecastingTypeOK == TrainingTypeOK /\ ServingTypeOK
=============================================================================
