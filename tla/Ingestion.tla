------------------------------ MODULE Ingestion ------------------------------
(***************************************************************************)
(* run_ingestion (pipelines/ingest.py) from the fetched records to the two  *)
(* stores: the quarantine file, the reconciliation, the policy on missing   *)
(* demand, write_processed_parquet with _replace_directory, and the DuckDB  *)
(* upsert.  One process ingests one region (the documented single-writer    *)
(* use); any step may fail with an exception, and the process may die       *)
(* between any two steps.                                                   *)
(*                                                                         *)
(* The destination and its backup are directories that exist (a dataset) or *)
(* do not (NoDir).  A backup left behind is never looked at again; orphans  *)
(* keeps it, because its rows are still on disk.  A staging directory left  *)
(* behind holds nothing that is not elsewhere, and is forgotten.            *)
(***************************************************************************)
EXTENDS Observations, Naturals, FiniteSets

CONSTANTS
  NoDemand,    \* a fetched hour without actual demand
  BadDemand,   \* a fetched hour whose demand is negative or infinite
  NoDir,       \* the directory does not exist
  MaxRuns,     \* bound: ingestions per behaviour
  MaxFaults,   \* bound: steps that raise an exception
  MaxCrashes   \* bound: deaths of the process

ASSUME ReadingAssumption ==
  /\ NoDemand \notin Values \cup {NoRow}
  /\ BadDemand \notin Values \cup {NoRow, NoDemand}
  /\ NoDir \notin Datasets
ASSUME CountAssumption ==
  MaxRuns \in Nat /\ MaxFaults \in Nat /\ MaxCrashes \in Nat

VARIABLES
  dest,         \* data/processed
  staging,      \* .processed-staging-*
  backup,       \* .processed-backup-* of the replacement under way
  orphans,      \* backups nobody will remove or restore
  table,        \* DuckDB's hourly_grid_data
  quarantined,  \* quarantine files: <<run, hours it excludes>>
  pc, batch, policy,      \* the ingestion under way: step, candidate, policy
  runs, faults, crashes   \* how much of each bound is used

vars == <<dest, staging, backup, orphans, table, quarantined, pc, batch, policy,
          runs, faults, crashes>>

Candidates == [Keys -> Values \cup {NoRow, NoDemand, BadDemand}]
Dirs       == Datasets \cup {NoDir}
Steps      == {"idle", "quarantine", "report", "stage", "aside", "movein",
               "restore", "discard", "load"}

(* Only rows that satisfy the schema are ever stored, staged or set aside.   *)
TypeOK ==
  /\ dest \in Dirs /\ staging \in Dirs /\ backup \in Dirs
  /\ orphans \subseteq Datasets
  /\ table \in Datasets
  /\ quarantined \subseteq (1 .. MaxRuns) \X SUBSET Keys
  /\ pc \in Steps
  /\ batch \in Candidates
  /\ policy \in {"error", "drop"}
  /\ runs \in 0 .. MaxRuns /\ faults \in 0 .. MaxFaults /\ crashes \in 0 .. MaxCrashes

Init == /\ dest = NoDir /\ staging = NoDir /\ backup = NoDir
        /\ orphans = {} /\ table = Blank /\ quarantined = {}
        /\ pc = "idle" /\ batch = Blank /\ policy = "error"
        /\ runs = 0 /\ faults = 0 /\ crashes = 0

-----------------------------------------------------------------------------
With(b, reading) == {k \in Keys : b[k] = reading}
Fetched(b)       == {k \in Keys : b[k] # NoRow}

(* report_frame: under "drop" the rows that have demand, else the candidate. *)
Retained(b, pol) == IF pol = "drop"
                    THEN [k \in Keys |-> IF b[k] = NoDemand THEN NoRow ELSE b[k]]
                    ELSE b

(* build_ingestion_reconciliation: what missing and invalid demand does not  *)
(* account for.  The rows compared as retained never include missing demand, *)
(* but they do include the invalid rows that are deducted as well.           *)
Unexplained(b) ==
  LET withDemand == Fetched(b) \ With(b, NoDemand)
  IN  Cardinality(Fetched(b)) # Cardinality(With(b, NoDemand))
        + Cardinality(With(b, BadDemand)) + Cardinality(withDemand)

Existing == IF dest = NoDir THEN Blank ELSE dest

Abandoned == IF backup = NoDir THEN orphans ELSE orphans \cup {backup}

(* The ingestion ends, whether it succeeded or raised; the finally clause    *)
(* removes the staging directory.                                            *)
Stop == /\ pc' = "idle"
        /\ batch' = Blank /\ policy' = "error"
        /\ staging' = NoDir

-----------------------------------------------------------------------------
(* The raw response is on disk and the candidate is prepared.                *)
Fetch(b, pol) ==
  /\ pc = "idle" /\ runs < MaxRuns
  /\ Fetched(b) # {}
  /\ runs' = runs + 1
  /\ batch' = b /\ policy' = pol
  /\ pc' = IF pol = "drop" /\ With(b, NoDemand) # {} THEN "quarantine" ELSE "report"
  /\ UNCHANGED <<dest, staging, backup, orphans, table, quarantined, faults, crashes>>

Quarantine ==
  /\ pc = "quarantine"
  /\ quarantined' = quarantined \cup {<<runs, With(batch, NoDemand)>>}
  /\ pc' = "report"
  /\ UNCHANGED <<dest, staging, backup, orphans, table, batch, policy, runs, faults, crashes>>

(* Faulty forms, named Slip..., stand before the definitions they would      *)
(* replace; each is a plausible slip in the code and breaks some property.   *)
SlipCheckOnlyUnderError ==
  /\ pc = "report"
  /\ IF policy = "error" /\ (Unexplained(batch) \/ With(batch, NoDemand) # {})
     THEN Stop
     ELSE pc' = "stage" /\ UNCHANGED <<batch, policy, staging>>
  /\ UNCHANGED <<dest, backup, orphans, table, quarantined, runs, faults, crashes>>

(* The quality report is written, then the batch is accepted or refused.     *)
(* Only a refusal by the schema removes the quarantine file.                 *)
Report ==
  /\ pc = "report"
  /\ IF Unexplained(batch) \/ (policy = "error" /\ With(batch, NoDemand) # {})
     THEN Stop /\ UNCHANGED quarantined
     ELSE IF With(Retained(batch, policy), BadDemand) # {}
     THEN Stop /\ quarantined' = {q \in quarantined : q[1] # runs}
     ELSE pc' = "stage" /\ UNCHANGED <<batch, policy, staging, quarantined>>
  /\ UNCHANGED <<dest, backup, orphans, table, runs, faults, crashes>>

(* Merge with what the destination holds, write the staging directory, read  *)
(* it back and compare: no other process looks at it.                        *)
Stage ==
  /\ pc = "stage"
  /\ staging' = Merge(Existing, Retained(batch, policy))
  /\ pc' = "aside"
  /\ UNCHANGED <<dest, backup, orphans, table, quarantined, batch, policy,
                 runs, faults, crashes>>

SlipDeleteFirst ==
  /\ pc = "aside"
  /\ dest' = NoDir
  /\ pc' = "movein"
  /\ UNCHANGED <<staging, backup, orphans, table, quarantined, batch, policy,
                 runs, faults, crashes>>

(* _replace_directory: destination.rename(backup), if there is one ...       *)
MoveAside ==
  /\ pc = "aside"
  /\ backup' = dest
  /\ dest' = NoDir
  /\ pc' = "movein"
  /\ UNCHANGED <<staging, orphans, table, quarantined, batch, policy, runs, faults, crashes>>

(* ... staging.rename(destination) ...                                       *)
MoveIn ==
  /\ pc = "movein"
  /\ dest' = staging
  /\ staging' = NoDir
  /\ pc' = "discard"
  /\ UNCHANGED <<backup, orphans, table, quarantined, batch, policy, runs, faults, crashes>>

(* ... which may raise ...                                                   *)
MoveInFails ==
  /\ pc = "movein" /\ faults < MaxFaults
  /\ faults' = faults + 1
  /\ pc' = "restore"
  /\ UNCHANGED <<dest, staging, backup, orphans, table, quarantined, batch, policy,
                 runs, crashes>>

SlipRaiseWithoutRestore ==
  /\ pc = "restore"
  /\ Stop
  /\ orphans' = Abandoned /\ backup' = NoDir
  /\ UNCHANGED <<dest, table, quarantined, runs, faults, crashes>>

(* ... so that the backup is renamed back before the exception goes on.      *)
Restore ==
  /\ pc = "restore"
  /\ dest' = backup /\ backup' = NoDir
  /\ Stop
  /\ UNCHANGED <<orphans, table, quarantined, runs, faults, crashes>>

(* rmtree(ignore_errors=True): a failure leaves the backup and goes on.      *)
Discard ==
  /\ pc = "discard"
  /\ backup' = NoDir
  /\ \/ UNCHANGED <<orphans, faults>>
     \/ /\ backup # NoDir /\ faults < MaxFaults
        /\ faults' = faults + 1
        /\ orphans' = Abandoned
  /\ pc' = "load"
  /\ UNCHANGED <<dest, staging, table, quarantined, batch, policy, runs, crashes>>

(* DuckDBStorage.upsert: one transaction, so it happens or it does not.      *)
LoadTable ==
  /\ pc = "load"
  /\ table' = Merge(table, Retained(batch, policy))
  /\ Stop
  /\ UNCHANGED <<dest, backup, orphans, quarantined, runs, faults, crashes>>

(* Any other step that raises ends the ingestion.                            *)
StepFails ==
  /\ pc \in {"quarantine", "report", "stage", "aside", "restore", "load"}
  /\ faults < MaxFaults
  /\ faults' = faults + 1
  /\ Stop
  /\ orphans' = Abandoned /\ backup' = NoDir
  /\ UNCHANGED <<dest, table, quarantined, runs, crashes>>

Crash ==
  /\ pc # "idle" /\ crashes < MaxCrashes
  /\ crashes' = crashes + 1
  /\ Stop
  /\ orphans' = Abandoned /\ backup' = NoDir
  /\ UNCHANGED <<dest, table, quarantined, runs, faults>>

Next == \/ \E b \in Candidates, pol \in {"error", "drop"} : Fetch(b, pol)
        \/ Quarantine \/ Report \/ Stage \/ MoveAside \/ MoveIn \/ MoveInFails
        \/ Restore \/ Discard \/ LoadTable \/ StepFails \/ Crash

Spec == Init /\ [][Next]_vars

-----------------------------------------------------------------------------
(* Whatever fails and wherever the process dies, an hour that was ever       *)
(* loaded is in some directory on disk: the swap never holds the only copy   *)
(* of a dataset in a directory it removes (_replace_directory,               *)
(* storage.py:205-221).                                                      *)
NothingDestroyed ==
  \A k \in Keys : table[k] # NoRow =>
    \E tree \in ({dest, backup} \ {NoDir}) \cup orphans : tree[k] # NoRow

(* An ingestion that completes has accounted for every hour it fetched: the  *)
(* hour is in both stores with the fetched value, or in this ingestion's own *)
(* quarantine file, and never in both (run_ingestion, ingest.py:78-141).     *)
EveryFetchedHourAccounted ==
  [][LoadTable =>
       \A k \in Fetched(batch) :
         IF \E q \in quarantined : q[1] = runs /\ k \in q[2]
         THEN batch[k] = NoDemand
         ELSE dest'[k] = batch[k] /\ table'[k] = batch[k]]_vars

(* Nothing is under way, so every loaded hour can be read from the dataset:  *)
(* "Atomically replace an idempotently merged canonical Parquet dataset".    *)
LoadedStaysReadable ==
  pc = "idle" => \A k \in Keys : table[k] # NoRow => dest # NoDir /\ dest[k] # NoRow

(* While no process dies, and no second failure hits the restoring rename, a *)
(* replacement that is under way or fails keeps the previous dataset, and    *)
(* the two stores are those of ObservationStore: the dataset of a reader     *)
(* between the renames is the one set aside.                                 *)
Published == IF pc \in {"movein", "restore"}
             THEN IF backup = NoDir THEN Blank ELSE backup
             ELSE Existing

Store == INSTANCE ObservationStore WITH parquet <- Published

StoreSpec == Store!Spec
=============================================================================
