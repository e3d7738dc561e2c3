--------------------------- MODULE IngestionProofs ---------------------------
(***************************************************************************)
(* Theorems about Ingestion for every set of keys and values and every      *)
(* bound.  The invariant IngestionInv says what each step of a replacement  *)
(* relies on: which of the three directories exist, that the accepted batch *)
(* has only storable rows, and that the dataset to be moved in covers the   *)
(* dataset to be set aside as well as the batch.                            *)
(***************************************************************************)
EXTENDS Ingestion, TLAPS

Incoming == Retained(batch, policy)

Accepted == pc \in {"stage", "aside", "movein", "restore", "discard", "load"}
              => Incoming \in Datasets

Directories ==
  /\ pc \in {"idle", "quarantine", "report", "stage", "aside", "load"} => backup = NoDir
  /\ pc \in {"movein", "restore"} => dest = NoDir
  /\ pc \in {"aside", "movein"} => staging \in Datasets
  /\ pc \in {"discard", "load"} => dest \in Datasets

Covers(tree, other) == \A k \in Keys : other[k] # NoRow => tree[k] # NoRow

Covering ==
  /\ pc = "aside"   => Covers(staging, Incoming) /\ (dest # NoDir => Covers(staging, dest))
  /\ pc = "movein"  => Covers(staging, Incoming) /\ (backup # NoDir => Covers(staging, backup))
  /\ pc = "discard" => Covers(dest, Incoming) /\ (backup # NoDir => Covers(dest, backup))
  /\ pc = "load"    => Covers(dest, Incoming)

Numbered == pc # "idle" => runs # 0

IngestionInv == TypeOK /\ Accepted /\ Directories /\ Covering

LEMMA BlankIsDataset == Blank \in Datasets
  BY DEF Blank, Datasets

LEMMA MergeIsDataset ==
  ASSUME NEW old \in Datasets, NEW new \in Datasets
  PROVE  /\ Merge(old, new) \in Datasets
         /\ Covers(Merge(old, new), old)
         /\ Covers(Merge(old, new), new)
  BY DEF Merge, Datasets, Covers

LEMMA BlankIsCandidate == Blank \in Candidates
  BY DEF Blank, Candidates

LEMMA NoDirIsNotDataset == \A tree \in Datasets : tree # NoDir
  BY ReadingAssumption

(* What Report lets through can be stored: no missing and no bad demand.     *)
LEMMA RetainedIsDataset ==
  ASSUME NEW b \in Candidates, NEW pol \in {"error", "drop"},
         pol = "error" => With(b, NoDemand) = {},
         With(Retained(b, pol), BadDemand) = {}
  PROVE  Retained(b, pol) \in Datasets
<1>1. CASE pol = "drop"
  <2>1. Retained(b, pol) = [k \in Keys |-> IF b[k] = NoDemand THEN NoRow ELSE b[k]]
    BY <1>1 DEF Retained
  <2>2. \A k \in Keys : (IF b[k] = NoDemand THEN NoRow ELSE b[k]) \in Values \cup {NoRow}
    BY <2>1 DEF With, Candidates
  <2> QED
    BY <2>1, <2>2 DEF Datasets
<1>2. CASE pol = "error"
  <2>1. Retained(b, pol) = b
    BY <1>2 DEF Retained
  <2>2. \A k \in Keys : b[k] \in Values \cup {NoRow}
    BY <1>2, <2>1 DEF With, Candidates
  <2> QED
    BY <2>1, <2>2 DEF Datasets, Candidates
<1> QED
  BY <1>1, <1>2

LEMMA StopKeepsInv ==
  ASSUME IngestionInv, Stop, backup' = NoDir, dest' \in Dirs, table' \in Datasets,
         orphans' \subseteq Datasets, quarantined' \subseteq (1 .. MaxRuns) \X SUBSET Keys,
         runs' \in 0 .. MaxRuns, faults' \in 0 .. MaxFaults, crashes' \in 0 .. MaxCrashes
  PROVE  IngestionInv'
<1>1. pc' = "idle" /\ batch' = Blank /\ policy' = "error" /\ staging' = NoDir
  BY DEF Stop
<1>2. TypeOK'
  BY <1>1, BlankIsCandidate DEF TypeOK, Dirs, Steps
<1>3. Accepted' /\ Directories' /\ Covering'
  BY <1>1 DEF Accepted, Directories, Covering
<1> QED
  BY <1>2, <1>3 DEF IngestionInv

LEMMA AbandonedIsDatasets == TypeOK => Abandoned \subseteq Datasets
  BY DEF TypeOK, Abandoned, Dirs

LEMMA NumberedInductive == TypeOK /\ Numbered /\ [Next]_vars => Numbered'
<1> SUFFICES ASSUME TypeOK, Numbered, [Next]_vars PROVE Numbered'
  OBVIOUS
<1>1. ASSUME NEW b \in Candidates, NEW pol \in {"error", "drop"}, Fetch(b, pol)
      PROVE  Numbered'
  BY <1>1 DEF Fetch, Numbered, TypeOK
<1>2. CASE Quarantine \/ Stage \/ MoveAside \/ MoveIn \/ MoveInFails \/ Discard
  BY <1>2 DEF Quarantine, Stage, MoveAside, MoveIn, MoveInFails, Discard, Numbered
<1>3. CASE Report \/ Restore \/ LoadTable \/ StepFails \/ Crash
  BY <1>3 DEF Report, Restore, LoadTable, StepFails, Crash, Stop, Numbered
<1>4. CASE UNCHANGED vars
  BY <1>4 DEF vars, Numbered
<1> QED
  BY <1>1, <1>2, <1>3, <1>4 DEF Next

LEMMA InvInductive == IngestionInv /\ Numbered /\ [Next]_vars => IngestionInv'
<1> SUFFICES ASSUME IngestionInv, Numbered, [Next]_vars PROVE IngestionInv'
  OBVIOUS
<1> USE CountAssumption
<1>0. TypeOK /\ Accepted /\ Directories /\ Covering
  BY DEF IngestionInv
<1>1. ASSUME NEW b \in Candidates, NEW pol \in {"error", "drop"}, Fetch(b, pol)
      PROVE  IngestionInv'
  <2>1. pc' \in {"quarantine", "report"}
    BY <1>1 DEF Fetch
  <2>2. TypeOK'
    BY <1>0, <1>1, <2>1 DEF Fetch, TypeOK, Steps
  <2>3. Accepted' /\ Directories' /\ Covering'
    BY <1>0, <1>1, <2>1 DEF Fetch, Accepted, Directories, Covering
  <2> QED
    BY <2>2, <2>3 DEF IngestionInv
<1>2. CASE Quarantine
  <2>1. runs \in 1 .. MaxRuns
    BY <1>0, <1>2 DEF Quarantine, Numbered, TypeOK
  <2>2. quarantined' \subseteq (1 .. MaxRuns) \X SUBSET Keys
    BY <1>0, <1>2, <2>1 DEF Quarantine, TypeOK, With
  <2>3. TypeOK'
    BY <1>0, <1>2, <2>2 DEF Quarantine, TypeOK, Steps
  <2>4. Accepted' /\ Directories' /\ Covering'
    BY <1>0, <1>2 DEF Quarantine, Accepted, Directories, Covering
  <2> QED
    BY <2>3, <2>4 DEF IngestionInv
<1>3. CASE Report
  <2>1. CASE Stop
    <3>1. quarantined' \subseteq (1 .. MaxRuns) \X SUBSET Keys /\ backup' = NoDir
      BY <1>0, <1>3 DEF Report, TypeOK, Directories
    <3> QED
      BY <1>0, <1>3, <2>1, <3>1, StopKeepsInv DEF Report, TypeOK
  <2>2. CASE ~Stop
    <3>1. /\ pc = "report" /\ pc' = "stage"
          /\ UNCHANGED <<dest, staging, backup, orphans, table, quarantined, batch, policy,
                         runs, faults, crashes>>
          /\ policy = "error" => With(batch, NoDemand) = {}
          /\ With(Retained(batch, policy), BadDemand) = {}
      BY <1>3, <2>2 DEF Report
    <3>2. Incoming' \in Datasets
      BY <1>0, <3>1, RetainedIsDataset DEF TypeOK, Incoming
    <3>3. TypeOK'
      BY <1>0, <3>1 DEF TypeOK, Steps
    <3>4. Accepted' /\ Directories' /\ Covering'
      BY <1>0, <3>1, <3>2 DEF Accepted, Directories, Covering
    <3> QED
      BY <3>3, <3>4 DEF IngestionInv
  <2> QED
    BY <2>1, <2>2
<1>4. CASE Stage
  <2>1. Incoming \in Datasets /\ Existing \in Datasets /\ (dest # NoDir => Existing = dest)
    BY <1>0, <1>4, BlankIsDataset DEF Stage, Accepted, TypeOK, Dirs, Existing
  <2>2. staging' \in Datasets /\ Covers(staging', Incoming) /\ Covers(staging', Existing)
    BY <1>4, <2>1, MergeIsDataset DEF Stage, Incoming
  <2>3. TypeOK'
    BY <1>0, <1>4, <2>2 DEF Stage, TypeOK, Dirs, Steps
  <2>4. Incoming' = Incoming /\ pc' = "aside" /\ dest' = dest /\ backup' = NoDir
    BY <1>0, <1>4 DEF Stage, Incoming, Directories
  <2>5. Accepted' /\ Directories' /\ Covering'
    BY <2>1, <2>2, <2>4 DEF Accepted, Directories, Covering, Covers
  <2> QED
    BY <2>3, <2>5 DEF IngestionInv
<1>5. CASE MoveAside
  <2>1. Incoming' = Incoming /\ pc = "aside" /\ pc' = "movein" /\ dest' = NoDir
        /\ backup' = dest /\ staging' = staging
    BY <1>5 DEF MoveAside, Incoming
  <2>2. TypeOK'
    BY <1>0, <1>5 DEF MoveAside, TypeOK, Dirs, Steps
  <2>3. Accepted' /\ Directories' /\ Covering'
    BY <1>0, <2>1 DEF Accepted, Directories, Covering, Covers
  <2> QED
    BY <2>2, <2>3 DEF IngestionInv
<1>6. CASE MoveIn
  <2>1. Incoming' = Incoming /\ pc = "movein" /\ pc' = "discard" /\ dest' = staging
        /\ backup' = backup
    BY <1>6 DEF MoveIn, Incoming
  <2>2. TypeOK'
    BY <1>0, <1>6 DEF MoveIn, TypeOK, Dirs, Steps
  <2>3. Accepted' /\ Directories' /\ Covering'
    BY <1>0, <2>1 DEF Accepted, Directories, Covering, Covers
  <2> QED
    BY <2>2, <2>3 DEF IngestionInv
<1>7. CASE MoveInFails
  <2>1. Incoming' = Incoming /\ pc = "movein" /\ pc' = "restore" /\ dest' = dest
    BY <1>7 DEF MoveInFails, Incoming
  <2>2. TypeOK'
    BY <1>0, <1>7 DEF MoveInFails, TypeOK, Steps
  <2>3. Accepted' /\ Directories' /\ Covering'
    BY <1>0, <2>1 DEF Accepted, Directories, Covering
  <2> QED
    BY <2>2, <2>3 DEF IngestionInv
<1>8. CASE Restore
  BY <1>0, <1>8, StopKeepsInv DEF Restore, TypeOK
<1>9. CASE Discard
  <2>1. Incoming' = Incoming /\ pc = "discard" /\ pc' = "load" /\ dest' = dest
        /\ backup' = NoDir
    BY <1>9 DEF Discard, Incoming
  <2>2. orphans' \subseteq Datasets /\ faults' \in 0 .. MaxFaults
    BY <1>0, <1>9, AbandonedIsDatasets DEF Discard, TypeOK
  <2>3. TypeOK'
    BY <1>0, <1>9, <2>2 DEF Discard, TypeOK, Dirs, Steps
  <2>4. Accepted' /\ Directories' /\ Covering'
    BY <1>0, <2>1 DEF Accepted, Directories, Covering, Covers
  <2> QED
    BY <2>3, <2>4 DEF IngestionInv
<1>10. CASE LoadTable
  <2>1. backup' = NoDir /\ table' \in Datasets
    BY <1>0, <1>10, MergeIsDataset DEF LoadTable, TypeOK, Accepted, Directories, Incoming
  <2> QED
    BY <1>0, <1>10, <2>1, StopKeepsInv DEF LoadTable, TypeOK
<1>11. CASE StepFails \/ Crash
  <2>1. orphans' \subseteq Datasets
    BY <1>0, <1>11, AbandonedIsDatasets DEF StepFails, Crash
  <2>2. faults' \in 0 .. MaxFaults /\ crashes' \in 0 .. MaxCrashes
    BY <1>0, <1>11 DEF StepFails, Crash, TypeOK
  <2> QED
    BY <1>0, <1>11, <2>1, <2>2, StopKeepsInv DEF StepFails, Crash, TypeOK
<1>12. CASE UNCHANGED vars
  <2>1. TypeOK' /\ Accepted' /\ Directories' /\ Covering'
    BY <1>0, <1>12 DEF vars, TypeOK, Accepted, Directories, Covering, Incoming, Covers
  <2> QED
    BY <2>1 DEF IngestionInv
<1> QED
  BY <1>1, <1>2, <1>3, <1>4, <1>5, <1>6, <1>7, <1>8, <1>9, <1>10, <1>11, <1>12 DEF Next

LEMMA IngestionInvariant == Spec => [](IngestionInv /\ Numbered)
<1>1. Init => IngestionInv /\ Numbered
  <2> SUFFICES ASSUME Init PROVE IngestionInv /\ Numbered
    OBVIOUS
  <2>1. TypeOK
    BY CountAssumption, BlankIsDataset, BlankIsCandidate DEF Init, TypeOK, Dirs, Steps
  <2>2. Accepted /\ Directories /\ Covering /\ Numbered
    BY DEF Init, Accepted, Directories, Covering, Numbered
  <2> QED
    BY <2>1, <2>2 DEF IngestionInv
<1>2. IngestionInv /\ Numbered /\ [Next]_vars => (IngestionInv /\ Numbered)'
  BY InvInductive, NumberedInductive DEF IngestionInv
<1> QED
  BY <1>1, <1>2, PTL DEF Spec

(* Every row ever staged, set aside or stored has demand the schema accepts, *)
(* whatever is fetched, fails or dies (run_ingestion, ingest.py:84-141).     *)
THEOREM IngestionTypeCorrect == Spec => []TypeOK
<1>1. IngestionInv => TypeOK
  BY DEF IngestionInv
<1> QED
  BY <1>1, IngestionInvariant, PTL

-----------------------------------------------------------------------------
Kept(k) == \E tree \in ({dest, backup} \ {NoDir}) \cup orphans : tree[k] # NoRow

(* A row on disk before a step is on disk after it: the directory it is in   *)
(* stays, is renamed, or is replaced by one that covers it.                  *)
LEMMA KeptStays ==
  ASSUME IngestionInv, [Next]_vars, NEW k \in Keys, Kept(k)
  PROVE  Kept(k)'
<1>0. TypeOK /\ Accepted /\ Directories /\ Covering
  BY DEF IngestionInv
<1>1. PICK tree \in ({dest, backup} \ {NoDir}) \cup orphans : tree[k] # NoRow
  BY DEF Kept
<1>2. ASSUME tree \in ({dest', backup'} \ {NoDir}) \cup orphans' PROVE Kept(k)'
  BY <1>1, <1>2 DEF Kept
<1>3. CASE UNCHANGED <<dest, backup, orphans>>
  BY <1>1, <1>2, <1>3
<1>4. CASE MoveAside \/ Restore
  BY <1>0, <1>1, <1>2, <1>4 DEF MoveAside, Restore, Directories
<1>5. CASE MoveIn
  <2>1. tree \in {backup} \cup orphans
    BY <1>0, <1>1, <1>5 DEF MoveIn, Directories
  <2> QED
    BY <1>1, <1>2, <1>5, <2>1 DEF MoveIn
<1>6. CASE Discard
  <2>1. dest \in Datasets /\ dest # NoDir /\ dest' = dest /\ orphans \subseteq orphans'
    BY <1>0, <1>6, NoDirIsNotDataset DEF Discard, Directories, Abandoned
  <2>2. CASE tree = backup
    <3>1. backup # NoDir /\ backup[k] # NoRow
      BY <1>0, <1>1, <2>2, NoDirIsNotDataset DEF TypeOK
    <3>2. dest[k] # NoRow
      BY <1>0, <1>6, <3>1 DEF Discard, Covering, Covers
    <3> QED
      BY <2>1, <3>2 DEF Kept
  <2>3. CASE tree # backup
    BY <1>1, <1>2, <2>1, <2>3
  <2> QED
    BY <2>2, <2>3
<1>7. CASE StepFails \/ Crash
  BY <1>1, <1>2, <1>7 DEF StepFails, Crash, Abandoned
<1>8. UNCHANGED <<dest, backup, orphans>> \/ MoveAside \/ Restore \/ MoveIn \/ Discard
      \/ StepFails \/ Crash
  BY DEF Next, Fetch, Quarantine, Report, Stage, MoveInFails, LoadTable, vars
<1> QED
  BY <1>3, <1>4, <1>5, <1>6, <1>7, <1>8

(* No failure and no death of the process, at any step of any number of      *)
(* ingestions, removes the last copy of an hour that was ever loaded         *)
(* (_replace_directory, storage.py:205-221).                                 *)
THEOREM NothingDestroyedCorrect == Spec => []NothingDestroyed
<1>1. Init => NothingDestroyed
  BY DEF Init, NothingDestroyed, Blank
<1>2. IngestionInv /\ Numbered /\ NothingDestroyed /\ [Next]_vars => NothingDestroyed'
  <2> SUFFICES ASSUME IngestionInv, NothingDestroyed, [Next]_vars,
                      NEW k \in Keys, table'[k] # NoRow
               PROVE  Kept(k)'
    BY DEF NothingDestroyed, Kept
  <2>0. TypeOK /\ Accepted /\ Directories /\ Covering
    BY DEF IngestionInv
  <2>1. CASE table[k] # NoRow
    <3>1. Kept(k)
      BY <2>1 DEF NothingDestroyed, Kept
    <3> QED
      BY <3>1, KeptStays
  <2>2. CASE table[k] = NoRow
    <3>1. LoadTable
      BY <2>2 DEF Next, Fetch, Quarantine, Report, Stage, MoveAside, MoveIn, MoveInFails,
         Restore, Discard, StepFails, Crash, vars
    <3>2. Incoming[k] # NoRow
      BY <2>0, <2>2, <3>1 DEF LoadTable, Merge, Incoming
    <3>3. dest \in Datasets /\ dest[k] # NoRow /\ dest' = dest
      BY <2>0, <3>1, <3>2 DEF LoadTable, Directories, Covering, Covers
    <3> QED
      BY <3>3, NoDirIsNotDataset DEF Kept
  <2> QED
    BY <2>1, <2>2
<1> QED
  BY <1>1, <1>2, IngestionInvariant, PTL DEF Spec

-----------------------------------------------------------------------------
(* What a replacement under way has computed, and what it will leave: the    *)
(* staging directory is the published dataset merged with the batch, and     *)
(* from the second rename on the dataset holds the batch.                    *)
Replacing ==
  /\ pc = "aside"  => staging = Merge(Existing, Incoming)
  /\ pc = "movein" => staging = Merge(IF backup = NoDir THEN Blank ELSE backup, Incoming)
  /\ pc \in {"discard", "load"} => Holds(dest, Incoming)
  /\ pc = "restore" => faults # 0

LEMMA MergeHolds == \A old, new : Holds(Merge(old, new), new)
  BY DEF Merge, Holds

LEMMA ReplacingInductive == IngestionInv /\ Replacing /\ [Next]_vars => Replacing'
<1> SUFFICES ASSUME IngestionInv, Replacing, [Next]_vars PROVE Replacing'
  OBVIOUS
<1>0. TypeOK /\ Directories
  BY DEF IngestionInv
<1>1. ASSUME NEW b \in Candidates, NEW pol \in {"error", "drop"}, Fetch(b, pol)
      PROVE  Replacing'
  BY <1>1 DEF Fetch, Replacing
<1>2. CASE Quarantine
  BY <1>2 DEF Quarantine, Replacing
<1>3. CASE Report
  <2>1. pc' \in {"idle", "stage"}
    BY <1>3 DEF Report, Stop
  <2> QED
    BY <2>1 DEF Replacing
<1>4. CASE Stage
  BY <1>4 DEF Stage, Replacing, Incoming, Existing
<1>5. CASE MoveAside
  BY <1>0, <1>5 DEF MoveAside, Replacing, Incoming, Existing
<1>6. CASE MoveIn
  BY <1>6, MergeHolds DEF MoveIn, Replacing, Incoming
<1>7. CASE MoveInFails
  BY <1>0, <1>7 DEF MoveInFails, Replacing, TypeOK
<1>8. CASE Discard
  <2>1. Incoming' = Incoming /\ dest' = dest /\ pc = "discard" /\ pc' = "load"
    BY <1>8 DEF Discard, Incoming
  <2> QED
    BY <2>1 DEF Replacing
<1>9. CASE Restore \/ LoadTable \/ StepFails \/ Crash
  BY <1>9 DEF Restore, LoadTable, StepFails, Crash, Stop, Replacing
<1>10. CASE UNCHANGED vars
  BY <1>10 DEF vars, Replacing, Incoming, Existing
<1> QED
  BY <1>1, <1>2, <1>3, <1>4, <1>5, <1>6, <1>7, <1>8, <1>9, <1>10 DEF Next

(* The quarantine files are numbered by the ingestions so far; the one of    *)
(* the ingestion under way, once written, names exactly its hours without    *)
(* demand, and under "drop" it is written before the batch is judged.        *)
Judged == {"report", "stage", "aside", "movein", "restore", "discard", "load"}

Audited ==
  /\ \A q \in quarantined : q[1] <= runs
  /\ pc = "quarantine" => \A q \in quarantined : q[1] # runs
  /\ pc \in Judged =>
       /\ \A q \in quarantined : q[1] = runs => q[2] = With(batch, NoDemand)
       /\ policy = "drop" /\ With(batch, NoDemand) # {} =>
            <<runs, With(batch, NoDemand)>> \in quarantined
  /\ pc \in Judged \ {"report"} /\ policy = "error" => With(batch, NoDemand) = {}

LEMMA AuditedInductive == TypeOK /\ Audited /\ [Next]_vars => Audited'
<1> SUFFICES ASSUME TypeOK, Audited, [Next]_vars PROVE Audited'
  OBVIOUS
<1>0. runs \in Nat /\ \A q \in quarantined : q[1] \in Nat
  BY CountAssumption DEF TypeOK
<1>1. ASSUME NEW b \in Candidates, NEW pol \in {"error", "drop"}, Fetch(b, pol)
      PROVE  Audited'
  <2>1. /\ quarantined' = quarantined /\ runs' = runs + 1
        /\ \A q \in quarantined' : q[1] <= runs' /\ q[1] # runs'
    BY <1>0, <1>1 DEF Fetch, Audited
  <2>2. /\ batch' = b /\ policy' = pol
        /\ pc' = IF pol = "drop" /\ With(b, NoDemand) # {} THEN "quarantine" ELSE "report"
    BY <1>1 DEF Fetch
  <2> QED
    BY <2>1, <2>2 DEF Audited, Judged
<1>2. CASE Quarantine
  <2>1. /\ UNCHANGED <<batch, policy, runs>> /\ pc = "quarantine" /\ pc' = "report"
        /\ quarantined' = quarantined \cup {<<runs, With(batch, NoDemand)>>}
    BY <1>2 DEF Quarantine
  <2> QED
    BY <1>0, <2>1 DEF Audited, Judged
<1>3. CASE Report
  <2>1. /\ quarantined' \subseteq quarantined /\ runs' = runs
        /\ \/ pc' = "idle"
           \/ /\ pc = "report" /\ pc' = "stage" /\ UNCHANGED <<batch, policy, quarantined>>
              /\ policy = "error" => With(batch, NoDemand) = {}
    BY <1>3 DEF Report, Stop
  <2> QED
    BY <2>1 DEF Audited, Judged
<1>4. CASE Stage \/ MoveAside \/ MoveIn \/ MoveInFails \/ Discard
  <2>1. /\ UNCHANGED <<batch, policy, runs, quarantined>>
        /\ pc \in Judged \ {"report"} /\ pc' \in Judged \ {"report"}
    BY <1>4 DEF Stage, MoveAside, MoveIn, MoveInFails, Discard, Judged
  <2> QED
    BY <2>1 DEF Audited, Judged
<1>5. CASE Restore \/ LoadTable \/ StepFails \/ Crash
  <2>1. UNCHANGED <<runs, quarantined>> /\ pc' = "idle"
    BY <1>5 DEF Restore, LoadTable, StepFails, Crash, Stop
  <2> QED
    BY <2>1 DEF Audited, Judged
<1>6. CASE UNCHANGED vars
  BY <1>6 DEF vars, Audited
<1> QED
  BY <1>1, <1>2, <1>3, <1>4, <1>5, <1>6 DEF Next

StrongInv == IngestionInv /\ Numbered /\ Replacing /\ Audited

LEMMA StrongInvariant == Spec => []StrongInv
<1>1. Init => Replacing /\ Audited
  BY DEF Init, Replacing, Audited, Judged
<1>2. StrongInv /\ [Next]_vars => (Replacing /\ Audited)'
  BY ReplacingInductive, AuditedInductive DEF StrongInv, IngestionInv
<1>3. IngestionInv /\ Numbered /\ Replacing /\ Audited <=> StrongInv
  BY DEF StrongInv
<1> QED
  BY <1>1, <1>2, <1>3, IngestionInvariant, PTL DEF Spec

(* When an ingestion loads the table, every hour it fetched is either in     *)
(* both stores with the fetched value or in this ingestion's quarantine      *)
(* file, which names exactly the hours without demand (run_ingestion,        *)
(* ingest.py:78-141), whatever was fetched before and whatever failed.       *)
THEOREM FetchedHoursAccounted == Spec => EveryFetchedHourAccounted
<1>1. ASSUME StrongInv, LoadTable, NEW k \in Fetched(batch)
      PROVE  IF \E q \in quarantined : q[1] = runs /\ k \in q[2]
             THEN batch[k] = NoDemand
             ELSE dest'[k] = batch[k] /\ table'[k] = batch[k]
  <2>0. pc = "load" /\ TypeOK /\ Replacing /\ Audited /\ k \in Keys /\ batch[k] # NoRow
    BY <1>1 DEF StrongInv, IngestionInv, LoadTable, Fetched
  <2>1. pc \in Judged /\ pc \in Judged \ {"report"}
    BY <2>0 DEF Judged
  <2>2. CASE \E q \in quarantined : q[1] = runs /\ k \in q[2]
    <3>1. k \in With(batch, NoDemand)
      BY <2>0, <2>1, <2>2 DEF Audited
    <3> QED
      BY <2>2, <3>1 DEF With
  <2>3. CASE ~ \E q \in quarantined : q[1] = runs /\ k \in q[2]
    <3>1. batch[k] # NoDemand
      <4>1. policy = "error" \/ policy = "drop"
        BY <2>0 DEF TypeOK
      <4>2. k \notin With(batch, NoDemand)
        BY <2>0, <2>1, <2>3, <4>1 DEF Audited
      <4> QED
        BY <2>0, <4>2 DEF With
    <3>2. Incoming[k] = batch[k]
      BY <2>0, <3>1 DEF Incoming, Retained
    <3>3. dest[k] = Incoming[k]
      BY <2>0, <3>2 DEF Replacing, Holds
    <3>4. dest' = dest /\ table' = Merge(table, Incoming)
      BY <1>1 DEF LoadTable, Incoming
    <3>5. table'[k] = Incoming[k]
      BY <2>0, <3>2, <3>4 DEF Merge
    <3> QED
      BY <2>3, <3>2, <3>3, <3>4, <3>5
  <2> QED
    BY <2>2, <2>3
<1>2. StrongInv /\ [Next]_vars =>
        [LoadTable =>
           \A k \in Fetched(batch) :
             IF \E q \in quarantined : q[1] = runs /\ k \in q[2]
             THEN batch[k] = NoDemand
             ELSE dest'[k] = batch[k] /\ table'[k] = batch[k]]_vars
  BY <1>1
<1> QED
  BY <1>2, StrongInvariant, PTL DEF Spec, EveryFetchedHourAccounted

-----------------------------------------------------------------------------
(* Ingestion implements ObservationStore, whose operators on datasets are    *)
(* the same ones.                                                            *)
LEMMA StoreOperators ==
  /\ Store!Blank = Blank /\ Store!Datasets = Datasets
  /\ \A old, new : Store!Merge(old, new) = Merge(old, new)
  /\ \A dataset, rows : Store!Holds(dataset, rows) <=> Holds(dataset, rows)
  BY DEF Store!Blank, Blank, Store!Datasets, Datasets, Store!Merge, Merge, Store!Holds, Holds

LEMMA PublishStep ==
  ASSUME NEW rows \in Datasets, Published' = Merge(Published, rows), table' = table
  PROVE  Store!Next
<1>1. Store!Publish(rows)
  BY StoreOperators DEF Store!Publish
<1> QED
  BY <1>1, StoreOperators DEF Store!Next

LEMMA LoadStep ==
  ASSUME NEW rows \in Datasets, Holds(Published, rows), table' = Merge(table, rows),
         Published' = Published
  PROVE  Store!Next
<1>1. Store!Load(rows)
  BY StoreOperators DEF Store!Load
<1> QED
  BY <1>1, StoreOperators DEF Store!Next

LEMMA StoreStep ==
  ASSUME MaxCrashes = 0, MaxFaults \in {0, 1}, StrongInv, [Next]_vars
  PROVE  Store!Next \/ UNCHANGED <<Published, table>>
<1>0. TypeOK /\ Accepted /\ Directories /\ Replacing
  BY DEF StrongInv, IngestionInv
<1>1. ASSUME NEW b \in Candidates, NEW pol \in {"error", "drop"}, Fetch(b, pol)
      PROVE  UNCHANGED <<Published, table>>
  BY <1>1 DEF Fetch, Published, Existing
<1>2. CASE Quarantine
  BY <1>2 DEF Quarantine, Published, Existing
<1>3. CASE Report
  <2>1. pc = "report" /\ pc' \in {"idle", "stage"} /\ UNCHANGED <<dest, table>>
    BY <1>3 DEF Report, Stop
  <2> QED
    BY <2>1 DEF Published, Existing
<1>4. CASE Stage
  BY <1>4 DEF Stage, Published, Existing
<1>5. CASE MoveAside
  BY <1>0, <1>5 DEF MoveAside, Published, Existing
<1>6. CASE MoveIn
  <2>1. pc = "movein" /\ pc' = "discard" /\ dest' = staging /\ table' = table
    BY <1>6 DEF MoveIn
  <2>2. Published = IF backup = NoDir THEN Blank ELSE backup
    BY <2>1 DEF Published
  <2>3. staging \in Datasets /\ staging # NoDir /\ Incoming \in Datasets
    BY <1>0, <2>1, NoDirIsNotDataset DEF Directories, Accepted
  <2>4. Published' = staging
    BY <2>1, <2>3 DEF Published, Existing
  <2>5. Published' = Merge(Published, Incoming)
    BY <1>0, <2>1, <2>2, <2>4 DEF Replacing
  <2> QED
    BY <2>1, <2>3, <2>5, PublishStep
<1>7. CASE MoveInFails
  BY <1>7 DEF MoveInFails, Published
<1>8. CASE Restore
  <2>1. pc = "restore" /\ pc' = "idle" /\ dest' = backup /\ table' = table
    BY <1>8 DEF Restore, Stop
  <2> QED
    BY <2>1 DEF Published, Existing
<1>9. CASE Discard
  <2>1. pc = "discard" /\ pc' = "load" /\ UNCHANGED <<dest, table>>
    BY <1>9 DEF Discard
  <2> QED
    BY <2>1 DEF Published, Existing
<1>10. CASE LoadTable
  <2>1. pc = "load" /\ pc' = "idle" /\ dest' = dest /\ table' = Merge(table, Incoming)
    BY <1>10 DEF LoadTable, Stop, Incoming
  <2>2. dest \in Datasets /\ dest # NoDir /\ Incoming \in Datasets /\ Holds(dest, Incoming)
    BY <1>0, <2>1, NoDirIsNotDataset DEF Directories, Accepted, Replacing
  <2>3. Published = dest /\ Published' = dest
    BY <2>1, <2>2 DEF Published, Existing
  <2> QED
    BY <2>1, <2>2, <2>3, LoadStep
<1>11. CASE StepFails
  <2>1. faults = 0 /\ pc' = "idle" /\ UNCHANGED <<dest, table>>
    BY <1>0, <1>11 DEF StepFails, Stop, TypeOK
  <2>2. pc \notin {"movein", "restore"}
    BY <1>0, <1>11, <2>1 DEF StepFails, Replacing
  <2> QED
    BY <2>1, <2>2 DEF Published, Existing
<1>12. ~ Crash
  BY <1>0 DEF Crash, TypeOK
<1>13. CASE UNCHANGED vars
  BY <1>13 DEF vars, Published, Existing
<1> QED
  BY <1>1, <1>2, <1>3, <1>4, <1>5, <1>6, <1>7, <1>8, <1>9, <1>10, <1>11, <1>12, <1>13
  DEF Next

(* While no process dies and at most one step raises, the sequence of        *)
(* renames is one atomic publication of the merged dataset: a replacement    *)
(* that fails leaves the previous dataset, and DuckDB takes over only rows   *)
(* the dataset holds (write_processed_parquet and _replace_directory,        *)
(* storage.py:70-103 and 205-221).  With a second failure, in the restoring  *)
(* rename, or a death between the renames, it is not.                        *)
THEOREM StoreImplemented ==
  ASSUME MaxCrashes = 0, MaxFaults \in {0, 1}
  PROVE  Spec => StoreSpec
<1>1. Init => Store!Init
  BY StoreOperators DEF Init, Store!Init, Published, Existing
<1>2. StrongInv /\ [Next]_vars => [Store!Next]_<<Published, table>>
  BY StoreStep
<1> QED
  BY <1>1, <1>2, StrongInvariant, PTL DEF Spec, StoreSpec, Store!Spec, Store!storeVars
=============================================================================
