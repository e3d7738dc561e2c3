-------------------------- MODULE ObservationStore --------------------------
(***************************************************************************)
(* What ingestion promises about the canonical observations: the Parquet    *)
(* dataset changes by whole merged batches, and DuckDB's hourly_grid_data   *)
(* takes over only rows the dataset already holds.  Ingestion is the        *)
(* detailed specification, in which a batch is published by a sequence of   *)
(* directory renames that can fail.                                         *)
(***************************************************************************)
EXTENDS Observations

VARIABLES parquet,  \* data/processed
          table     \* hourly_grid_data

storeVars == <<parquet, table>>

Init == parquet = Blank /\ table = Blank

Publish(rows) == parquet' = Merge(parquet, rows) /\ UNCHANGED table

Load(rows) == /\ Holds(parquet, rows)
              /\ table' = Merge(table, rows)
              /\ UNCHANGED parquet

Next == \E rows \in Datasets : Publish(rows) \/ Load(rows)

Spec == Init /\ [][Next]_storeVars
=============================================================================
