---------------------------- MODULE Observations ----------------------------
(***************************************************************************)
(* Canonical hourly observations (src/src/gridmind/data): a dataset has at  *)
(* most one row per (region, timestamp_utc), and is merged with an incoming *)
(* batch key by key.                                                        *)
(***************************************************************************)
CONSTANTS
  Keys,    \* (region, timestamp_utc) pairs
  Values,  \* what a row can measure; a revised observation has another value
  NoRow    \* "no row with this key"

ASSUME NoRowAssumption == NoRow \notin Values

Datasets == [Keys -> Values \cup {NoRow}]
Blank    == [k \in Keys |-> NoRow]

(* Faulty forms, named Slip..., stand before the definitions they would      *)
(* replace; each is a plausible slip in the code and breaks some property.   *)
SlipKeepFirst(old, new) == [k \in Keys |-> IF old[k] = NoRow THEN new[k] ELSE old[k]]

(* drop_duplicates(keep="last") after concat, and DELETE with INSERT: an     *)
(* incoming row replaces the stored row of its key.                          *)
Merge(old, new) == [k \in Keys |-> IF new[k] = NoRow THEN old[k] ELSE new[k]]

Holds(dataset, rows) == \A k \in Keys : rows[k] # NoRow => dataset[k] = rows[k]
=============================================================================
