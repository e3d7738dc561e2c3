------------------------------ MODULE Readings ------------------------------
(***************************************************************************)
(* Hourly readings: a series is a function from the hours it has rows for   *)
(* to values, NaN standing for a value that is no finite number.            *)
(***************************************************************************)
EXTENDS Integers, FiniteSets, FiniteSetsExt, Sequences, SequencesExt, TLC

CONSTANT NaN

Least(a, b) == IF a < b THEN a ELSE b
Most(a, b)  == IF a > b THEN a ELSE b

Plus(a, b)  == IF NaN \in {a, b} THEN NaN ELSE a + b
Minus(a, b) == IF NaN \in {a, b} THEN NaN ELSE a - b

(* The rows of a series from hour first to hour last.                        *)
Between(s, first, last) == [h \in DOMAIN s \cap (first .. last) |-> s[h]]

(* The members of a set in a strict order: the n-th is the one with n - 1    *)
(* before it.                                                                *)
InOrder(S, before(_, _)) ==
  [n \in 1 .. Cardinality(S) |-> CHOOSE x \in S : Cardinality({y \in S : before(y, x)}) = n - 1]

Hourly(hours) == InOrder(hours, <)

(* DELETE of the keys an incoming batch has, and its INSERT.                 *)
Override(stored, batch) ==
  [k \in DOMAIN stored \cup DOMAIN batch |-> IF k \in DOMAIN batch THEN batch[k] ELSE stored[k]]
=============================================================================
