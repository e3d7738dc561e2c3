-------------------------- MODULE MCAlertLifecycle --------------------------
(* Small instances of AlertLifecycle for TLC.                                *)
EXTENDS AlertLifecycle

CONSTANTS s1, s2, runner, operator
OneStream    == {s1}
TwoStreams   == {s1, s2}
OneRunner    == {runner}
OneOperator  == {operator}
OneSeverity  == {1}
TwoSeverities == {1, 2}
=============================================================================
