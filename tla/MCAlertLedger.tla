---------------------------- MODULE MCAlertLedger ----------------------------
(* A small instance of AlertLedger for TLC.                                  *)
EXTENDS AlertLedger

CONSTANT s1
MCStreams    == {s1}
MCSeverities == {1, 2}
=============================================================================
