--------------------------- MODULE AlertContracts ---------------------------
(***************************************************************************)
(* The data of the alert subsystem (src/src/gridmind/alerts) and the pure   *)
(* part of AlertManager: which stored alert an anomaly folds into, and what *)
(* the row looks like afterwards.                                           *)
(*                                                                         *)
(* A stream is one (region, target, anomaly_type) triple.  The ensemble     *)
(* emits at most one anomaly per stream and hour, whose deterministic id    *)
(* hashes exactly that pair, so an anomaly id is <<stream, hour>>.          *)
(* deterministic_alert_id hashes (region, target, type, first_seen), so an  *)
(* alert id is <<stream, first hour>>; first_seen_utc is the id's second    *)
(* component and latest_anomaly_id is <<stream, last>>, which is why        *)
(* neither is a field of the row.                                           *)
(***************************************************************************)
EXTENDS Integers

CONSTANTS
  Streams,          \* (region, target, anomaly_type) triples
  MaxHour,          \* bound: event hours are 0 .. MaxHour
  Severities,       \* ranks of SEVERITY_RANK: info 0, warning 1, critical 2
  DedupHours,       \* ALERT_DEDUP_WINDOW_HOURS
  AutoResolveHours, \* ALERT_AUTO_RESOLVE_HOURS
  NoAlert           \* "no row with this id"

Hours      == 0 .. MaxHour
AnomalyIds == Streams \X Hours
AlertIds   == Streams \X Hours

Statuses       == {"open", "acknowledged", "resolved", "suppressed"}
ActiveStatuses == {"open", "acknowledged"}
Actions == {"opened", "reopened", "occurrence", "acknowledged", "resolved",
            "suppressed", "auto_resolved"}

(* acknowledged_at_utc and resolved_at_utc: the n-th wall-clock reading, an  *)
(* event hour (auto_resolve is given the end of the detection window), or    *)
(* NaT.                                                                      *)
Stamp == {"never", "wall", "hour"} \X Nat
Never == <<"never", 0>>

Alert == [status: Statuses, severity: Severities, last: Hours,
          count: Nat \ {0}, acked: Stamp, resolved: Stamp]

Tables == [AlertIds -> Alert \cup {NoAlert}]

(* A row of alert_history.  Its history_id hashes (alert_id, action,         *)
(* fingerprint of prev, fingerprint of new), so the id is the whole record;  *)
(* changed_at_utc is not part of it.  The fingerprint covers the business    *)
(* fields of Alert and not updated_at_utc.                                   *)
Entry == [alert: AlertIds, action: Actions, prev: Alert \cup {NoAlert}, new: Alert]

ASSUME SeverityAssumption == Severities \subseteq 0 .. 2
ASSUME MaxHourAssumption  == MaxHour \in Nat
ASSUME WindowAssumption   == /\ DedupHours \in Nat \ {0}
                             /\ AutoResolveHours \in Nat \ {0}
ASSUME NoAlertAssumption  == NoAlert \notin Alert

-----------------------------------------------------------------------------
Exists(table, id) == table[id] # NoAlert
Active(row)       == row.status \in ActiveStatuses

(* The anomaly a history row names in its anomaly_id column.                 *)
AnomalyOf(e) == <<e.alert[1], e.new.last>>

(* read_history()["anomaly_id"]: the anomalies process() skips.              *)
Represented(entries) == {AnomalyOf(e) : e \in entries}

Opened(sev, h) == [status |-> "open", severity |-> sev, last |-> h, count |-> 1,
                   acked |-> Never, resolved |-> Never]

(* Faulty forms, named Slip..., stand before the definitions they would      *)
(* replace; each is a plausible slip in the code and breaks some property.   *)
SlipCountOnlyRepeats(row, sev, h) ==
  [row EXCEPT !.last = h, !.count = IF sev > row.severity THEN @ ELSE @ + 1,
              !.severity = IF sev > @ THEN sev ELSE @]

WithOccurrence(row, sev, h) ==
  [row EXCEPT !.last = h, !.count = @ + 1,
              !.severity = IF sev > @ THEN sev ELSE @]

WithStatus(row, status, stamp) ==
  [row EXCEPT !.status   = status,
              !.acked    = IF status = "acknowledged" THEN stamp ELSE @,
              !.resolved = IF status = "resolved" THEN stamp
                           ELSE IF status = "open" THEN Never ELSE @]

StatusAction(status) == IF status = "open" THEN "reopened" ELSE status

SlipFoldBackwards(table, s, h) ==
  {id \in AlertIds : /\ id[1] = s
                     /\ Exists(table, id)
                     /\ Active(table[id])
                     /\ h - table[id].last <= DedupHours}

SlipFoldIntoSuppressed(table, s, h) ==
  {id \in AlertIds : /\ id[1] = s
                     /\ Exists(table, id)
                     /\ table[id].status # "resolved"
                     /\ table[id].last <= h
                     /\ h - table[id].last <= DedupHours}

(* _dedup_match: active alerts of the stream last seen at most DedupHours    *)
(* before the anomaly (never after it), and among them the latest.           *)
Candidates(table, s, h) ==
  {id \in AlertIds : /\ id[1] = s
                     /\ Exists(table, id)
                     /\ Active(table[id])
                     /\ table[id].last <= h
                     /\ h - table[id].last <= DedupHours}

DedupMatch(table, s, h) ==
  {id \in Candidates(table, s, h) :
     \A other \in Candidates(table, s, h) : table[other].last <= table[id].last}

(* What folding one anomaly into a table may record: an occurrence of a      *)
(* matching alert (max() keeps any one of equal maxima), or else the row     *)
(* keyed by the anomaly's own hour, replacing what is stored there.          *)
Observed(table, s, h, sev) ==
  IF DedupMatch(table, s, h) = {}
  THEN {[alert  |-> <<s, h>>,
         action |-> IF Exists(table, <<s, h>>) THEN "reopened" ELSE "opened",
         prev   |-> table[<<s, h>>],
         new    |-> Opened(sev, h)]}
  ELSE {[alert |-> id, action |-> "occurrence", prev |-> table[id],
         new |-> WithOccurrence(table[id], sev, h)] : id \in DedupMatch(table, s, h)}

(* auto_resolve's selection and update_status's row and history entry.       *)
Eligible(table, end) ==
  {id \in AlertIds : /\ Exists(table, id)
                     /\ Active(table[id])
                     /\ end >= table[id].last + AutoResolveHours}

SlipReasonAsStatus(table, id, status, stamp, action) ==
  [alert |-> id, action |-> action, prev |-> table[id],
   new |-> WithStatus(table[id], action, stamp)]

StatusEntry(table, id, status, stamp, action) ==
  [alert |-> id, action |-> action, prev |-> table[id],
   new |-> WithStatus(table[id], status, stamp)]
=============================================================================
