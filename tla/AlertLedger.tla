----------------------------- MODULE AlertLedger -----------------------------
(***************************************************************************)
(* What the alert subsystem promises: a ledger in which every lifecycle     *)
(* operation is one atomic step that changes the row and journals the       *)
(* change together.  AlertLifecycle is the detailed specification, in which *)
(* each operation is a sequence of DuckDB connections.                      *)
(***************************************************************************)
EXTENDS AlertContracts, FiniteSets

CONSTANT MaxClock   \* bound: manual status changes per behaviour

ASSUME ClockAssumption == MaxClock \in Nat

VARIABLES ledger,   \* grid_alerts
          journal,  \* alert_history
          clock     \* wall-clock readings taken by manual status changes

ledgerVars == <<ledger, journal, clock>>

LedgerTypeOK == /\ ledger \in Tables
                /\ journal \subseteq Entry
                /\ clock \in 0 .. MaxClock

Init == /\ ledger = [id \in AlertIds |-> NoAlert]
        /\ journal = {}
        /\ clock = 0

Commit(e) == /\ ledger' = [ledger EXCEPT ![e.alert] = e.new]
             /\ journal' = journal \cup {e}

(* AlertManager.process, for one anomaly that no history row names yet.      *)
Observe(s, h, sev) ==
  /\ <<s, h>> \notin Represented(journal)
  /\ \E e \in Observed(ledger, s, h, sev) : e.new # e.prev /\ Commit(e)
  /\ UNCHANGED clock

(* AlertManager.update_status, called without an explicit time.              *)
Decide(id, status) ==
  /\ clock < MaxClock
  /\ Exists(ledger, id)
  /\ ledger[id].status # status
  /\ clock' = clock + 1
  /\ Commit(StatusEntry(ledger, id, status, <<"wall", clock + 1>>, StatusAction(status)))

(* AlertManager.auto_resolve, for one eligible alert.                        *)
Expire(id, end) ==
  /\ id \in Eligible(ledger, end)
  /\ Commit(StatusEntry(ledger, id, "resolved", <<"hour", end>>, "auto_resolved"))
  /\ UNCHANGED clock

Next == \/ \E s \in Streams, h \in Hours, sev \in Severities : Observe(s, h, sev)
        \/ \E id \in AlertIds, status \in Statuses : Decide(id, status)
        \/ \E id \in AlertIds, end \in Hours : Expire(id, end)

Spec == Init /\ [][Next]_ledgerVars

-----------------------------------------------------------------------------
Sightings == {e \in journal : e.action \in {"opened", "occurrence"}}

(* occurrence_count is exactly the number of distinct anomalies the journal  *)
(* attributes to the alert (process, lifecycle.py:64-96).                    *)
CountMatchesJournal ==
  \A id \in AlertIds : Exists(ledger, id) =>
    ledger[id].count = Cardinality({AnomalyOf(e) : e \in {x \in Sightings : x.alert = id}})

(* Deduplication attributes an anomaly to one alert, whose span from         *)
(* first_seen to last_seen contains it (_dedup_match, lifecycle.py:169-183). *)
EachAnomalyInOneAlert ==
  /\ \A e, f \in Sightings : AnomalyOf(e) = AnomalyOf(f) => e = f
  /\ \A e \in Sightings : /\ Exists(ledger, e.alert)
                          /\ e.alert[2] <= e.new.last
                          /\ e.new.last <= ledger[e.alert].last

(* An anomaly never undoes what an operator decided: a row that gains an     *)
(* anomaly was active, keeps its status and stamps, moves forward in time    *)
(* and never drops in severity (_proposed_occurrence, lifecycle.py:185-199). *)
ObservationKeepsDecision ==
  [][\A id \in AlertIds :
       (Exists(ledger, id) /\ ledger[id].last # ledger'[id].last)
         => /\ ledger'[id].last > ledger[id].last
            /\ Active(ledger[id])
            /\ ledger'[id].status = ledger[id].status
            /\ ledger'[id].acked = ledger[id].acked
            /\ ledger'[id].severity >= ledger[id].severity]_ledgerVars
=============================================================================
