-------------------------- MODULE AlertLedgerProofs --------------------------
(***************************************************************************)
(* Theorems about AlertLedger for every set of streams, every number of     *)
(* hours and every window.  The invariant LedgerInv adds to the three       *)
(* safety properties what an observation relies on: the hour an alert was   *)
(* opened at is represented, so process() never opens the row of an alert   *)
(* that exists; a row's last hour is journaled, so it never folds it again; *)
(* and each alert's anomalies are finitely many.                            *)
(***************************************************************************)
EXTENDS AlertLedger, AlertContractsTheorems, FiniteSetTheorems

Attributed(id) == {AnomalyOf(e) : e \in {x \in Sightings : x.alert = id}}

OpeningsRepresented ==
  \A id \in AlertIds : Exists(ledger, id) => id \in Represented(journal)

SpansForward == \A id \in AlertIds : Exists(ledger, id) => id[2] <= ledger[id].last

CountsFinite == \A id \in AlertIds : IsFiniteSet(Attributed(id))

RowsJournaled ==
  \A id \in AlertIds : Exists(ledger, id) =>
    \E e \in journal : e.alert = id /\ e.new = ledger[id]

Counted ==
  \A id \in AlertIds : Exists(ledger, id) => ledger[id].count = Cardinality(Attributed(id))

LedgerInv == /\ LedgerTypeOK
             /\ OpeningsRepresented
             /\ SpansForward
             /\ CountsFinite
             /\ Counted
             /\ EachAnomalyInOneAlert
             /\ RowsJournaled

-----------------------------------------------------------------------------
LEMMA RowTypes ==
  ASSUME LedgerTypeOK, NEW id \in AlertIds
  PROVE  /\ ledger[id] \in Alert \cup {NoAlert}
         /\ Exists(ledger, id) => /\ ledger[id] \in Alert
                                  /\ ledger[id].last \in Int
                                  /\ ledger[id].count \in Nat
         /\ id[1] \in Streams /\ id[2] \in Int
<1>1. ledger[id] \in Alert \cup {NoAlert}
  BY DEF LedgerTypeOK, Tables
<1>2. Exists(ledger, id) => ledger[id] \in Alert
  BY <1>1 DEF Exists
<1>3. ledger[id] \in Alert => ledger[id].last \in Int /\ ledger[id].count \in Nat
  BY HoursAreNat DEF Alert
<1>4. id[1] \in Streams /\ id[2] \in Int
  BY HoursAreNat DEF AlertIds
<1> QED
  BY <1>1, <1>2, <1>3, <1>4

LEMMA EntryTypes ==
  ASSUME NEW e \in Entry
  PROVE  /\ e.alert \in AlertIds /\ e.new \in Alert /\ e.new # NoAlert
         /\ e.new.last \in Int /\ e.prev \in Alert \cup {NoAlert}
         /\ e.alert[1] \in Streams /\ e.alert[2] \in Int
BY HoursAreNat, NoAlertAssumption DEF Entry, Alert, AlertIds

(* What an observation journals, given the invariant: the opening of an      *)
(* alert that does not exist yet, or an occurrence of an active one last     *)
(* seen strictly earlier.                                                    *)
LEMMA ObservationOutcome ==
  ASSUME LedgerInv, NEW s \in Streams, NEW h \in Hours, NEW sev \in Severities,
         <<s, h>> \notin Represented(journal),
         NEW e \in Observed(ledger, s, h, sev)
  PROVE  \/ /\ e.action = "opened" /\ e.alert = <<s, h>>
            /\ ~Exists(ledger, e.alert) /\ e.prev = NoAlert
            /\ e.new.last = h /\ e.new.count = 1
         \/ /\ e.action = "occurrence" /\ e.alert[1] = s
            /\ Exists(ledger, e.alert) /\ Active(ledger[e.alert])
            /\ ledger[e.alert].last < h
            /\ e.new.last = h /\ e.new.count = ledger[e.alert].count + 1
            /\ e.new.status = ledger[e.alert].status
            /\ e.new.acked = ledger[e.alert].acked
            /\ e.new.severity >= ledger[e.alert].severity
<1>0. LedgerTypeOK /\ ledger \in Tables /\ h \in Int
  BY HoursAreNat DEF LedgerInv, LedgerTypeOK
<1>1. CASE DedupMatch(ledger, s, h) = {}
  <2>1. <<s, h>> \in AlertIds /\ ~Exists(ledger, <<s, h>>)
    BY DEF LedgerInv, OpeningsRepresented, AlertIds
  <2>2. e = [alert  |-> <<s, h>>, action |-> "opened", prev |-> ledger[<<s, h>>],
             new |-> Opened(sev, h)]
    BY <1>1, <2>1 DEF Observed
  <2> QED
    BY <2>1, <2>2 DEF Exists, Opened
<1>2. CASE DedupMatch(ledger, s, h) # {}
  <2>1. PICK id \in DedupMatch(ledger, s, h) :
          e = [alert |-> id, action |-> "occurrence", prev |-> ledger[id],
               new |-> WithOccurrence(ledger[id], sev, h)]
    BY <1>2 DEF Observed
  <2>2. /\ id \in AlertIds /\ id[1] = s /\ Exists(ledger, id) /\ Active(ledger[id])
        /\ ledger[id].last <= h
    BY DEF DedupMatch, Candidates
  <2>3. ledger[id] \in Alert /\ ledger[id].last \in Int
    BY <1>0, <2>2, RowTypes
  <2>4. ledger[id].last # h
    <3>1. PICK f \in journal : f.alert = id /\ f.new = ledger[id]
      BY <2>2 DEF LedgerInv, RowsJournaled
    <3>2. AnomalyOf(f) = <<s, ledger[id].last>> /\ AnomalyOf(f) \in Represented(journal)
      BY <2>2, <3>1 DEF AnomalyOf, Represented
    <3> QED
      BY <3>2
  <2>5. /\ e.new.last = h /\ e.new.count = ledger[id].count + 1
        /\ e.new.status = ledger[id].status /\ e.new.acked = ledger[id].acked
        /\ e.new.severity >= ledger[id].severity
    BY <2>1, <2>3, WithOccurrenceType
  <2> QED
    BY <1>0, <2>1, <2>2, <2>3, <2>4, <2>5
<1> QED
  BY <1>1, <1>2

-----------------------------------------------------------------------------
(* What every operation of the ledger does: it commits one well-formed entry *)
(* that starts from the stored row, and either observes a new anomaly or     *)
(* changes neither the count nor the last hour of an existing alert.         *)
Observing(e) ==
  /\ AnomalyOf(e) \notin Represented(journal)
  /\ e.alert[2] <= e.new.last
  /\ \/ /\ e.action = "opened" /\ e.alert = AnomalyOf(e)
        /\ ~Exists(ledger, e.alert) /\ e.new.count = 1
     \/ /\ e.action = "occurrence"
        /\ Exists(ledger, e.alert) /\ Active(ledger[e.alert])
        /\ ledger[e.alert].last < e.new.last
        /\ e.new.count = ledger[e.alert].count + 1
        /\ e.new.status = ledger[e.alert].status
        /\ e.new.acked = ledger[e.alert].acked
        /\ e.new.severity >= ledger[e.alert].severity

Deciding(e) == /\ e.action \notin {"opened", "occurrence"}
               /\ Exists(ledger, e.alert)
               /\ e.new.last = ledger[e.alert].last
               /\ e.new.count = ledger[e.alert].count

LEMMA StepCommits ==
  ASSUME LedgerInv, Next
  PROVE  /\ clock' \in 0 .. MaxClock
         /\ \E e \in Entry : /\ Commit(e) /\ e.prev = ledger[e.alert]
                             /\ Observing(e) \/ Deciding(e)
<1>0. LedgerTypeOK /\ ledger \in Tables /\ clock \in 0 .. MaxClock
  BY DEF LedgerInv, LedgerTypeOK
<1>1. ASSUME NEW s \in Streams, NEW h \in Hours, NEW sev \in Severities, Observe(s, h, sev)
      PROVE  /\ clock' \in 0 .. MaxClock
             /\ \E e \in Entry : /\ Commit(e) /\ e.prev = ledger[e.alert] /\ Observing(e)
  <2>1. <<s, h>> \notin Represented(journal) /\ clock' = clock
    BY <1>1 DEF Observe
  <2>2. PICK e \in Observed(ledger, s, h, sev) : Commit(e)
    BY <1>1 DEF Observe
  <2>3. e \in Entry /\ e.prev = ledger[e.alert] /\ AnomalyOf(e) = <<s, h>>
    BY <1>0, ObservedEntry
  <2>4. \/ /\ e.action = "opened" /\ e.alert = <<s, h>>
            /\ ~Exists(ledger, e.alert) /\ e.prev = NoAlert
            /\ e.new.last = h /\ e.new.count = 1
         \/ /\ e.action = "occurrence" /\ e.alert[1] = s
            /\ Exists(ledger, e.alert) /\ Active(ledger[e.alert])
            /\ ledger[e.alert].last < h
            /\ e.new.last = h /\ e.new.count = ledger[e.alert].count + 1
            /\ e.new.status = ledger[e.alert].status
            /\ e.new.acked = ledger[e.alert].acked
            /\ e.new.severity >= ledger[e.alert].severity
    BY <2>1, ObservationOutcome
  <2>5. h \in Int /\ e.alert \in AlertIds /\ e.alert[2] \in Int
    BY <2>3, EntryTypes, HoursAreNat
  <2>6. e.alert[2] <= h
    <3>1. CASE e.alert = <<s, h>>
      BY <2>5, <3>1
    <3>2. CASE Exists(ledger, e.alert) /\ ledger[e.alert].last < h
      <4>1. e.alert[2] <= ledger[e.alert].last /\ ledger[e.alert].last \in Int
        BY <1>0, <2>5, <3>2, RowTypes DEF LedgerInv, SpansForward
      <4> QED
        BY <2>5, <3>2, <4>1
    <3> QED
      BY <2>4, <3>1, <3>2
  <2>7. Observing(e)
    BY <2>1, <2>3, <2>4, <2>6 DEF Observing
  <2> QED
    BY <1>0, <2>1, <2>2, <2>3, <2>7
<1>2. ASSUME NEW id \in AlertIds, NEW status \in Statuses, Decide(id, status)
      PROVE  /\ clock' \in 0 .. MaxClock
             /\ \E e \in Entry : /\ Commit(e) /\ e.prev = ledger[e.alert] /\ Deciding(e)
  <2> DEFINE stamp == <<"wall", clock + 1>>
  <2> DEFINE e == StatusEntry(ledger, id, status, stamp, StatusAction(status))
  <2>1. Exists(ledger, id) /\ clock' \in 0 .. MaxClock /\ Commit(e)
    BY <1>0, <1>2, ClockAssumption DEF Decide
  <2>2. stamp \in Stamp /\ StatusAction(status) \in Actions \ {"opened", "occurrence"}
    BY <1>0, ClockAssumption DEF Stamp, StatusAction, Statuses, Actions
  <2>3. /\ e \in Entry /\ e.alert = id /\ e.prev = ledger[id]
        /\ e.action = StatusAction(status) /\ e.new = WithStatus(ledger[id], status, stamp)
    BY <1>0, <2>1, <2>2, StatusEntryType
  <2>4. e.new.last = ledger[id].last /\ e.new.count = ledger[id].count
    BY <1>0, <2>1, <2>2, <2>3, WithStatusType, RowTypes
  <2> HIDE DEF e
  <2>5. Deciding(e)
    BY <2>1, <2>2, <2>3, <2>4 DEF Deciding
  <2> QED
    BY <2>1, <2>3, <2>5
<1>3. ASSUME NEW id \in AlertIds, NEW end \in Hours, Expire(id, end)
      PROVE  /\ clock' \in 0 .. MaxClock
             /\ \E e \in Entry : /\ Commit(e) /\ e.prev = ledger[e.alert] /\ Deciding(e)
  <2> DEFINE stamp == <<"hour", end>>
  <2> DEFINE e == StatusEntry(ledger, id, "resolved", stamp, "auto_resolved")
  <2>1. Exists(ledger, id) /\ clock' \in 0 .. MaxClock /\ Commit(e)
    BY <1>0, <1>3 DEF Expire, Eligible
  <2>2. stamp \in Stamp /\ "resolved" \in Statuses /\ "auto_resolved" \in Actions
    BY HoursAreNat DEF Stamp, Statuses, Actions
  <2>3. /\ e \in Entry /\ e.alert = id /\ e.prev = ledger[id]
        /\ e.action = "auto_resolved" /\ e.new = WithStatus(ledger[id], "resolved", stamp)
    BY <1>0, <2>1, <2>2, StatusEntryType
  <2>4. e.new.last = ledger[id].last /\ e.new.count = ledger[id].count
    BY <1>0, <2>1, <2>2, <2>3, WithStatusType, RowTypes
  <2> HIDE DEF e
  <2>5. Deciding(e)
    BY <2>1, <2>2, <2>3, <2>4 DEF Deciding
  <2> QED
    BY <2>1, <2>3, <2>5
<1> QED
  BY <1>1, <1>2, <1>3 DEF Next

-----------------------------------------------------------------------------
(* The effect of committing an entry on the quantities of the invariant.     *)
LEMMA CommitRows ==
  ASSUME LedgerInv, NEW e \in Entry, Commit(e)
  PROVE  /\ ledger' \in Tables /\ journal' \subseteq Entry
         /\ ledger'[e.alert] = e.new /\ Exists(ledger', e.alert)
         /\ \A id \in AlertIds : id # e.alert => ledger'[id] = ledger[id]
         /\ Represented(journal') = Represented(journal) \cup {AnomalyOf(e)}
<1>1. ledger \in Tables /\ journal \subseteq Entry
  BY DEF LedgerInv, LedgerTypeOK
<1>2. e.alert \in AlertIds /\ e.new \in Alert /\ e.new # NoAlert
  BY EntryTypes
<1>3. ledger' \in Tables /\ journal' \subseteq Entry
  BY <1>1, <1>2 DEF Commit, Tables
<1>4. /\ ledger'[e.alert] = e.new
      /\ \A id \in AlertIds : id # e.alert => ledger'[id] = ledger[id]
  BY <1>1, <1>2 DEF Commit, Tables
<1>5. Represented(journal') = Represented(journal) \cup {AnomalyOf(e)}
  BY DEF Commit, Represented
<1> QED
  BY <1>2, <1>3, <1>4, <1>5 DEF Exists

LEMMA AttributedRepresented ==
  \A id \in AlertIds : Attributed(id) \subseteq Represented(journal)
BY DEF Attributed, Sightings, Represented

LEMMA CommitAttributed ==
  ASSUME NEW e \in Entry, Commit(e), NEW id \in AlertIds
  PROVE  /\ Observing(e) /\ id = e.alert
              => Attributed(id)' = Attributed(id) \cup {AnomalyOf(e)}
         /\ Deciding(e) \/ id # e.alert => Attributed(id)' = Attributed(id)
<1>1. Observing(e) => Sightings' = Sightings \cup {e}
  BY DEF Observing, Commit, Sightings
<1>2. Deciding(e) => Sightings' = Sightings
  BY DEF Deciding, Commit, Sightings
<1>3. Sightings' \subseteq Sightings \cup {e} /\ Sightings \subseteq Sightings'
  BY DEF Commit, Sightings
<1> QED
  BY <1>1, <1>2, <1>3 DEF Attributed

LEMMA LedgerInvInductive == LedgerInv /\ [Next]_ledgerVars => LedgerInv'
<1> SUFFICES ASSUME LedgerInv, [Next]_ledgerVars PROVE LedgerInv'
  OBVIOUS
<1>1. CASE UNCHANGED ledgerVars
  BY <1>1 DEF ledgerVars, LedgerInv, LedgerTypeOK, OpeningsRepresented, SpansForward,
     CountsFinite, Counted, EachAnomalyInOneAlert, RowsJournaled, Attributed, Sightings
<1>2. CASE Next
  <2>1. /\ LedgerTypeOK /\ OpeningsRepresented /\ SpansForward /\ CountsFinite
        /\ Counted /\ EachAnomalyInOneAlert /\ RowsJournaled
    BY DEF LedgerInv
  <2>2. PICK e \in Entry : /\ Commit(e) /\ e.prev = ledger[e.alert]
                           /\ Observing(e) \/ Deciding(e)
    BY <1>2, StepCommits
  <2>3. /\ e.alert \in AlertIds /\ e.new.last \in Int /\ e.alert[2] \in Int
        /\ e.new # NoAlert
    BY EntryTypes
  <2>4. /\ ledger' \in Tables /\ journal' \subseteq Entry
        /\ ledger'[e.alert] = e.new /\ Exists(ledger', e.alert)
        /\ \A id \in AlertIds : id # e.alert => ledger'[id] = ledger[id]
        /\ Represented(journal') = Represented(journal) \cup {AnomalyOf(e)}
    BY <2>2, CommitRows
  <2>5. journal' = journal \cup {e}
    BY <2>2 DEF Commit
  <2>6. \A id \in AlertIds : id # e.alert => (Exists(ledger', id) <=> Exists(ledger, id))
    BY <2>4 DEF Exists
  <2>7. LedgerTypeOK'
    BY <1>2, <2>4, StepCommits DEF LedgerTypeOK
  <2>8. OpeningsRepresented'
    <3>1. Observing(e) \/ Deciding(e) => e.alert \in Represented(journal')
      BY <2>1, <2>3, <2>4 DEF Observing, Deciding, OpeningsRepresented
    <3> QED
      BY <2>1, <2>2, <2>4, <2>6, <3>1 DEF OpeningsRepresented
  <2>9. SpansForward'
    <3>1. e.alert[2] <= e.new.last
      BY <2>1, <2>2, <2>3 DEF Observing, Deciding, SpansForward
    <3> QED
      BY <2>1, <2>4, <2>6, <3>1 DEF SpansForward
  <2>10. CountsFinite'
    <3> SUFFICES ASSUME NEW id \in AlertIds PROVE IsFiniteSet(Attributed(id)')
      BY DEF CountsFinite
    <3>1. IsFiniteSet(Attributed(id))
      BY <2>1 DEF CountsFinite
    <3>2. IsFiniteSet(Attributed(id) \cup {AnomalyOf(e)})
      BY <3>1, FS_AddElement
    <3> QED
      BY <2>2, <3>1, <3>2, CommitAttributed
  <2>11. Counted'
    <3> SUFFICES ASSUME NEW id \in AlertIds, Exists(ledger', id)
                 PROVE  ledger'[id].count = Cardinality(Attributed(id)')
      BY DEF Counted
    <3>1. CASE id # e.alert
      BY <2>1, <2>2, <2>4, <2>6, <3>1, CommitAttributed DEF Counted
    <3>2. CASE id = e.alert /\ Deciding(e)
      BY <2>1, <2>2, <2>4, <3>2, CommitAttributed DEF Counted, Deciding
    <3>3. CASE id = e.alert /\ Observing(e)
      <4>1. Attributed(id)' = Attributed(id) \cup {AnomalyOf(e)}
        BY <2>2, <3>3, CommitAttributed
      <4>2. AnomalyOf(e) \notin Attributed(id) /\ IsFiniteSet(Attributed(id))
        BY <2>1, <3>3, AttributedRepresented DEF Observing, CountsFinite
      <4>3. Cardinality(Attributed(id)') = Cardinality(Attributed(id)) + 1
        BY <4>1, <4>2, FS_AddElement
      <4>4. CASE Exists(ledger, id)
        BY <2>1, <2>4, <3>3, <4>3, <4>4 DEF Observing, Counted
      <4>5. CASE ~Exists(ledger, id)
        <5>1. Attributed(id) = {}
          BY <2>1, <4>5 DEF EachAnomalyInOneAlert, Attributed
        <5>2. e.new.count = 1
          BY <3>3, <4>5 DEF Observing
        <5> QED
          BY <2>4, <3>3, <4>3, <5>1, <5>2, FS_EmptySet
      <4> QED
        BY <4>4, <4>5
    <3> QED
      BY <2>2, <3>1, <3>2, <3>3
  <2>12. EachAnomalyInOneAlert'
    <3>1. \A f \in Sightings : f \in Entry /\ f.alert \in AlertIds /\ f.new.last \in Int
                               /\ AnomalyOf(f) \in Represented(journal)
      BY <2>1, EntryTypes DEF LedgerTypeOK, Sightings, Represented
    <3>2. Sightings' \subseteq Sightings \cup {e}
          /\ (Deciding(e) => Sightings' = Sightings)
      BY <2>5 DEF Sightings, Deciding
    <3>3. Observing(e) => AnomalyOf(e) \notin Represented(journal)
      BY DEF Observing
    <3>4. \A f, g \in Sightings' : AnomalyOf(f) = AnomalyOf(g) => f = g
      BY <2>1, <2>2, <3>1, <3>2, <3>3 DEF EachAnomalyInOneAlert
    <3>5. Exists(ledger, e.alert) => ledger[e.alert].last <= e.new.last
      BY <2>1, <2>2, <2>3, RowTypes DEF Observing, Deciding
    <3>6. ASSUME NEW f \in Sightings
          PROVE  /\ Exists(ledger', f.alert) /\ f.alert[2] <= f.new.last
                 /\ f.new.last <= ledger'[f.alert].last
      <4>1. /\ Exists(ledger, f.alert) /\ f.alert[2] <= f.new.last
            /\ f.new.last <= ledger[f.alert].last
        BY <2>1 DEF EachAnomalyInOneAlert
      <4>2. f.alert \in AlertIds /\ f.new.last \in Int /\ ledger[f.alert].last \in Int
        BY <2>1, <3>1, <4>1, RowTypes
      <4>3. CASE f.alert = e.alert
        BY <2>3, <2>4, <3>5, <4>1, <4>2, <4>3
      <4>4. CASE f.alert # e.alert
        BY <2>4, <2>6, <4>1, <4>2, <4>4
      <4> QED
        BY <4>3, <4>4
    <3>7. Observing(e) => /\ Exists(ledger', e.alert) /\ e.alert[2] <= e.new.last
                          /\ e.new.last <= ledger'[e.alert].last
      BY <2>3, <2>4 DEF Observing
    <3>8. \A f \in Sightings' : /\ Exists(ledger', f.alert) /\ f.alert[2] <= f.new.last
                                /\ f.new.last <= ledger'[f.alert].last
      BY <2>2, <3>2, <3>6, <3>7
    <3> QED
      BY <3>4, <3>8 DEF EachAnomalyInOneAlert
  <2>13. RowsJournaled'
    BY <2>1, <2>4, <2>5, <2>6 DEF RowsJournaled
  <2> QED
    BY <2>7, <2>8, <2>9, <2>10, <2>11, <2>12, <2>13 DEF LedgerInv
<1> QED
  BY <1>1, <1>2

LEMMA LedgerInvariant == Spec => []LedgerInv
<1>1. Init => LedgerInv
  <2> SUFFICES ASSUME Init PROVE LedgerInv
    OBVIOUS
  <2>1. /\ ledger = [id \in AlertIds |-> NoAlert] /\ journal = {} /\ clock = 0
    BY DEF Init
  <2>2. \A id \in AlertIds : ~Exists(ledger, id)
    BY <2>1 DEF Exists
  <2>3. LedgerTypeOK
    BY <2>1, ClockAssumption DEF LedgerTypeOK, Tables
  <2>4. Sightings = {} /\ \A id \in AlertIds : Attributed(id) = {}
    BY <2>1 DEF Attributed, Sightings
  <2>5. CountsFinite
    BY <2>4, FS_EmptySet DEF CountsFinite
  <2> QED
    BY <2>1, <2>2, <2>3, <2>4, <2>5
       DEF LedgerInv, OpeningsRepresented, SpansForward, Counted,
           EachAnomalyInOneAlert, RowsJournaled
<1> QED
  BY <1>1, LedgerInvInductive, PTL DEF Spec

-----------------------------------------------------------------------------
(* Rows and history rows stay within their schemas (models.py:12-61) for any *)
(* number of streams, hours and status changes.                              *)
THEOREM LedgerTypeCorrect == Spec => []LedgerTypeOK
<1>1. LedgerInv => LedgerTypeOK
  BY DEF LedgerInv
<1> QED
  BY <1>1, LedgerInvariant, PTL

(* occurrence_count counts each anomaly once and counts them all: process()  *)
(* adds one exactly when it journals an anomaly no row named before, and no  *)
(* status change touches it (lifecycle.py:64-96).                            *)
THEOREM CountCorrect == Spec => []CountMatchesJournal
<1>1. LedgerInv => CountMatchesJournal
  BY DEF LedgerInv, Counted, CountMatchesJournal, Attributed
<1> QED
  BY <1>1, LedgerInvariant, PTL

(* Deduplication never attributes an anomaly to two alerts, nor to an alert  *)
(* whose span does not contain it (_dedup_match, lifecycle.py:169-183).      *)
THEOREM DedupCorrect == Spec => []EachAnomalyInOneAlert
<1>1. LedgerInv => EachAnomalyInOneAlert
  BY DEF LedgerInv
<1> QED
  BY <1>1, LedgerInvariant, PTL

(* No anomaly, whenever it arrives, reopens, unacknowledges or moves back a  *)
(* row an operator has decided on (_proposed_occurrence,                     *)
(* lifecycle.py:185-199).                                                    *)
THEOREM DecisionsKept == Spec => ObservationKeepsDecision
<1> DEFINE Keeps(id) ==
             (Exists(ledger, id) /\ ledger[id].last # ledger'[id].last)
               => /\ ledger'[id].last > ledger[id].last
                  /\ Active(ledger[id])
                  /\ ledger'[id].status = ledger[id].status
                  /\ ledger'[id].acked = ledger[id].acked
                  /\ ledger'[id].severity >= ledger[id].severity
<1>1. LedgerInv /\ [Next]_ledgerVars => [\A id \in AlertIds : Keeps(id)]_ledgerVars
  <2> SUFFICES ASSUME LedgerInv, Next, NEW id \in AlertIds PROVE Keeps(id)
    OBVIOUS
  <2>1. PICK e \in Entry : /\ Commit(e) /\ e.prev = ledger[e.alert]
                           /\ Observing(e) \/ Deciding(e)
    BY StepCommits
  <2>2. /\ ledger'[e.alert] = e.new
        /\ \A other \in AlertIds : other # e.alert => ledger'[other] = ledger[other]
    BY <2>1, CommitRows
  <2>3. CASE id # e.alert
    BY <2>2, <2>3
  <2>4. CASE id = e.alert
    <3> SUFFICES ASSUME Exists(ledger, id), ledger[id].last # e.new.last PROVE Keeps(id)
      BY <2>2, <2>4
    <3>1. Observing(e)
      BY <2>1, <2>4 DEF Deciding
    <3>2. e.new.last \in Int /\ ledger[id].last \in Int
      BY EntryTypes, RowTypes DEF LedgerInv
    <3> QED
      BY <2>2, <2>4, <3>1, <3>2 DEF Observing
  <2> QED
    BY <2>3, <2>4
<1> QED
  BY <1>1, LedgerInvariant, PTL DEF Spec, ObservationKeepsDecision
=============================================================================
