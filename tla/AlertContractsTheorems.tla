----------------------- MODULE AlertContractsTheorems -----------------------
(* Facts about the pure part of AlertManager, for every value of the         *)
(* constants.                                                               *)
EXTENDS AlertContracts, TLAPS

LEMMA HoursAreNat == Hours \subseteq Nat /\ Hours \subseteq Int
BY MaxHourAssumption DEF Hours

LEMMA OpenedType ==
  ASSUME NEW sev \in Severities, NEW h \in Hours
  PROVE  Opened(sev, h) \in Alert
BY DEF Opened, Alert, Statuses, Stamp, Never

LEMMA WithOccurrenceType ==
  ASSUME NEW row \in Alert, NEW sev \in Severities, NEW h \in Hours
  PROVE  /\ WithOccurrence(row, sev, h) \in Alert
         /\ WithOccurrence(row, sev, h).last = h
         /\ WithOccurrence(row, sev, h).count = row.count + 1
         /\ WithOccurrence(row, sev, h).status = row.status
         /\ WithOccurrence(row, sev, h).acked = row.acked
         /\ WithOccurrence(row, sev, h).severity >= row.severity
<1> DEFINE sv == IF sev > row.severity THEN sev ELSE row.severity
<1> DEFINE rep == [row EXCEPT !.last = h, !.count = row.count + 1, !.severity = sv]
<1>1. WithOccurrence(row, sev, h) = rep
  BY DEF WithOccurrence
<1>2. row.count + 1 \in Nat \ {0}
  BY DEF Alert
<1>3. sv \in Severities /\ row.severity \in Severities
  BY DEF Alert
<1>4. sv >= row.severity
  <2>1. \A x \in Severities : x \in 0 .. 2
    BY SeverityAssumption
  <2>2. row.severity \in 0 .. 2 /\ sev \in 0 .. 2
    BY <1>3, <2>1
  <2> HIDE DEF rep
  <2> QED BY <2>2
<1>5. /\ rep \in Alert
      /\ rep.last = h
      /\ rep.count = row.count + 1
      /\ rep.status = row.status
      /\ rep.acked = row.acked
      /\ rep.severity = sv
  <2> HIDE DEF sv
  <2> QED BY <1>2, <1>3 DEF Alert
<1> QED
  BY <1>1, <1>4, <1>5

LEMMA WithStatusType ==
  ASSUME NEW row \in Alert, NEW status \in Statuses, NEW stamp \in Stamp
  PROVE  /\ WithStatus(row, status, stamp) \in Alert
         /\ WithStatus(row, status, stamp).last = row.last
         /\ WithStatus(row, status, stamp).count = row.count
         /\ WithStatus(row, status, stamp).severity = row.severity
         /\ WithStatus(row, status, stamp).status = status
BY DEF WithStatus, Alert, Stamp, Never

(* Whatever table an anomaly is folded into, the outcome is a well-formed    *)
(* history row that starts from the stored row and names the anomaly.        *)
THEOREM ObservedEntry ==
  ASSUME NEW table \in Tables, NEW s \in Streams, NEW h \in Hours,
         NEW sev \in Severities, NEW e \in Observed(table, s, h, sev)
  PROVE  /\ e \in Entry
         /\ e.prev = table[e.alert]
         /\ AnomalyOf(e) = <<s, h>>
<1>1. CASE DedupMatch(table, s, h) = {}
  <2>1. e = [alert  |-> <<s, h>>,
             action |-> IF Exists(table, <<s, h>>) THEN "reopened" ELSE "opened",
             prev   |-> table[<<s, h>>],
             new    |-> Opened(sev, h)]
    BY <1>1 DEF Observed
  <2>2. <<s, h>> \in AlertIds
    BY DEF AlertIds
  <2>3. table[<<s, h>>] \in Alert \cup {NoAlert}
    BY <2>2 DEF Tables
  <2>4. Opened(sev, h) \in Alert /\ Opened(sev, h).last = h
    BY OpenedType DEF Opened
  <2> QED
    BY <2>1, <2>2, <2>3, <2>4 DEF Entry, Actions, AnomalyOf
<1>2. CASE DedupMatch(table, s, h) # {}
  <2>1. PICK id \in DedupMatch(table, s, h) :
          e = [alert |-> id, action |-> "occurrence", prev |-> table[id],
               new |-> WithOccurrence(table[id], sev, h)]
    BY <1>2 DEF Observed
  <2>2. id \in AlertIds /\ id[1] = s /\ table[id] \in Alert
    BY DEF DedupMatch, Candidates, Exists, Tables
  <2>3. /\ WithOccurrence(table[id], sev, h) \in Alert
        /\ WithOccurrence(table[id], sev, h).last = h
    BY <2>2, WithOccurrenceType
  <2> QED
    BY <2>1, <2>2, <2>3 DEF Entry, Actions, AnomalyOf
<1> QED
  BY <1>1, <1>2

(* The anomaly always changes the row: process() never takes the path on     *)
(* which the proposed state equals the previous one (lifecycle.py:75-78 and  *)
(* 88-91), because the row that would equal it would have been the match.    *)
THEOREM ObservedChanges ==
  ASSUME NEW table \in Tables, NEW s \in Streams, NEW h \in Hours,
         NEW sev \in Severities, NEW e \in Observed(table, s, h, sev)
  PROVE  e.new # e.prev
<1>1. CASE DedupMatch(table, s, h) = {}
  <2>1. e.alert = <<s, h>> /\ e.prev = table[<<s, h>>] /\ e.new = Opened(sev, h)
    BY <1>1 DEF Observed
  <2>2. SUFFICES ASSUME table[<<s, h>>] = Opened(sev, h) PROVE FALSE
    BY <2>1
  <2>3. <<s, h>> \in AlertIds /\ Opened(sev, h) \in Alert
    BY OpenedType DEF AlertIds
  <2>4. <<s, h>> \in Candidates(table, s, h)
    BY <2>2, <2>3, HoursAreNat, NoAlertAssumption, WindowAssumption
       DEF Candidates, Exists, Active, ActiveStatuses, Opened
  <2>5. \A other \in Candidates(table, s, h) : table[other].last <= h
    BY DEF Candidates
  <2> QED
    BY <1>1, <2>2, <2>4, <2>5 DEF DedupMatch, Opened
<1>2. CASE DedupMatch(table, s, h) # {}
  <2>1. PICK id \in DedupMatch(table, s, h) :
          e = [alert |-> id, action |-> "occurrence", prev |-> table[id],
               new |-> WithOccurrence(table[id], sev, h)]
    BY <1>2 DEF Observed
  <2>2. table[id] \in Alert /\ table[id].count \in Nat
    BY DEF DedupMatch, Candidates, Exists, Tables, Alert
  <2>3. e.new.count = table[id].count + 1
    BY <2>1, <2>2, WithOccurrenceType
  <2> QED
    BY <2>1, <2>2, <2>3
<1> QED
  BY <1>1, <1>2

LEMMA StatusEntryType ==
  ASSUME NEW table \in Tables, NEW id \in AlertIds, Exists(table, id),
         NEW status \in Statuses, NEW stamp \in Stamp, NEW action \in Actions
  PROVE  /\ StatusEntry(table, id, status, stamp, action) \in Entry
         /\ StatusEntry(table, id, status, stamp, action).alert = id
         /\ StatusEntry(table, id, status, stamp, action).prev = table[id]
         /\ StatusEntry(table, id, status, stamp, action).action = action
         /\ StatusEntry(table, id, status, stamp, action).new
              = WithStatus(table[id], status, stamp)
<1>1. table[id] \in Alert
  BY DEF Exists, Tables
<1>2. WithStatus(table[id], status, stamp) \in Alert
  BY <1>1, WithStatusType
<1> QED
  BY <1>1, <1>2 DEF StatusEntry, Entry
=============================================================================
