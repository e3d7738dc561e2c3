------------------------ MODULE AlertLifecycleProofs ------------------------
(***************************************************************************)
(* Proofs about AlertLifecycle for any number of streams, hours, processes, *)
(* runs and failures, serial or not; then about what it promises when its   *)
(* operations run one at a time.                                            *)
(***************************************************************************)
EXTENDS AlertLifecycle, AlertContractsTheorems

USE DEF stored, local, used

LEMMA PrepareType ==
  ASSUME TypeOK, NEW p \in Procs, NEW table \in Tables, NEW e \in Entry,
         NEW then \in {"idle", "sweep", "resolve"}, Prepare(p, table, e, then)
  PROVE  /\ view' \in [Procs -> Tables]
         /\ entries' \in [Procs -> SUBSET Entry]
         /\ after' \in [Procs -> {"idle", "sweep", "resolve"}]
<1>1. [table EXCEPT ![e.alert] = e.new] \in Tables
  BY DEF Tables, Entry
<1> QED
  BY <1>1 DEF Prepare, TypeOK

LEMMA BlankType == Blank \in Tables
BY DEF Blank, Tables

LEMMA ForgetType ==
  ASSUME TypeOK, NEW p \in Procs, Forget(p)
  PROVE  view' \in [Procs -> Tables] /\ entries' \in [Procs -> SUBSET Entry]
BY BlankType DEF Forget, TypeOK

LEMMA GotoType ==
  ASSUME TypeOK, NEW p \in Procs, NEW step \in Steps, Goto(p, step)
  PROVE  pc' \in [Procs -> Steps]
BY DEF Goto, TypeOK

LEMMA StepsAre == /\ {"idle", "sweep", "resolve"} \subseteq Steps
                  /\ {"history", "events", "delete", "insert", "append"} \subseteq Steps
BY DEF Steps

LEMMA DropType ==
  ASSUME TypeOK, NEW p \in Procs, Drop(p), aborts' \in 0 .. MaxAborts
  PROVE  TypeOK'
<1>1. pc' \in [Procs -> Steps]
  BY GotoType, StepsAre DEF Drop
<1>2. view' \in [Procs -> Tables] /\ entries' \in [Procs -> SUBSET Entry]
  BY ForgetType DEF Drop
<1>3. 0 \in Hours
  BY MaxHourAssumption DEF Hours
<1>4. end' \in [Procs -> Hours]
  BY <1>3 DEF Drop, TypeOK
<1> QED
  BY <1>1, <1>2, <1>4 DEF Drop, TypeOK

(* Type correctness (every table the storage layer can hold is well formed,  *)
(* whatever interleaves and whatever fails).                                 *)
THEOREM TypeCorrect == Spec => []TypeOK
<1>1. Init => TypeOK
  <2>1. 0 \in Hours
    BY MaxHourAssumption DEF Hours
  <2>2. 0 \in 0 .. MaxRuns /\ 0 \in 0 .. MaxClock /\ 0 \in 0 .. MaxAborts
    BY BoundsAssumption
  <2> QED
    BY <2>1, <2>2, BlankType, StepsAre DEF Init, TypeOK
<1>2. TypeOK /\ [Next]_vars => TypeOK'
  <2> SUFFICES ASSUME TypeOK, [Next]_vars PROVE TypeOK'
    OBVIOUS
  <2> USE StepsAre
  <2>1. ASSUME NEW w \in Runners, NEW h \in Hours, NEW b \in Batches(h), StartRun(w, h, b)
        PROVE  TypeOK'
    <3>1. w \in Procs
      BY DEF Procs
    <3>2. b \subseteq Events
      BY MaxHourAssumption DEF Batches, Events, Hours
    <3>3. pc' \in [Procs -> Steps]
      BY <2>1, <3>1, GotoType DEF StartRun
    <3>4. view' \in [Procs -> Tables]
      BY <2>1, <3>1 DEF StartRun, TypeOK
    <3>5. runs' \in 0 .. MaxRuns
      BY <2>1, BoundsAssumption DEF StartRun, TypeOK
    <3>6. end' \in [Procs -> Hours] /\ batch' \in [Procs -> SUBSET Events]
      BY <2>1, <3>1, <3>2 DEF StartRun, TypeOK
    <3> QED
      BY <2>1, <3>3, <3>4, <3>5, <3>6 DEF StartRun, TypeOK
  <2>2. ASSUME NEW o \in Operators, NEW id \in AlertIds, NEW status \in Statuses,
               UpdateStatus(o, id, status)
        PROVE  TypeOK'
    <3> DEFINE e == StatusEntry(alerts, id, status, <<"wall", clock + 1>>, StatusAction(status))
    <3>1. o \in Procs
      BY DEF Procs
    <3>2. clock + 1 \in 0 .. MaxClock /\ clock + 1 \in Nat
      BY <2>2, BoundsAssumption DEF UpdateStatus, TypeOK
    <3>3. <<"wall", clock + 1>> \in Stamp /\ StatusAction(status) \in Actions
      BY <3>2 DEF Stamp, StatusAction, Statuses, Actions
    <3>4. e \in Entry
      BY <2>2, <3>3, StatusEntryType DEF UpdateStatus, TypeOK
    <3>5. Prepare(o, alerts, e, "idle") /\ Goto(o, "delete")
      BY <2>2 DEF UpdateStatus
    <3>6. alerts \in Tables
      BY DEF TypeOK
    <3> HIDE DEF e
    <3>7. /\ view' \in [Procs -> Tables]
          /\ entries' \in [Procs -> SUBSET Entry]
          /\ after' \in [Procs -> {"idle", "sweep", "resolve"}]
      BY <3>1, <3>4, <3>5, <3>6, PrepareType
    <3>8. pc' \in [Procs -> Steps]
      BY <3>1, <3>5, GotoType
    <3> QED
      BY <2>2, <3>2, <3>7, <3>8 DEF UpdateStatus, TypeOK
  <2>3. ASSUME NEW p \in Procs, DeleteRows(p) PROVE TypeOK'
    <3>1. alerts' \in Tables
      BY <2>3 DEF DeleteRows, Tables, TypeOK
    <3>2. pc' \in [Procs -> Steps]
      BY <2>3, GotoType DEF DeleteRows
    <3> QED
      BY <2>3, <3>1, <3>2 DEF DeleteRows, TypeOK
  <2>4. ASSUME NEW p \in Procs, InsertRows(p) PROVE TypeOK'
    <3>1. view[p] \in Tables /\ alerts \in Tables
      BY DEF TypeOK
    <3>2. alerts' \in Tables
      BY <2>4, <3>1 DEF InsertRows, Tables
    <3>3. pc' \in [Procs -> Steps]
      BY <2>4, GotoType DEF InsertRows
    <3> QED
      BY <2>4, <3>2, <3>3 DEF InsertRows, TypeOK
  <2>5. ASSUME NEW p \in Procs, AppendHistory(p) PROVE TypeOK'
    <3>1. view' \in [Procs -> Tables] /\ entries' \in [Procs -> SUBSET Entry]
      BY <2>5, ForgetType DEF AppendHistory
    <3>2. after[p] \in Steps
      BY DEF TypeOK
    <3>3. pc' \in [Procs -> Steps]
      BY <2>5, <3>2, GotoType DEF AppendHistory
    <3>4. history' \subseteq Entry
      BY <2>5 DEF AppendHistory, TypeOK
    <3>5. after' \in [Procs -> {"idle", "sweep", "resolve"}]
      BY <2>5 DEF AppendHistory, TypeOK
    <3> QED
      BY <2>5, <3>1, <3>3, <3>4, <3>5 DEF AppendHistory, TypeOK
  <2>6. ASSUME NEW w \in Runners, ReadHistory(w) PROVE TypeOK'
    <3>1. w \in Procs
      BY DEF Procs
    <3>2. Represented(history) \subseteq AnomalyIds
      BY DEF Represented, AnomalyOf, AnomalyIds, AlertIds, Entry, Alert, TypeOK
    <3>3. pc' \in [Procs -> Steps]
      BY <2>6, <3>1, GotoType DEF ReadHistory
    <3> QED
      BY <2>6, <3>1, <3>2, <3>3 DEF ReadHistory, TypeOK
  <2>7. ASSUME NEW w \in Runners, NEW x \in batch[w], SkipEvent(w, x) PROVE TypeOK'
    BY <2>7 DEF SkipEvent, TypeOK, Procs
  <2>8. ASSUME NEW w \in Runners, NEW x \in batch[w], FoldEvent(w, x) PROVE TypeOK'
    <3>1. w \in Procs /\ view[w] \in Tables
      BY DEF Procs, TypeOK
    <3>2. x \in Events
      BY <3>1 DEF TypeOK
    <3>3. x[1] \in Streams /\ x[2] \in Hours /\ x[3] \in Severities
      BY <3>2 DEF Events
    <3>4. PICK e \in Observed(view[w], x[1], x[2], x[3]) :
            \/ UNCHANGED <<view, entries, after>>
            \/ Prepare(w, view[w], e, "sweep")
      BY <2>8 DEF FoldEvent
    <3>5. e \in Entry
      BY <3>1, <3>3, ObservedEntry
    <3>6. /\ view' \in [Procs -> Tables]
          /\ entries' \in [Procs -> SUBSET Entry]
          /\ after' \in [Procs -> {"idle", "sweep", "resolve"}]
      BY <3>1, <3>4, <3>5, PrepareType DEF TypeOK
    <3>7. <<x[1], x[2]>> \in AnomalyIds
      BY <3>3 DEF AnomalyIds
    <3>8. known' \in [Procs -> SUBSET AnomalyIds] /\ batch' \in [Procs -> SUBSET Events]
      BY <2>8, <3>1, <3>7 DEF FoldEvent, TypeOK
    <3> QED
      BY <2>8, <3>6, <3>8 DEF FoldEvent, TypeOK
  <2>9. ASSUME NEW w \in Runners, EndBatch(w) PROVE TypeOK'
    <3>1. w \in Procs
      BY DEF Procs
    <3>2. pc' \in [Procs -> Steps]
      BY <2>9, <3>1, GotoType DEF EndBatch
    <3>3. view' \in [Procs -> Tables]
      BY <2>9, <3>1, BlankType DEF EndBatch, TypeOK
    <3> QED
      BY <2>9, <3>2, <3>3 DEF EndBatch, TypeOK
  <2>10. ASSUME NEW w \in Runners, Sweep(w) PROVE TypeOK'
    <3>1. w \in Procs
      BY DEF Procs
    <3>2. pc' \in [Procs -> Steps]
      BY <2>10, <3>1, GotoType DEF Sweep
    <3>3. Eligible(alerts, end[w]) \subseteq AlertIds
      BY DEF Eligible
    <3> QED
      BY <2>10, <3>1, <3>2, <3>3 DEF Sweep, TypeOK
  <2>11. ASSUME NEW w \in Runners, NEW id \in todo[w], ResolveNext(w, id) PROVE TypeOK'
    <3> DEFINE e == StatusEntry(alerts, id, "resolved", <<"hour", end[w]>>, "auto_resolved")
    <3>1. w \in Procs /\ alerts \in Tables
      BY DEF Procs, TypeOK
    <3>2. end[w] \in Nat
      BY <3>1, HoursAreNat DEF TypeOK
    <3>3. <<"hour", end[w]>> \in Stamp /\ "auto_resolved" \in Actions /\ "resolved" \in Statuses
      BY <3>2 DEF Stamp, Statuses, Actions
    <3>4. id \in AlertIds
      BY <3>1 DEF TypeOK
    <3>5. e \in Entry
      BY <2>11, <3>1, <3>3, <3>4, StatusEntryType DEF ResolveNext
    <3>6. \/ UNCHANGED <<pc, view, entries, after>>
          \/ Prepare(w, alerts, e, "resolve") /\ Goto(w, "delete")
      BY <2>11 DEF ResolveNext
    <3> HIDE DEF e
    <3>7. /\ view' \in [Procs -> Tables]
          /\ entries' \in [Procs -> SUBSET Entry]
          /\ after' \in [Procs -> {"idle", "sweep", "resolve"}]
      BY <3>1, <3>5, <3>6, PrepareType DEF TypeOK
    <3>8. pc' \in [Procs -> Steps]
      BY <3>1, <3>6, GotoType DEF TypeOK
    <3> QED
      BY <2>11, <3>7, <3>8 DEF ResolveNext, TypeOK
  <2>12. ASSUME NEW w \in Runners, NEW id \in todo[w], ResolveGone(w, id) PROVE TypeOK'
    BY <2>12, DropType DEF ResolveGone, Procs, TypeOK
  <2>13. ASSUME NEW w \in Runners, FinishRun(w) PROVE TypeOK'
    <3>1. w \in Procs /\ 0 \in Hours
      BY MaxHourAssumption DEF Procs, Hours
    <3>2. pc' \in [Procs -> Steps]
      BY <2>13, <3>1, GotoType DEF FinishRun
    <3> QED
      BY <2>13, <3>1, <3>2 DEF FinishRun, TypeOK
  <2>14. ASSUME NEW p \in Procs, Abort(p) PROVE TypeOK'
    <3>1. aborts' \in 0 .. MaxAborts
      BY <2>14, BoundsAssumption DEF Abort, TypeOK
    <3> QED
      BY <2>14, <3>1, DropType DEF Abort
  <2>15. CASE UNCHANGED vars
    BY <2>15 DEF vars, TypeOK
  <2> QED
    BY <2>1, <2>2, <2>3, <2>4, <2>5, <2>6, <2>7, <2>8, <2>9, <2>10, <2>11, <2>12, <2>13,
       <2>14, <2>15 DEF Next, Continue
<1> QED
  BY <1>1, <1>2, PTL DEF Spec
-----------------------------------------------------------------------------
(* HandledAnomaliesAreJournaled is inductive together with the phases in     *)
(* which a process may hold history rows it has not appended yet.            *)
EntryPhases ==
  \A p \in Procs : pc[p] \in {"idle", "history", "sweep", "resolve"} => entries[p] = {}

KnownJournaled ==
  \A w \in Runners : known[w] \subseteq Represented(history \cup entries[w])

JournalInv == TypeOK /\ EntryPhases /\ KnownJournaled

LEMMA RepresentedGrows ==
  ASSUME NEW S, NEW T, S \subseteq T PROVE Represented(S) \subseteq Represented(T)
BY DEF Represented

LEMMA ProcsCover == Runners \subseteq Procs /\ Operators \subseteq Procs
BY DEF Procs

(* Every storage call of process, auto_resolve and update_status, cut or not,  *)
(* leaves entries pending only where the caller still goes on to append them.   *)
THEOREM PhasesInductive == TypeOK /\ EntryPhases /\ [Next]_vars => EntryPhases'
<1> SUFFICES ASSUME TypeOK, EntryPhases, [Next]_vars PROVE EntryPhases'
  OBVIOUS
<1> USE ProcsCover DEF EntryPhases, Goto, TypeOK
<1>1. ASSUME NEW w \in Runners, NEW h \in Hours, NEW b \in Batches(h), StartRun(w, h, b)
      PROVE  EntryPhases'
  <2>1. w \in Procs /\ pc[w] = "idle" /\ entries[w] = {} /\ entries' = entries
    BY <1>1 DEF StartRun, MayStart
  <2>2. pc' = [pc EXCEPT ![w] = "sweep"] \/ pc' = [pc EXCEPT ![w] = "history"]
    BY <1>1 DEF StartRun
  <2> QED
    BY <2>1, <2>2
<1>2. ASSUME NEW o \in Operators, NEW id \in AlertIds, NEW status \in Statuses,
             UpdateStatus(o, id, status)
      PROVE  EntryPhases'
  BY <1>2 DEF UpdateStatus, Prepare
<1>3. ASSUME NEW p \in Procs, DeleteRows(p) PROVE EntryPhases'
  BY <1>3 DEF DeleteRows
<1>4. ASSUME NEW p \in Procs, InsertRows(p) PROVE EntryPhases'
  BY <1>4 DEF InsertRows
<1>5. ASSUME NEW p \in Procs, AppendHistory(p) PROVE EntryPhases'
  BY <1>5 DEF AppendHistory, Forget
<1>6. ASSUME NEW w \in Runners, ReadHistory(w) PROVE EntryPhases'
  BY <1>6 DEF ReadHistory
<1>7. ASSUME NEW w \in Runners, NEW x \in batch[w], SkipEvent(w, x) PROVE EntryPhases'
  BY <1>7 DEF SkipEvent
<1>8. ASSUME NEW w \in Runners, NEW x \in batch[w], FoldEvent(w, x) PROVE EntryPhases'
  <2>1. pc[w] = "events" /\ pc' = pc
    BY <1>8 DEF FoldEvent
  <2>2. \A q \in Procs : q # w => entries'[q] = entries[q]
    BY <1>8 DEF FoldEvent, Prepare
  <2> QED
    BY <2>1, <2>2
<1>9. ASSUME NEW w \in Runners, EndBatch(w) PROVE EntryPhases'
  <2>1. w \in Procs /\ entries' = entries
    BY <1>9 DEF EndBatch
  <2>2. \/ entries[w] = {} /\ pc' = [pc EXCEPT ![w] = "sweep"]
        \/ pc' = [pc EXCEPT ![w] = "delete"]
    BY <1>9 DEF EndBatch
  <2> QED
    BY <2>1, <2>2
<1>10. ASSUME NEW w \in Runners, Sweep(w) PROVE EntryPhases'
  BY <1>10 DEF Sweep
<1>11. ASSUME NEW w \in Runners, NEW id \in todo[w], ResolveNext(w, id) PROVE EntryPhases'
  BY <1>11 DEF ResolveNext, Prepare
<1>12. ASSUME NEW w \in Runners, NEW id \in todo[w], ResolveGone(w, id) PROVE EntryPhases'
  BY <1>12 DEF ResolveGone, Drop, Forget
<1>13. ASSUME NEW w \in Runners, FinishRun(w) PROVE EntryPhases'
  BY <1>13 DEF FinishRun
<1>14. ASSUME NEW p \in Procs, Abort(p) PROVE EntryPhases'
  BY <1>14 DEF Abort, Drop, Forget
<1>15. CASE UNCHANGED vars
  BY <1>15 DEF vars
<1> QED
  BY <1>1, <1>2, <1>3, <1>4, <1>5, <1>6, <1>7, <1>8, <1>9, <1>10, <1>11, <1>12, <1>13,
     <1>14, <1>15 DEF Next, Continue

LEMMA KnownInductive == JournalInv /\ [Next]_vars => KnownJournaled'
<1> SUFFICES ASSUME JournalInv, [Next]_vars, NEW r \in Runners
             PROVE  known'[r] \subseteq Represented(history' \cup entries'[r])
  BY DEF KnownJournaled
<1>0. /\ TypeOK /\ EntryPhases /\ r \in Procs
      /\ known[r] \subseteq Represented(history \cup entries[r])
  BY ProcsCover DEF JournalInv, KnownJournaled
(* Nothing that r has handled so far is forgotten.                           *)
<1>a. ASSUME known'[r] \subseteq known[r], history \subseteq history',
             entries[r] \subseteq history' \cup entries'[r]
      PROVE  known'[r] \subseteq Represented(history' \cup entries'[r])
  <2>1. Represented(history \cup entries[r]) \subseteq Represented(history' \cup entries'[r])
    BY <1>a, RepresentedGrows
  <2> QED
    BY <1>0, <1>a, <2>1
<1>b. ASSUME known'[r] = {}
      PROVE  known'[r] \subseteq Represented(history' \cup entries'[r])
  BY <1>b
<1> USE <1>0 DEF TypeOK
<1>1. ASSUME NEW w \in Runners, NEW h \in Hours, NEW b \in Batches(h), StartRun(w, h, b)
      PROVE  known'[r] \subseteq Represented(history' \cup entries'[r])
  BY <1>1, <1>a DEF StartRun
<1>2. ASSUME NEW o \in Operators, NEW id \in AlertIds, NEW status \in Statuses,
             UpdateStatus(o, id, status)
      PROVE  known'[r] \subseteq Represented(history' \cup entries'[r])
  BY <1>2, <1>a DEF UpdateStatus, Prepare
<1>3. ASSUME NEW p \in Procs, DeleteRows(p)
      PROVE  known'[r] \subseteq Represented(history' \cup entries'[r])
  BY <1>3, <1>a DEF DeleteRows
<1>4. ASSUME NEW p \in Procs, InsertRows(p)
      PROVE  known'[r] \subseteq Represented(history' \cup entries'[r])
  BY <1>4, <1>a DEF InsertRows
<1>5. ASSUME NEW p \in Procs, AppendHistory(p)
      PROVE  known'[r] \subseteq Represented(history' \cup entries'[r])
  BY <1>5, <1>a DEF AppendHistory, Forget
<1>6. ASSUME NEW w \in Runners, ReadHistory(w)
      PROVE  known'[r] \subseteq Represented(history' \cup entries'[r])
  <2>1. CASE w = r
    <3>1. known'[r] = Represented(history) /\ history' = history /\ entries' = entries
      BY <1>6, <2>1 DEF ReadHistory
    <3>2. Represented(history) \subseteq Represented(history \cup entries[r])
      BY RepresentedGrows
    <3> QED
      BY <3>1, <3>2
  <2>2. CASE w # r
    BY <1>6, <2>2, <1>a DEF ReadHistory
  <2> QED
    BY <2>1, <2>2
<1>7. ASSUME NEW w \in Runners, NEW x \in batch[w], SkipEvent(w, x)
      PROVE  known'[r] \subseteq Represented(history' \cup entries'[r])
  BY <1>7, <1>a DEF SkipEvent
<1>8. ASSUME NEW w \in Runners, NEW x \in batch[w], FoldEvent(w, x)
      PROVE  known'[r] \subseteq Represented(history' \cup entries'[r])
  <2>1. CASE w # r
    BY <1>8, <2>1, <1>a DEF FoldEvent, Prepare
  <2>2. CASE w = r
    <3>1. x \in Events /\ view[r] \in Tables
      BY <2>2
    <3>2. x[1] \in Streams /\ x[2] \in Hours /\ x[3] \in Severities
      BY <3>1 DEF Events
    <3>3. PICK e \in Observed(view[r], x[1], x[2], x[3]) :
            IF e.new = e.prev THEN UNCHANGED <<view, entries, after>>
                              ELSE Prepare(r, view[r], e, "sweep")
      BY <1>8, <2>2 DEF FoldEvent
    <3>4. e.new # e.prev /\ AnomalyOf(e) = <<x[1], x[2]>>
      BY <3>1, <3>2, ObservedEntry, ObservedChanges
    <3>5. entries'[r] = entries[r] \cup {e} /\ history' = history
      BY <1>8, <3>3, <3>4 DEF Prepare, FoldEvent
    <3>6. known'[r] = known[r] \cup {AnomalyOf(e)}
      BY <1>8, <2>2, <3>4 DEF FoldEvent
    <3>7. AnomalyOf(e) \in Represented(history' \cup entries'[r])
      BY <3>5 DEF Represented
    <3>8. Represented(history \cup entries[r]) \subseteq Represented(history' \cup entries'[r])
      BY <3>5, RepresentedGrows
    <3> QED
      BY <3>6, <3>7, <3>8
  <2> QED
    BY <2>1, <2>2
<1>9. ASSUME NEW w \in Runners, EndBatch(w)
      PROVE  known'[r] \subseteq Represented(history' \cup entries'[r])
  BY <1>9, <1>a DEF EndBatch
<1>10. ASSUME NEW w \in Runners, Sweep(w)
       PROVE  known'[r] \subseteq Represented(history' \cup entries'[r])
  <2>1. known'[r] \subseteq known[r] /\ history' = history /\ entries' = entries
    BY <1>10, ProcsCover DEF Sweep
  <2> QED
    BY <2>1, <1>a
<1>11. ASSUME NEW w \in Runners, NEW id \in todo[w], ResolveNext(w, id)
       PROVE  known'[r] \subseteq Represented(history' \cup entries'[r])
  <2>1. known' = known /\ history' = history
    BY <1>11 DEF ResolveNext
  <2>2. entries[r] \subseteq entries'[r]
    BY <1>11 DEF ResolveNext, Prepare
  <2> QED
    BY <2>1, <2>2, <1>a
<1>12. ASSUME NEW p \in Procs, Drop(p)
       PROVE  known'[r] \subseteq Represented(history' \cup entries'[r])
  <2>1. CASE p = r
    BY <1>12, <2>1, <1>b DEF Drop
  <2>2. CASE p # r
    BY <1>12, <2>2, <1>a DEF Drop, Forget
  <2> QED
    BY <2>1, <2>2
<1>13. ASSUME NEW w \in Runners, FinishRun(w)
       PROVE  known'[r] \subseteq Represented(history' \cup entries'[r])
  BY <1>13, <1>a DEF FinishRun
<1>14. CASE UNCHANGED vars
  BY <1>14, <1>a DEF vars
<1> QED
  BY <1>1, <1>2, <1>3, <1>4, <1>5, <1>6, <1>7, <1>8, <1>9, <1>10, <1>11, <1>12, <1>13,
     <1>14, ProcsCover DEF Next, Continue, ResolveGone, Abort

(* Every anomaly a detection run has handled is named by a history row that  *)
(* is stored or that the run still holds, and by a stored one once it goes   *)
(* on to auto_resolve: for any interleaving and any number of failures.      *)
THEOREM HandledJournaled == Spec => []HandledAnomaliesAreJournaled
<1>1. Init => EntryPhases /\ KnownJournaled
  BY ProcsCover DEF Init, EntryPhases, KnownJournaled
<1>2. JournalInv /\ [Next]_vars => EntryPhases' /\ KnownJournaled'
  BY PhasesInductive, KnownInductive DEF JournalInv
<1>3. JournalInv => HandledAnomaliesAreJournaled
  BY ProcsCover DEF JournalInv, EntryPhases, KnownJournaled, HandledAnomaliesAreJournaled
<1>4. Spec => []JournalInv
  BY <1>1, <1>2, TypeCorrect, PTL DEF Spec, JournalInv
<1> QED
  BY <1>3, <1>4, PTL

-----------------------------------------------------------------------------
(* TrailExplainsAlerts.  The strengthening adds what is true of the rows a    *)
(* process holds in memory (each was recorded when it was read, or is the     *)
(* result of an entry the process holds), that the connection spanning DELETE *)
(* and INSERT is exclusive, and that a changed alert has a row to insert.     *)
Trail == history \cup Pending

Recorded(T, id, row) == \E e \in T : e.alert = id /\ e.new = row

Stored(id) == \/ Exists(alerts, id)
              \/ \E p \in Procs : pc[p] = "insert" /\ id \in Changed(p)

InsertAlone == \A p, q \in Procs : pc[p] = "insert" /\ pc[q] = "insert" => p = q

ViewHasChanged == \A p \in Procs : \A e \in entries[p] : Exists(view[p], e.alert)

RowsRecorded ==
  \A id \in AlertIds : Exists(alerts, id) => Recorded(Trail, id, alerts[id])

ViewsRecorded ==
  \A p \in Procs, id \in AlertIds :
    Exists(view[p], id) => Recorded(Trail, id, view[p][id])

ChainRecorded ==
  \A e \in Trail : e.prev # NoAlert => Recorded(Trail, e.alert, e.prev)

HistoryStored == \A e \in history : Stored(e.alert)

AppendStored ==
  \A p \in Procs : pc[p] = "append" => \A e \in entries[p] : Stored(e.alert)

Recording == RowsRecorded /\ ViewsRecorded /\ ChainRecorded
Storing   == HistoryStored /\ AppendStored

TrailInv == /\ TypeOK /\ EntryPhases /\ InsertAlone /\ ViewHasChanged
            /\ aborts = 0 => Recording /\ Storing

LEMMA TrailMember ==
  /\ \A e : e \in Trail <=> (e \in history \/ \E p \in Procs : e \in entries[p])
  /\ \A e : e \in Trail' <=> (e \in history' \/ \E p \in Procs : e \in entries'[p])
BY DEF Trail, Pending

LEMMA RecordedGrows ==
  ASSUME NEW S, NEW T, S \subseteq T, NEW id, NEW row, Recorded(S, id, row)
  PROVE  Recorded(T, id, row)
BY DEF Recorded

LEMMA BlankRows == \A id \in AlertIds : ~Exists(Blank, id)
BY DEF Blank, Exists

LEMMA RowIsNotNoAlert == \A row \in Alert : row # NoAlert
BY NoAlertAssumption

(* A step that only makes the trail longer keeps it explaining the rows and  *)
(* views that it leaves alone or that were already explained.                *)
LEMMA KeepRecording ==
  ASSUME Recording, TypeOK, TypeOK', Trail \subseteq Trail',
         \A id \in AlertIds : Exists(alerts', id) => Recorded(Trail', id, alerts'[id]),
         \A p \in Procs, id \in AlertIds :
           Exists(view'[p], id) => Recorded(Trail', id, view'[p][id]),
         \A e \in Trail' : e \in Trail \/ (e.prev # NoAlert => Recorded(Trail', e.alert, e.prev))
  PROVE  Recording'
<1>1. ChainRecorded'
  <2> SUFFICES ASSUME NEW e \in Trail', e.prev # NoAlert
               PROVE  Recorded(Trail', e.alert, e.prev)
    BY DEF ChainRecorded, Recorded
  <2>1. CASE e \in Trail
    <3>1. Recorded(Trail, e.alert, e.prev)
      BY <2>1 DEF Recording, ChainRecorded
    <3> QED
      BY <3>1, RecordedGrows
  <2> QED
    BY <2>1
<1>2. RowsRecorded' /\ ViewsRecorded'
  BY DEF RowsRecorded, ViewsRecorded, Recorded, Exists
<1> QED
  BY <1>1, <1>2 DEF Recording

(* What a process prepares is itself recorded.                               *)
LEMMA PrepareKeepsTrail ==
  ASSUME TypeOK, TypeOK', NEW p \in Procs, NEW table \in Tables, NEW e \in Entry,
         NEW then, Prepare(p, table, e, then), e.prev = table[e.alert],
         alerts' = alerts, history' = history,
         ViewHasChanged, \A f \in entries[p] : Exists(table, f.alert)
  PROVE  /\ ViewHasChanged'
         /\ Trail \subseteq Trail'
         /\ \A id \in AlertIds : Stored(id) /\ pc[p] # "insert" /\ pc'[p] # "insert"
                                  /\ (\A q \in Procs \ {p} : pc'[q] = pc[q]) => Stored(id)'
         /\ (/\ Recording
             /\ \A id \in AlertIds : Exists(table, id) => Recorded(Trail, id, table[id]))
            => Recording'
<1>1. /\ entries' = [entries EXCEPT ![p] = @ \cup {e}]
      /\ view' = [view EXCEPT ![p] = [table EXCEPT ![e.alert] = e.new]]
  BY DEF Prepare
<1>2. /\ e.alert \in AlertIds /\ e.new \in Alert /\ e.new # NoAlert
      /\ table \in [AlertIds -> Alert \cup {NoAlert}]
  BY RowIsNotNoAlert DEF Entry, Tables
<1>3. /\ entries'[p] = entries[p] \cup {e}
      /\ \A q \in Procs : q # p => entries'[q] = entries[q] /\ view'[q] = view[q]
      /\ view'[p] = [table EXCEPT ![e.alert] = e.new]
  BY <1>1 DEF TypeOK
<1>4. /\ view'[p][e.alert] = e.new
      /\ \A id \in AlertIds : id # e.alert => view'[p][id] = table[id]
  BY <1>2, <1>3
<1>5. \A f \in entries[p] : f.alert \in AlertIds
  BY DEF TypeOK, Entry
<1>6. ViewHasChanged'
  <2> SUFFICES ASSUME NEW q \in Procs, NEW f \in entries'[q]
               PROVE  view'[q][f.alert] # NoAlert
    BY DEF ViewHasChanged, Exists
  <2>1. CASE q # p
    BY <1>3, <2>1 DEF ViewHasChanged, Exists
  <2>2. CASE q = p /\ f = e
    BY <1>2, <1>4, <2>2
  <2>3. CASE q = p /\ f \in entries[p]
    BY <1>2, <1>4, <1>5, <2>3 DEF Exists
  <2> QED
    BY <1>3, <2>1, <2>2, <2>3
<1>7. Trail \subseteq Trail' /\ e \in Trail' /\ \A f \in Trail' : f \in Trail \/ f = e
  <2>1. \A q \in Procs : entries[q] \subseteq entries'[q]
    BY <1>3
  <2>2. \A q \in Procs : \A f : f \in entries'[q] => f \in entries[q] \/ f = e
    BY <1>3
  <2> QED
    BY <1>3, <2>1, <2>2, TrailMember
<1>8. ASSUME NEW id \in AlertIds, Stored(id), pc[p] # "insert", pc'[p] # "insert",
             \A q \in Procs \ {p} : pc'[q] = pc[q]
      PROVE  Stored(id)'
  BY <1>3, <1>8 DEF Stored, Changed, Exists
<1>9. ASSUME Recording,
             \A id \in AlertIds : Exists(table, id) => Recorded(Trail, id, table[id])
      PROVE  Recording'
  <2>1. Recorded(Trail', e.alert, e.new)
    BY <1>7 DEF Recorded
  <2>2. e.prev # NoAlert => Recorded(Trail', e.alert, e.prev)
    BY <1>2, <1>7, <1>9, RecordedGrows DEF Exists
  <2>3. \A id \in AlertIds : Exists(alerts', id) => Recorded(Trail', id, alerts'[id])
    BY <1>7, <1>9, RecordedGrows DEF Recording, RowsRecorded
  <2>4. ASSUME NEW q \in Procs, NEW id \in AlertIds, Exists(view'[q], id)
        PROVE  Recorded(Trail', id, view'[q][id])
    <3>1. CASE q # p
      BY <1>3, <1>7, <1>9, <2>4, <3>1, RecordedGrows DEF Recording, ViewsRecorded
    <3>2. CASE q = p /\ id = e.alert
      BY <1>4, <2>1, <3>2
    <3>3. CASE q = p /\ id # e.alert
      BY <1>4, <1>7, <1>9, <2>4, <3>3, RecordedGrows DEF Exists
    <3> QED
      BY <3>1, <3>2, <3>3
  <2> QED
    BY <1>7, <1>9, <2>2, <2>3, <2>4, KeepRecording
<1> QED
  BY <1>6, <1>7, <1>8, <1>9

(* Steps that touch neither table nor any entry, and whose views are stored  *)
(* rows, blank, or as before.                                                *)
LEMMA QuietKeepsTrail ==
  ASSUME TrailInv, TypeOK', NEW w \in Procs,
         UNCHANGED <<alerts, history, aborts>>, entries' = entries,
         \E step \in Steps \ {"insert", "append"} : Goto(w, step), pc[w] # "insert",
         \/ view' = view
         \/ entries[w] = {} /\ (\/ view' = [view EXCEPT ![w] = alerts]
                                \/ view' = [view EXCEPT ![w] = Blank])
  PROVE  InsertAlone' /\ ViewHasChanged' /\ (aborts' = 0 => Recording' /\ Storing')
<1> USE DEF TrailInv
<1>1. \A q \in Procs : q # w => pc'[q] = pc[q] /\ view'[q] = view[q]
  BY DEF Goto, TypeOK
<1>2. pc'[w] # "insert" /\ pc'[w] # "append"
  BY DEF Goto, TypeOK
<1>3. InsertAlone'
  BY <1>1, <1>2 DEF InsertAlone
<1>4. ViewHasChanged'
  BY <1>1 DEF ViewHasChanged
<1>5. ASSUME aborts' = 0 PROVE Storing'
  <2>1. \A id : Stored(id) => Stored(id)'
    BY <1>1 DEF Stored, Changed, Exists
  <2> QED
    BY <1>1, <1>2, <1>5, <2>1 DEF Storing, HistoryStored, AppendStored
<1>6. ASSUME aborts' = 0 PROVE Recording'
  <2>1. Trail' = Trail
    BY DEF Trail, Pending
  <2>2. Recording
    BY <1>6
  <2>3. ASSUME NEW q \in Procs, NEW id \in AlertIds, Exists(view'[q], id)
        PROVE  Recorded(Trail', id, view'[q][id])
    <3>1. view'[q] = view[q] \/ view'[q] = alerts \/ view'[q] = Blank
      BY <1>1 DEF TypeOK
    <3> QED
      BY <2>1, <2>2, <2>3, <3>1, BlankRows DEF Recording, RowsRecorded, ViewsRecorded
  <2>4. \A id \in AlertIds : Exists(alerts', id) => Recorded(Trail', id, alerts'[id])
    BY <2>1, <2>2 DEF Recording, RowsRecorded
  <2> QED
    BY <2>1, <2>2, <2>3, <2>4, KeepRecording
<1> QED
  BY <1>3, <1>4, <1>5, <1>6

LEMMA PreparingKeepsTrail ==
  ASSUME TrailInv, TypeOK', NEW w \in Procs, NEW table \in Tables, NEW e \in Entry,
         NEW then, Prepare(w, table, e, then), e.prev = table[e.alert],
         UNCHANGED <<alerts, history, aborts>>,
         pc' = pc \/ Goto(w, "delete"), pc[w] \in {"idle", "events", "resolve"},
         \/ table = view[w]
         \/ table = alerts /\ entries[w] = {}
  PROVE  InsertAlone' /\ ViewHasChanged' /\ (aborts' = 0 => Recording' /\ Storing')
<1> USE DEF TrailInv
<1>1. \A q \in Procs \ {w} : pc'[q] = pc[q] /\ entries'[q] = entries[q]
  BY DEF Goto, Prepare, TypeOK
<1>2. pc'[w] # "insert" /\ pc'[w] # "append" /\ pc[w] # "insert"
  BY DEF Goto, TypeOK
<1>3. \A f \in entries[w] : Exists(table, f.alert)
  BY DEF ViewHasChanged
<1>4. InsertAlone'
  BY <1>1, <1>2 DEF InsertAlone
<1>5. ViewHasChanged'
  BY <1>3, PrepareKeepsTrail
<1>6. ASSUME aborts' = 0 PROVE Storing'
  <2>1. \A id \in AlertIds : Stored(id) => Stored(id)'
    BY <1>1, <1>2, <1>3, PrepareKeepsTrail
  <2>2. /\ \A f \in history : f.alert \in AlertIds
        /\ \A q \in Procs : \A f \in entries[q] : f.alert \in AlertIds
    BY DEF TypeOK, Entry
  <2> QED
    BY <1>1, <1>2, <1>6, <2>1, <2>2 DEF Storing, HistoryStored, AppendStored
<1>7. ASSUME aborts' = 0 PROVE Recording'
  <2>1. \A id \in AlertIds : Exists(table, id) => Recorded(Trail, id, table[id])
    BY <1>7 DEF Recording, RowsRecorded, ViewsRecorded
  <2> QED
    BY <1>3, <1>7, <2>1, PrepareKeepsTrail
<1> QED
  BY <1>4, <1>5, <1>6, <1>7

LEMMA DeleteKeepsTrail ==
  ASSUME TrailInv, TypeOK', NEW p \in Procs, DeleteRows(p)
  PROVE  InsertAlone' /\ ViewHasChanged' /\ (aborts' = 0 => Recording' /\ Storing')
<1> USE DEF TrailInv
<1>1. /\ pc' = [pc EXCEPT ![p] = "insert"] /\ pc[p] = "delete"
      /\ UNCHANGED <<history, view, entries, aborts>>
      /\ \A q \in Procs : q # p => pc[q] # "insert"
      /\ \A id \in AlertIds : alerts'[id] = IF id \in Changed(p) THEN NoAlert ELSE alerts[id]
  BY DEF DeleteRows, FileFree, Goto
<1>2. InsertAlone'
  BY <1>1 DEF InsertAlone, TypeOK
<1>3. ViewHasChanged'
  BY <1>1 DEF ViewHasChanged
<1>4. ASSUME aborts' = 0 PROVE Storing'
  <2>1. \A id \in AlertIds : Stored(id) => Stored(id)'
    <3> SUFFICES ASSUME NEW id \in AlertIds, Stored(id) PROVE Stored(id)'
      OBVIOUS
    <3>1. Exists(alerts, id)
      BY <1>1 DEF Stored
    <3>2. CASE id \in Changed(p)
      <4>1. pc'[p] = "insert" /\ id \in Changed(p)'
        BY <1>1, <3>2 DEF Changed, TypeOK
      <4> QED
        BY <4>1 DEF Stored
    <3>3. CASE id \notin Changed(p)
      BY <1>1, <3>1, <3>3 DEF Stored, Exists
    <3> QED
      BY <3>2, <3>3
  <2>2. /\ \A f \in history : f.alert \in AlertIds
        /\ \A q \in Procs : \A f \in entries[q] : f.alert \in AlertIds
    BY DEF TypeOK, Entry
  <2>3. \A q \in Procs : pc'[q] = "append" => pc[q] = "append"
    BY <1>1 DEF TypeOK
  <2> QED
    BY <1>1, <1>4, <2>1, <2>2, <2>3 DEF Storing, HistoryStored, AppendStored
<1>5. ASSUME aborts' = 0 PROVE Recording'
  <2>1. Trail' = Trail /\ Recording
    BY <1>1, <1>5 DEF Trail, Pending
  <2>2. \A id \in AlertIds : Exists(alerts', id) => Recorded(Trail', id, alerts'[id])
    BY <1>1, <2>1 DEF Recording, RowsRecorded, Exists
  <2>3. \A q \in Procs, id \in AlertIds :
          Exists(view'[q], id) => Recorded(Trail', id, view'[q][id])
    BY <1>1, <2>1 DEF Recording, ViewsRecorded
  <2> QED
    BY <2>1, <2>2, <2>3, KeepRecording
<1> QED
  BY <1>2, <1>3, <1>4, <1>5

LEMMA InsertKeepsTrail ==
  ASSUME TrailInv, TypeOK', NEW p \in Procs, InsertRows(p)
  PROVE  InsertAlone' /\ ViewHasChanged' /\ (aborts' = 0 => Recording' /\ Storing')
<1> USE DEF TrailInv
<1>1. /\ pc' = [pc EXCEPT ![p] = "append"] /\ pc[p] = "insert"
      /\ UNCHANGED <<history, view, entries, aborts>>
      /\ \A id \in AlertIds : alerts'[id] = IF id \in Changed(p) THEN view[p][id] ELSE alerts[id]
  BY DEF InsertRows, Goto
<1>2. \A q \in Procs : q # p => pc[q] # "insert"
  BY <1>1 DEF InsertAlone
<1>3. InsertAlone'
  BY <1>1, <1>2 DEF InsertAlone, TypeOK
<1>4. ViewHasChanged'
  BY <1>1 DEF ViewHasChanged
<1>5. \A id \in AlertIds : id \in Changed(p) => Exists(view[p], id)
  BY DEF ViewHasChanged, Changed
<1>6. ASSUME aborts' = 0 PROVE Storing'
  <2>1. \A id \in AlertIds : Stored(id) \/ id \in Changed(p) => Stored(id)'
    BY <1>1, <1>2, <1>5 DEF Stored, Exists
  <2>2. /\ \A f \in history : f.alert \in AlertIds
        /\ \A q \in Procs : \A f \in entries[q] : f.alert \in AlertIds
    BY DEF TypeOK, Entry
  <2>3. \A q \in Procs : pc'[q] = "append" => pc[q] = "append" \/ q = p
    BY <1>1 DEF TypeOK
  <2>4. \A f \in entries[p] : f.alert \in Changed(p)
    BY DEF Changed
  <2> QED
    BY <1>1, <1>6, <2>1, <2>2, <2>3, <2>4 DEF Storing, HistoryStored, AppendStored
<1>7. ASSUME aborts' = 0 PROVE Recording'
  <2>1. Trail' = Trail /\ Recording
    BY <1>1, <1>7 DEF Trail, Pending
  <2>2. \A id \in AlertIds : Exists(alerts', id) => Recorded(Trail', id, alerts'[id])
    BY <1>1, <1>5, <2>1 DEF Recording, RowsRecorded, ViewsRecorded, Exists
  <2>3. \A q \in Procs, id \in AlertIds :
          Exists(view'[q], id) => Recorded(Trail', id, view'[q][id])
    BY <1>1, <2>1 DEF Recording, ViewsRecorded
  <2> QED
    BY <2>1, <2>2, <2>3, KeepRecording
<1> QED
  BY <1>3, <1>4, <1>6, <1>7

LEMMA AppendKeepsTrail ==
  ASSUME TrailInv, TypeOK', NEW p \in Procs, AppendHistory(p)
  PROVE  InsertAlone' /\ ViewHasChanged' /\ (aborts' = 0 => Recording' /\ Storing')
<1> USE DEF TrailInv
<1>1. /\ pc[p] = "append" /\ history' = history \cup entries[p]
      /\ UNCHANGED <<alerts, aborts>>
      /\ pc' = [pc EXCEPT ![p] = after[p]]
      /\ view' = [view EXCEPT ![p] = Blank]
      /\ entries' = [entries EXCEPT ![p] = {}]
  BY DEF AppendHistory, Goto, Forget
<1>2. after[p] # "insert" /\ after[p] # "append"
  BY DEF TypeOK
<1>3. \A q \in Procs : q # p => pc'[q] = pc[q] /\ view'[q] = view[q] /\ entries'[q] = entries[q]
  BY <1>1 DEF TypeOK
<1>4. pc'[p] = after[p] /\ view'[p] = Blank /\ entries'[p] = {}
  BY <1>1 DEF TypeOK
<1>5. InsertAlone'
  BY <1>2, <1>3, <1>4 DEF InsertAlone
<1>6. ViewHasChanged'
  BY <1>3, <1>4 DEF ViewHasChanged
<1>7. ASSUME aborts' = 0 PROVE Storing'
  <2>1. \A id : Stored(id) => Stored(id)'
    BY <1>1, <1>3 DEF Stored, Changed, Exists
  <2> QED
    BY <1>1, <1>2, <1>3, <1>4, <1>7, <2>1 DEF Storing, HistoryStored, AppendStored
<1>8. ASSUME aborts' = 0 PROVE Recording'
  <2>1. Recording
    BY <1>1, <1>8
  <2>2. \A f : f \in Trail <=> f \in Trail'
    <3>1. \A f : (\E q \in Procs : f \in entries[q])
                   <=> (f \in entries[p] \/ \E q \in Procs : f \in entries'[q])
      BY <1>3, <1>4
    <3> QED
      BY <1>1, <3>1, TrailMember
  <2>3. Trail' = Trail
    BY <2>2 DEF Trail
  <2>4. \A id \in AlertIds : Exists(alerts', id) => Recorded(Trail', id, alerts'[id])
    BY <1>1, <2>1, <2>3 DEF Recording, RowsRecorded
  <2>5. \A q \in Procs, id \in AlertIds :
          Exists(view'[q], id) => Recorded(Trail', id, view'[q][id])
    BY <1>3, <1>4, <2>1, <2>3, BlankRows DEF Recording, ViewsRecorded
  <2> QED
    BY <2>1, <2>3, <2>4, <2>5, KeepRecording
<1> QED
  BY <1>5, <1>6, <1>7, <1>8

LEMMA DropKeepsTrail ==
  ASSUME TrailInv, TypeOK', NEW p \in Procs, Drop(p),
         \/ aborts' # 0
         \/ aborts' = aborts /\ entries[p] = {} /\ pc[p] # "insert"
  PROVE  InsertAlone' /\ ViewHasChanged' /\ (aborts' = 0 => Recording' /\ Storing')
<1> USE DEF TrailInv
<1>1. /\ UNCHANGED <<alerts, history>>
      /\ pc' = [pc EXCEPT ![p] = "idle"]
      /\ view' = [view EXCEPT ![p] = Blank]
      /\ entries' = [entries EXCEPT ![p] = {}]
  BY DEF Drop, Goto, Forget
<1>2. \A q \in Procs : q # p => pc'[q] = pc[q] /\ view'[q] = view[q] /\ entries'[q] = entries[q]
  BY <1>1 DEF TypeOK
<1>3. pc'[p] = "idle" /\ view'[p] = Blank /\ entries'[p] = {}
  BY <1>1 DEF TypeOK
<1>4. InsertAlone'
  BY <1>2, <1>3 DEF InsertAlone
<1>5. ViewHasChanged'
  BY <1>2, <1>3 DEF ViewHasChanged
<1>6. ASSUME aborts' = 0 PROVE Recording' /\ Storing'
  <2>1. aborts = 0 /\ entries' = entries /\ pc[p] # "insert"
    BY <1>1, <1>6 DEF TypeOK
  <2>2. Trail' = Trail /\ Recording /\ Storing
    BY <1>1, <2>1 DEF Trail, Pending
  <2>3. \A id : Stored(id) => Stored(id)'
    BY <1>1, <1>2, <2>1 DEF Stored, Changed, Exists
  <2>4. Storing'
    BY <1>1, <1>2, <1>3, <2>1, <2>2, <2>3 DEF Storing, HistoryStored, AppendStored
  <2>5. \A id \in AlertIds : Exists(alerts', id) => Recorded(Trail', id, alerts'[id])
    BY <1>1, <2>2 DEF Recording, RowsRecorded
  <2>6. \A q \in Procs, id \in AlertIds :
          Exists(view'[q], id) => Recorded(Trail', id, view'[q][id])
    BY <1>2, <1>3, <2>2, BlankRows DEF Recording, ViewsRecorded
  <2> QED
    BY <2>2, <2>4, <2>5, <2>6, KeepRecording
<1> QED
  BY <1>4, <1>5, <1>6

(* Every storage call keeps what the audit trail rests on: one operation at a   *)
(* time is between DELETE and INSERT, holding the rows it will insert; and,      *)
(* while none was cut, each row stored or in memory results from an entry.       *)
THEOREM TrailInductive ==
  TrailInv /\ TypeOK' /\ [Next]_vars
    => InsertAlone' /\ ViewHasChanged' /\ (aborts' = 0 => Recording' /\ Storing')
<1> SUFFICES ASSUME TrailInv, TypeOK', [Next]_vars
             PROVE  InsertAlone' /\ ViewHasChanged' /\ (aborts' = 0 => Recording' /\ Storing')
  OBVIOUS
<1> DEFINE Goal == InsertAlone' /\ ViewHasChanged' /\ (aborts' = 0 => Recording' /\ Storing')
<1> USE ProcsCover
<1>0. TypeOK /\ EntryPhases
  BY DEF TrailInv
<1>1. ASSUME NEW w \in Runners, NEW h \in Hours, NEW b \in Batches(h), StartRun(w, h, b)
      PROVE  Goal
  <2>1. w \in Procs /\ pc[w] = "idle" /\ entries[w] = {}
    BY <1>0, <1>1 DEF StartRun, MayStart, EntryPhases
  <2>2. \E step \in Steps \ {"insert", "append"} : Goto(w, step)
    BY <1>1 DEF StartRun, Steps
  <2>3. view' = view \/ view' = [view EXCEPT ![w] = alerts]
    BY <1>1 DEF StartRun
  <2> QED
    BY <1>1, <2>1, <2>2, <2>3, QuietKeepsTrail DEF StartRun
<1>2. ASSUME NEW o \in Operators, NEW id \in AlertIds, NEW status \in Statuses,
             UpdateStatus(o, id, status)
      PROVE  Goal
  <2> DEFINE e == StatusEntry(alerts, id, status, <<"wall", clock + 1>>, StatusAction(status))
  <2>1. o \in Procs /\ pc[o] = "idle" /\ entries[o] = {} /\ alerts \in Tables
    BY <1>0, <1>2 DEF UpdateStatus, MayStart, EntryPhases, TypeOK
  <2>2. <<"wall", clock + 1>> \in Stamp /\ StatusAction(status) \in Actions
    BY <1>0, BoundsAssumption DEF Stamp, StatusAction, Statuses, Actions, TypeOK
  <2>3. e \in Entry /\ e.alert = id /\ e.prev = alerts[id]
    BY <1>2, <2>1, <2>2, StatusEntryType DEF UpdateStatus
  <2>4. Prepare(o, alerts, e, "idle") /\ Goto(o, "delete")
        /\ UNCHANGED <<alerts, history, aborts>>
    BY <1>2 DEF UpdateStatus
  <2> HIDE DEF e
  <2> QED
    BY <2>1, <2>3, <2>4, PreparingKeepsTrail
<1>3. ASSUME NEW w \in Runners, ReadHistory(w) PROVE Goal
  <2>1. w \in Procs /\ pc[w] = "history"
    BY <1>3 DEF ReadHistory
  <2>2. \E step \in Steps \ {"insert", "append"} : Goto(w, step)
    BY <1>3 DEF ReadHistory, Steps
  <2> QED
    BY <1>3, <2>1, <2>2, QuietKeepsTrail DEF ReadHistory
<1>4. ASSUME NEW w \in Runners, NEW x \in batch[w], SkipEvent(w, x) PROVE Goal
  <2>1. w \in Procs /\ pc[w] = "events" /\ pc' = pc /\ pc \in [Procs -> Steps]
    BY <1>0, <1>4 DEF SkipEvent, TypeOK
  <2>2. Goto(w, "events") /\ "events" \in Steps \ {"insert", "append"}
    BY <2>1 DEF Goto, Steps
  <2> QED
    BY <1>4, <2>1, <2>2, QuietKeepsTrail DEF SkipEvent
<1>5. ASSUME NEW w \in Runners, NEW x \in batch[w], FoldEvent(w, x) PROVE Goal
  <2>1. w \in Procs /\ view[w] \in Tables /\ x \in Events
    BY <1>0 DEF TypeOK
  <2>2. x[1] \in Streams /\ x[2] \in Hours /\ x[3] \in Severities
    BY <2>1 DEF Events
  <2>3. PICK e \in Observed(view[w], x[1], x[2], x[3]) :
          IF e.new = e.prev THEN UNCHANGED <<view, entries, after>>
                            ELSE Prepare(w, view[w], e, "sweep")
    BY <1>5 DEF FoldEvent
  <2>4. e \in Entry /\ e.prev = view[w][e.alert] /\ Prepare(w, view[w], e, "sweep")
    BY <2>1, <2>2, <2>3, ObservedEntry, ObservedChanges
  <2>5. UNCHANGED <<alerts, history, aborts, pc>> /\ pc[w] = "events"
    BY <1>5 DEF FoldEvent
  <2> QED
    BY <2>1, <2>4, <2>5, PreparingKeepsTrail
<1>6. ASSUME NEW w \in Runners, EndBatch(w) PROVE Goal
  <2>1. w \in Procs /\ pc[w] = "events"
    BY <1>6 DEF EndBatch
  <2>2. \E step \in Steps \ {"insert", "append"} : Goto(w, step)
    BY <1>6 DEF EndBatch, Steps
  <2>3. view' = view \/ (entries[w] = {} /\ view' = [view EXCEPT ![w] = Blank])
    BY <1>6 DEF EndBatch
  <2> QED
    BY <1>6, <2>1, <2>2, <2>3, QuietKeepsTrail DEF EndBatch
<1>7. ASSUME NEW w \in Runners, Sweep(w) PROVE Goal
  <2>1. w \in Procs /\ pc[w] = "sweep"
    BY <1>7 DEF Sweep
  <2>2. \E step \in Steps \ {"insert", "append"} : Goto(w, step)
    BY <1>7 DEF Sweep, Steps
  <2> QED
    BY <1>7, <2>1, <2>2, QuietKeepsTrail DEF Sweep
<1>8. ASSUME NEW w \in Runners, NEW id \in todo[w], ResolveNext(w, id) PROVE Goal
  <2> DEFINE e == StatusEntry(alerts, id, "resolved", <<"hour", end[w]>>, "auto_resolved")
  <2>1. w \in Procs /\ pc[w] = "resolve" /\ entries[w] = {} /\ alerts \in Tables
    BY <1>0, <1>8 DEF ResolveNext, EntryPhases, TypeOK
  <2>2. id \in AlertIds /\ end[w] \in Nat
    BY <1>0, <2>1, HoursAreNat DEF TypeOK
  <2>3. <<"hour", end[w]>> \in Stamp /\ "auto_resolved" \in Actions /\ "resolved" \in Statuses
    BY <2>2 DEF Stamp, Actions, Statuses
  <2>4. e \in Entry /\ e.alert = id /\ e.prev = alerts[id]
    BY <1>8, <2>1, <2>2, <2>3, StatusEntryType DEF ResolveNext
  <2>5. UNCHANGED <<alerts, history, aborts>>
    BY <1>8 DEF ResolveNext
  <2>6. CASE UNCHANGED <<pc, view, entries, after>>
    <3>1. Goto(w, "resolve") /\ "resolve" \in Steps \ {"insert", "append"}
      BY <1>0, <2>1, <2>6 DEF Goto, Steps, TypeOK
    <3> QED
      BY <2>1, <2>5, <2>6, <3>1, QuietKeepsTrail
  <2>7. CASE Prepare(w, alerts, e, "resolve") /\ Goto(w, "delete")
    <3> HIDE DEF e
    <3> QED
      BY <2>1, <2>4, <2>5, <2>7, PreparingKeepsTrail
  <2> QED
    BY <1>8, <2>6, <2>7 DEF ResolveNext
<1>9. ASSUME NEW w \in Runners, NEW id \in todo[w], ResolveGone(w, id) PROVE Goal
  <2>1. w \in Procs /\ pc[w] = "resolve" /\ entries[w] = {}
    BY <1>0, <1>9 DEF ResolveGone, EntryPhases
  <2> QED
    BY <1>9, <2>1, DropKeepsTrail DEF ResolveGone
<1>10. ASSUME NEW w \in Runners, FinishRun(w) PROVE Goal
  <2>1. w \in Procs /\ pc[w] = "resolve"
    BY <1>10 DEF FinishRun
  <2>2. \E step \in Steps \ {"insert", "append"} : Goto(w, step)
    BY <1>10 DEF FinishRun, Steps
  <2> QED
    BY <1>10, <2>1, <2>2, QuietKeepsTrail DEF FinishRun
<1>11. ASSUME NEW p \in Procs, Abort(p) PROVE Goal
  <2>1. aborts' # 0
    BY <1>0, <1>11, BoundsAssumption DEF Abort, TypeOK
  <2> QED
    BY <1>11, <2>1, DropKeepsTrail DEF Abort
<1>12. ASSUME UNCHANGED vars PROVE Goal
  <2>1. UNCHANGED <<alerts, history, aborts, pc, view, entries>>
    BY <1>12 DEF vars
  <2>2. Trail' = Trail
    BY <2>1 DEF Trail, Pending
  <2>3. InsertAlone' /\ ViewHasChanged'
    BY <2>1 DEF TrailInv, InsertAlone, ViewHasChanged
  <2>4. ASSUME aborts' = 0 PROVE Recording'
    <3>1. Recording
      BY <2>1, <2>4 DEF TrailInv
    <3> QED
      BY <2>1, <2>2, <3>1 DEF Recording, RowsRecorded, ViewsRecorded, ChainRecorded, Recorded
  <2>5. ASSUME aborts' = 0 PROVE Storing'
    <3>1. Storing
      BY <2>1, <2>5 DEF TrailInv
    <3>2. ASSUME NEW id PROVE Stored(id)' <=> Stored(id)
      BY <2>1 DEF Stored, Changed, Exists
    <3>3. HistoryStored' /\ AppendStored'
      BY <2>1, <3>1, <3>2 DEF Storing, HistoryStored, AppendStored
    <3> QED
      BY <3>3 DEF Storing
  <2> QED
    BY <2>3, <2>4, <2>5 DEF Goal
<1> HIDE DEF Goal
<1>13. ASSUME NEW p \in Procs, DeleteRows(p) \/ InsertRows(p) \/ AppendHistory(p) PROVE Goal
  BY <1>13, DeleteKeepsTrail, InsertKeepsTrail, AppendKeepsTrail DEF Goal
<1>14. ASSUME NEW p \in Procs, Continue(p) PROVE Goal
  <2>1. CASE DeleteRows(p) \/ InsertRows(p) \/ AppendHistory(p)
    BY <2>1, <1>13
  <2>2. CASE p \in Runners /\ (ReadHistory(p) \/ EndBatch(p) \/ Sweep(p) \/ FinishRun(p))
    BY <2>2, <1>3, <1>6, <1>7, <1>10
  <2>3. CASE p \in Runners /\ \E x \in batch[p] : SkipEvent(p, x) \/ FoldEvent(p, x)
    BY <2>3, <1>4, <1>5
  <2>4. CASE p \in Runners /\ \E id \in todo[p] : ResolveNext(p, id) \/ ResolveGone(p, id)
    BY <2>4, <1>8, <1>9
  <2> QED
    BY <1>14, <2>1, <2>2, <2>3, <2>4 DEF Continue
<1>15. ASSUME Next PROVE Goal
  BY <1>15, <1>1, <1>2, <1>11, <1>14 DEF Next
<1>16. Goal
  BY <1>12, <1>15
<1> QED
  BY <1>16 DEF Goal

(* The audit trail explains the alert table: unless an operation was cut     *)
(* short, every row is the result of a history row, chains of history rows   *)
(* have no missing link, and no alert with history is missing, for any       *)
(* number of processes interleaving between their connections.               *)
THEOREM TrailCorrect == Spec => []TrailExplainsAlerts
<1>1. Init => TrailInv
  <2> SUFFICES ASSUME Init PROVE TrailInv
    OBVIOUS
  <2>0. TypeOK
    <3>1. 0 \in Hours /\ 0 \in 0 .. MaxRuns /\ 0 \in 0 .. MaxClock /\ 0 \in 0 .. MaxAborts
      BY MaxHourAssumption, BoundsAssumption DEF Hours
    <3> QED
      BY <3>1, BlankType, StepsAre DEF Init, TypeOK
  <2>1. Trail = {}
    BY TrailMember DEF Init
  <2>2. EntryPhases /\ InsertAlone /\ ViewHasChanged
    BY DEF Init, EntryPhases, InsertAlone, ViewHasChanged
  <2>3. Recording /\ Storing
    BY <2>1, BlankRows DEF Init, Recording, Storing, RowsRecorded, ViewsRecorded,
       ChainRecorded, HistoryStored, AppendStored
  <2> QED
    BY <2>0, <2>2, <2>3 DEF TrailInv
<1>2. TrailInv /\ TypeOK' /\ [Next]_vars => TrailInv'
  BY TrailInductive, PhasesInductive DEF TrailInv
<1>3. TrailInv => TrailExplainsAlerts
  <2> SUFFICES ASSUME TrailInv, aborts = 0 PROVE TrailExplainsAlerts
    BY DEF TrailExplainsAlerts
  <2>1. Recording /\ Storing
    BY DEF TrailInv
  <2> QED
    BY <2>1 DEF TrailExplainsAlerts, Recording, Storing, RowsRecorded, ChainRecorded,
       HistoryStored, Recorded, Stored, Trail
<1> QED
  BY <1>1, <1>2, <1>3, TypeCorrect, PTL DEF Spec

-----------------------------------------------------------------------------
(* CountFitsSpanUnlessCut.  The strengthening: every row, stored or held in   *)
(* memory, fits its span, and the anomaly it was last seen with is named by   *)
(* the history or by a row a detection run is about to append; the run that   *)
(* holds the row knows that anomaly when it folds events.  A new anomaly of   *)
(* the stream is therefore strictly later than the row it is added to.        *)
Sighted == Represented(history \cup UNION {entries[w] : w \in Runners})

Fits(table) ==
  \A id \in AlertIds : Exists(table, id) => table[id].count <= table[id].last - id[2] + 1

Within(table, S) ==
  \A id \in AlertIds : Exists(table, id) => <<id[1], table[id].last>> \in S

SpanParts ==
  /\ Fits(alerts) /\ Within(alerts, Sighted)
  /\ \A p \in Procs : Fits(view[p]) /\ Within(view[p], Sighted)
  /\ \A w \in Runners :
       /\ pc[w] = "history" => Within(view[w], Represented(history))
       /\ pc[w] = "events" => Within(view[w], known[w])

SpanInv == TypeOK /\ EntryPhases /\ (aborts = 0 => SpanParts)

(* At most one detection run is under way.                                   *)
OneRun == Serial = TRUE \/ \A v, w \in Runners : v = w

LEMMA RowNumbers == \A row \in Alert : row.last \in Int /\ row.count \in Int
<1>1. SUFFICES ASSUME NEW row \in Alert PROVE row.last \in Int /\ row.count \in Int
  OBVIOUS
<1>2. row.last \in Int
  BY HoursAreNat DEF Alert
<1>3. row.count \in Nat
  BY DEF Alert
<1> QED
  BY <1>2, <1>3

LEMMA WithinGrows ==
  ASSUME NEW S, NEW T, S \subseteq T, NEW table, Within(table, S)
  PROVE  Within(table, T)
BY DEF Within

LEMMA BlankSpans == ASSUME NEW S PROVE Fits(Blank) /\ Within(Blank, S)
BY BlankRows DEF Fits, Within

LEMMA SightedMember ==
  /\ \A S, x : x \in Represented(S) <=> \E e \in S : x = AnomalyOf(e)
  /\ \A e : e \in history \cup UNION {entries[w] : w \in Runners}
              <=> (e \in history \/ \E w \in Runners : e \in entries[w])
  /\ \A e : e \in history' \cup UNION {entries'[w] : w \in Runners}
              <=> (e \in history' \/ \E w \in Runners : e \in entries'[w])
BY DEF Represented

LEMMA SightedGrows ==
  ASSUME history \subseteq history',
         \A w \in Runners : entries[w] \subseteq entries'[w] \cup history'
  PROVE  Sighted \subseteq Sighted' /\ Represented(history) \subseteq Represented(history')
<1>1. history \cup UNION {entries[w] : w \in Runners}
        \subseteq history' \cup UNION {entries'[w] : w \in Runners}
  OBVIOUS
<1>2. Represented(history \cup UNION {entries[w] : w \in Runners})
        \subseteq Represented(history' \cup UNION {entries'[w] : w \in Runners})
  BY <1>1, RepresentedGrows
<1> QED
  BY <1>2, RepresentedGrows DEF Sighted, Represented, AnomalyOf

(* Only the process that takes the step has anything to re-establish.        *)
LEMMA SpanStep ==
  ASSUME SpanParts, NEW p \in Procs,
         Sighted \subseteq Sighted', Represented(history) \subseteq Represented(history'),
         Fits(alerts'), Within(alerts', Sighted'),
         Fits(view'[p]), Within(view'[p], Sighted'),
         \A q \in Procs \ {p} : view'[q] = view[q] /\ pc'[q] = pc[q] /\ known'[q] = known[q],
         pc'[p] = "history" => Within(view'[p], Represented(history')),
         pc'[p] = "events" => Within(view'[p], known'[p])
  PROVE  SpanParts'
<1>1. ASSUME NEW q \in Procs PROVE Fits(view'[q]) /\ Within(view'[q], Sighted')
  BY <1>1, WithinGrows DEF SpanParts
<1>2. ASSUME NEW w \in Runners, w # p
      PROVE  /\ pc'[w] = "history" => Within(view'[w], Represented(history'))
             /\ pc'[w] = "events" => Within(view'[w], known'[w])
  BY <1>2, ProcsCover, WithinGrows DEF SpanParts
<1>3. /\ Fits(alerts)' /\ Within(alerts, Sighted)'
      /\ \A q \in Procs : Fits(view[q])' /\ Within(view[q], Sighted)'
      /\ \A w \in Runners :
           /\ pc'[w] = "history" => Within(view[w], Represented(history))'
           /\ pc'[w] = "events" => Within(view[w], known[w])'
  BY <1>1, <1>2 DEF Fits, Within, Exists, Represented, AnomalyOf
<1> QED
  BY <1>3 DEF SpanParts

(* A status change keeps the count and the hour of the row.                  *)
LEMMA StatusKeepsSpan ==
  ASSUME NEW table \in Tables, NEW id \in AlertIds, Exists(table, id),
         NEW status \in Statuses, NEW stamp \in Stamp, NEW S,
         Fits(table), Within(table, S)
  PROVE  /\ Fits([table EXCEPT ![id] = WithStatus(table[id], status, stamp)])
         /\ Within([table EXCEPT ![id] = WithStatus(table[id], status, stamp)], S)
<1> DEFINE rows == [table EXCEPT ![id] = WithStatus(table[id], status, stamp)]
<1>1. table[id] \in Alert
  BY DEF Exists, Tables
<1>2. /\ rows[id].last = table[id].last /\ rows[id].count = table[id].count
      /\ \A other \in AlertIds : other # id => rows[other] = table[other]
  BY <1>1, WithStatusType DEF Tables
<1> HIDE DEF rows
<1>3. Fits(rows) /\ Within(rows, S)
  BY <1>2 DEF Fits, Within, Exists
<1> QED
  BY <1>3 DEF rows

(* Folding an anomaly whose like the table's holder knows keeps every row    *)
(* within its span.                                                          *)
LEMMA FoldKeepsSpan ==
  ASSUME NEW table \in Tables, NEW s \in Streams, NEW h \in Hours, NEW sev \in Severities,
         NEW K, <<s, h>> \notin K, Fits(table), Within(table, K),
         NEW e \in Observed(table, s, h, sev)
  PROVE  /\ Fits([table EXCEPT ![e.alert] = e.new])
         /\ Within([table EXCEPT ![e.alert] = e.new], K \cup {<<s, h>>})
<1> DEFINE rows == [table EXCEPT ![e.alert] = e.new]
<1>1. /\ e \in Entry /\ AnomalyOf(e) = <<s, h>> /\ e.alert \in AlertIds
      /\ e.alert[1] = s /\ e.new.last = h
  BY ObservedEntry DEF Entry, AnomalyOf
<1>2. rows[e.alert] = e.new /\ \A id \in AlertIds : id # e.alert => rows[id] = table[id]
  BY <1>1 DEF Tables
<1>3. h \in Int /\ e.alert[2] \in Int
  BY <1>1, HoursAreNat DEF AlertIds
<1>4. e.new.count <= h - e.alert[2] + 1
  <2>1. CASE DedupMatch(table, s, h) = {}
    <3>1. e.alert = <<s, h>> /\ e.new = Opened(sev, h)
      BY <2>1 DEF Observed
    <3>2. e.alert[2] = h /\ e.new.count = 1
      BY <3>1 DEF Opened
    <3> QED
      BY <1>3, <3>2
  <2>2. CASE DedupMatch(table, s, h) # {}
    <3>1. PICK id \in DedupMatch(table, s, h) :
            e = [alert |-> id, action |-> "occurrence", prev |-> table[id],
                 new |-> WithOccurrence(table[id], sev, h)]
      BY <2>2 DEF Observed
    <3>2. /\ id \in AlertIds /\ id[1] = s /\ Exists(table, id) /\ table[id].last <= h
          /\ e.alert = id /\ e.new = WithOccurrence(table[id], sev, h)
      BY <3>1 DEF DedupMatch, Candidates
    <3>3. table[id] \in Alert
      BY <3>2 DEF Exists, Tables
    <3>4. table[id].last \in Int /\ table[id].count \in Int
      BY <3>3, RowNumbers
    <3>5. <<s, table[id].last>> \in K
      BY <3>2 DEF Within
    <3>6. table[id].last < h
      BY <1>3, <3>2, <3>4, <3>5
    <3>7. table[id].count <= table[id].last - id[2] + 1
      BY <3>2 DEF Fits
    <3>8. e.new.count = table[id].count + 1
      BY <3>2, <3>3, WithOccurrenceType
    <3> QED
      BY <1>3, <3>2, <3>4, <3>6, <3>7, <3>8
  <2> QED
    BY <2>1, <2>2
<1> HIDE DEF rows
<1>5. Fits(rows)
  BY <1>1, <1>2, <1>4 DEF Fits, Exists
<1>6. Within(rows, K \cup {<<s, h>>})
  BY <1>1, <1>2 DEF Within, Exists
<1> QED
  BY <1>5, <1>6 DEF rows

LEMMA SpanInductive ==
  ASSUME OneRun, SpanInv, TypeOK', EntryPhases', [Next]_vars
  PROVE  SpanInv'
<1>0. TypeOK /\ EntryPhases
  BY DEF SpanInv
<1> SUFFICES ASSUME aborts' = 0 PROVE SpanParts'
  BY DEF SpanInv
<1>a. aborts = 0 /\ SpanParts
  <2>1. aborts' = aborts \/ aborts' = aborts + 1
    BY DEF Next, Continue, vars, StartRun, UpdateStatus, DeleteRows, InsertRows,
       AppendHistory, ReadHistory, SkipEvent, FoldEvent, EndBatch, Sweep, ResolveNext,
       ResolveGone, FinishRun, Abort
  <2>2. aborts \in Nat
    BY <1>0, BoundsAssumption DEF TypeOK
  <2> QED
    BY <2>1, <2>2 DEF SpanInv
<1> USE ProcsCover
<1>1. ASSUME NEW w \in Runners, NEW h \in Hours, NEW b \in Batches(h), StartRun(w, h, b)
      PROVE  SpanParts'
  <2>1. w \in Procs /\ pc[w] = "idle" /\ MayStart(w)
    BY <1>1 DEF StartRun, MayStart
  <2>2. \A v \in Runners : entries[v] = {}
    BY <1>0, <2>1 DEF OneRun, MayStart, EntryPhases
  <2>3. Sighted = Represented(history)
    BY <2>2, SightedMember DEF Sighted, Represented
  <2>4. UNCHANGED <<alerts, history, entries, known>>
    BY <1>1 DEF StartRun
  <2>5. Sighted' = Sighted /\ Represented(history') = Represented(history)
    BY <2>4 DEF Sighted, Represented, AnomalyOf
  <2>6. /\ \A q \in Procs \ {w} : view'[q] = view[q] /\ pc'[q] = pc[q]
        /\ \/ pc'[w] = "sweep" /\ view'[w] = view[w]
           \/ pc'[w] = "history" /\ view'[w] = alerts
    BY <1>0, <1>1, <2>1 DEF StartRun, Goto, TypeOK
  <2>7. /\ Fits(alerts) /\ Within(alerts, Sighted)
        /\ Fits(view[w]) /\ Within(view[w], Sighted)
    BY <1>a, <2>1 DEF SpanParts
  <2> QED
    BY <1>a, <2>1, <2>3, <2>4, <2>5, <2>6, <2>7, SpanStep
<1>2. ASSUME NEW o \in Operators, NEW id \in AlertIds, NEW status \in Statuses,
             UpdateStatus(o, id, status)
      PROVE  SpanParts'
  <2> DEFINE stamp == <<"wall", clock + 1>>
  <2> DEFINE e == StatusEntry(alerts, id, status, stamp, StatusAction(status))
  <2>1. o \in Procs /\ alerts \in Tables /\ clock \in Nat /\ entries[o] = {}
    BY <1>0, <1>2, BoundsAssumption DEF UpdateStatus, MayStart, TypeOK, EntryPhases
  <2>2. stamp \in Stamp /\ Exists(alerts, id)
    BY <1>2, <2>1 DEF Stamp, UpdateStatus
  <2>3. /\ UNCHANGED <<alerts, history, known>>
        /\ view'[o] = [alerts EXCEPT ![id] = WithStatus(alerts[id], status, stamp)]
        /\ \A q \in Procs : entries[q] \subseteq entries'[q]
        /\ \A q \in Procs \ {o} : view'[q] = view[q] /\ pc'[q] = pc[q]
        /\ pc'[o] = "delete"
    BY <1>0, <1>2, <2>1 DEF UpdateStatus, Prepare, Goto, TypeOK, StatusEntry
  <2>4. Sighted \subseteq Sighted' /\ Represented(history) \subseteq Represented(history')
    BY <2>3, SightedGrows
  <2>5. Fits(alerts) /\ Within(alerts, Sighted')
    BY <1>a, <2>4, WithinGrows DEF SpanParts
  <2>6. Fits(view'[o]) /\ Within(view'[o], Sighted')
    BY <2>1, <2>2, <2>3, <2>5, StatusKeepsSpan
  <2> QED
    BY <1>a, <2>1, <2>3, <2>4, <2>5, <2>6, SpanStep
<1>3. ASSUME NEW p \in Procs, DeleteRows(p) PROVE SpanParts'
  <2>1. /\ UNCHANGED <<history, view, entries, known>> /\ pc'[p] = "insert"
        /\ \A q \in Procs \ {p} : pc'[q] = pc[q]
        /\ \A id \in AlertIds : alerts'[id] = NoAlert \/ alerts'[id] = alerts[id]
    BY <1>0, <1>3 DEF DeleteRows, Goto, TypeOK
  <2>2. Sighted \subseteq Sighted' /\ Represented(history) \subseteq Represented(history')
    BY <2>1, SightedGrows
  <2>3. Fits(alerts') /\ Within(alerts', Sighted)
    BY <1>a, <2>1 DEF SpanParts, Fits, Within, Exists
  <2>4. Fits(view'[p]) /\ Within(view'[p], Sighted)
    BY <1>a, <2>1 DEF SpanParts
  <2> QED
    BY <1>a, <2>1, <2>2, <2>3, <2>4, WithinGrows, SpanStep
<1>4. ASSUME NEW p \in Procs, InsertRows(p) PROVE SpanParts'
  <2>1. /\ UNCHANGED <<history, view, entries, known>> /\ pc'[p] = "append"
        /\ \A q \in Procs \ {p} : pc'[q] = pc[q]
        /\ \A id \in AlertIds : alerts'[id] = view[p][id] \/ alerts'[id] = alerts[id]
    BY <1>0, <1>4 DEF InsertRows, Goto, TypeOK
  <2>2. Sighted \subseteq Sighted' /\ Represented(history) \subseteq Represented(history')
    BY <2>1, SightedGrows
  <2>3. Fits(view[p]) /\ Within(view[p], Sighted) /\ Fits(alerts) /\ Within(alerts, Sighted)
    BY <1>a DEF SpanParts
  <2>4. Fits(alerts') /\ Within(alerts', Sighted)
    BY <2>1, <2>3 DEF Fits, Within, Exists
  <2> QED
    BY <1>a, <2>1, <2>2, <2>3, <2>4, WithinGrows, SpanStep
<1>5. ASSUME NEW p \in Procs, AppendHistory(p) PROVE SpanParts'
  <2>1. /\ UNCHANGED <<alerts, known>> /\ pc'[p] \in {"idle", "sweep", "resolve"}
        /\ history' = history \cup entries[p] /\ view'[p] = Blank
        /\ \A q \in Procs \ {p} : /\ view'[q] = view[q] /\ pc'[q] = pc[q]
                                  /\ entries'[q] = entries[q]
    BY <1>0, <1>5 DEF AppendHistory, Goto, Forget, TypeOK
  <2>2. Sighted \subseteq Sighted' /\ Represented(history) \subseteq Represented(history')
    BY <2>1, SightedGrows
  <2>3. Fits(alerts) /\ Within(alerts, Sighted)
    BY <1>a DEF SpanParts
  <2> QED
    BY <1>a, <2>1, <2>2, <2>3, BlankSpans, WithinGrows, SpanStep
<1>6. ASSUME NEW w \in Runners, ReadHistory(w) PROVE SpanParts'
  <2>1. /\ UNCHANGED <<alerts, history, view, entries>>
        /\ pc[w] = "history" /\ pc'[w] = "events" /\ known'[w] = Represented(history)
        /\ \A q \in Procs \ {w} : known'[q] = known[q] /\ pc'[q] = pc[q]
    BY <1>0, <1>6 DEF ReadHistory, Goto, TypeOK
  <2>2. Sighted \subseteq Sighted' /\ Represented(history) \subseteq Represented(history')
    BY <2>1, SightedGrows
  <2>3. /\ Fits(alerts) /\ Within(alerts, Sighted) /\ Fits(view[w]) /\ Within(view[w], Sighted)
        /\ Within(view[w], known'[w])
    BY <1>a, <2>1 DEF SpanParts
  <2> QED
    BY <1>a, <2>1, <2>2, <2>3, WithinGrows, SpanStep
<1>7. ASSUME NEW w \in Runners, NEW x \in batch[w], FoldEvent(w, x) PROVE SpanParts'
  <2>1. w \in Procs /\ view[w] \in Tables /\ x \in Events
    BY <1>0 DEF TypeOK
  <2>2. x[1] \in Streams /\ x[2] \in Hours /\ x[3] \in Severities
    BY <2>1 DEF Events
  <2>3. PICK e \in Observed(view[w], x[1], x[2], x[3]) :
          IF e.new = e.prev THEN UNCHANGED <<view, entries, after>>
                            ELSE Prepare(w, view[w], e, "sweep")
    BY <1>7 DEF FoldEvent
  <2>4. /\ e \in Entry /\ AnomalyOf(e) = <<x[1], x[2]>>
        /\ Prepare(w, view[w], e, "sweep")
    BY <2>1, <2>2, <2>3, ObservedEntry, ObservedChanges
  <2>5. /\ UNCHANGED <<alerts, history, pc>> /\ pc[w] = "events"
        /\ <<x[1], x[2]>> \notin known[w] /\ known'[w] = known[w] \cup {<<x[1], x[2]>>}
        /\ \A q \in Procs \ {w} : known'[q] = known[q]
    BY <1>0, <1>7 DEF FoldEvent, TypeOK
  <2>6. /\ view'[w] = [view[w] EXCEPT ![e.alert] = e.new]
        /\ entries'[w] = entries[w] \cup {e}
        /\ \A q \in Procs \ {w} : view'[q] = view[q] /\ entries'[q] = entries[q]
    BY <1>0, <2>1, <2>4 DEF Prepare, TypeOK
  <2>7. Sighted \subseteq Sighted' /\ Represented(history) \subseteq Represented(history')
    BY <2>5, <2>6, SightedGrows
  <2>8. <<x[1], x[2]>> \in Sighted'
    <3>1. e \in history' \cup UNION {entries'[v] : v \in Runners}
      BY <2>6
    <3>2. AnomalyOf(e) \in Represented(history' \cup UNION {entries'[v] : v \in Runners})
      BY <3>1, SightedMember
    <3> QED
      BY <2>4, <3>2 DEF Sighted, Represented, AnomalyOf
  <2>9. /\ Fits(alerts) /\ Within(alerts, Sighted) /\ Fits(view[w])
        /\ Within(view[w], Sighted) /\ Within(view[w], known[w])
    BY <1>a, <2>5 DEF SpanParts
  <2>10. Fits(view'[w]) /\ Within(view'[w], known'[w])
    <3>1. /\ Fits([view[w] EXCEPT ![e.alert] = e.new])
          /\ Within([view[w] EXCEPT ![e.alert] = e.new], known[w] \cup {<<x[1], x[2]>>})
      BY <2>1, <2>2, <2>5, <2>9, FoldKeepsSpan
    <3> QED
      BY <2>5, <2>6, <3>1
  <2>11. Within(view'[w], Sighted')
    <3>1. e.alert[1] = x[1] /\ e.new.last = x[2] /\ e.alert \in AlertIds
      BY <2>4 DEF AnomalyOf, Entry
    <3>2. view'[w][e.alert] = e.new
          /\ \A id \in AlertIds : id # e.alert => view'[w][id] = view[w][id]
      BY <2>1, <2>6, <3>1 DEF Tables
    <3> QED
      BY <2>7, <2>8, <2>9, <3>1, <3>2 DEF Within, Exists
  <2> QED
    BY <1>a, <2>1, <2>5, <2>6, <2>7, <2>9, <2>10, <2>11, WithinGrows, SpanStep
<1>8. ASSUME NEW w \in Runners, NEW id \in todo[w], ResolveNext(w, id),
             ~UNCHANGED <<pc, view, entries, after>>
      PROVE  SpanParts'
  <2> DEFINE stamp == <<"hour", end[w]>>
  <2>1. /\ w \in Procs /\ alerts \in Tables /\ end[w] \in Nat /\ entries[w] = {}
        /\ id \in AlertIds
    BY <1>0, <1>8, HoursAreNat DEF ResolveNext, EntryPhases, TypeOK
  <2>2. stamp \in Stamp /\ Exists(alerts, id) /\ "resolved" \in Statuses
    BY <1>8, <2>1 DEF Stamp, ResolveNext, Statuses
  <2>3. /\ UNCHANGED <<alerts, history, known>>
        /\ view'[w] = [alerts EXCEPT ![id] = WithStatus(alerts[id], "resolved", stamp)]
        /\ \A q \in Procs : entries[q] \subseteq entries'[q]
        /\ \A q \in Procs \ {w} : view'[q] = view[q] /\ pc'[q] = pc[q]
        /\ pc'[w] = "delete"
    BY <1>0, <1>8, <2>1 DEF ResolveNext, Prepare, Goto, TypeOK, StatusEntry
  <2>4. Sighted \subseteq Sighted' /\ Represented(history) \subseteq Represented(history')
    BY <2>3, SightedGrows
  <2>5. Fits(alerts) /\ Within(alerts, Sighted')
    BY <1>a, <2>4, WithinGrows DEF SpanParts
  <2>6. Fits(view'[w]) /\ Within(view'[w], Sighted')
    BY <2>1, <2>2, <2>3, <2>5, StatusKeepsSpan
  <2> QED
    BY <1>a, <2>1, <2>3, <2>4, <2>5, <2>6, SpanStep
(* The other steps leave the tables and the journal alone; they may blank    *)
(* the view of a process that is done with it.                               *)
<1>9. ASSUME NEW p \in Procs, UNCHANGED <<alerts, history, entries>>,
             view'[p] = view[p] \/ view'[p] = Blank,
             \A q \in Procs \ {p} : view'[q] = view[q] /\ pc'[q] = pc[q] /\ known'[q] = known[q],
             \/ pc'[p] # "history" /\ pc'[p] # "events"
             \/ view'[p] = view[p] /\ pc'[p] = pc[p] /\ known'[p] = known[p] /\ p \in Runners
      PROVE  SpanParts'
  <2>1. Sighted \subseteq Sighted' /\ Represented(history) \subseteq Represented(history')
    BY <1>9, SightedGrows
  <2>2. /\ Fits(alerts) /\ Within(alerts, Sighted) /\ Fits(view[p])
        /\ Within(view[p], Sighted) /\ Fits(Blank) /\ Within(Blank, Sighted)
    BY <1>a, BlankSpans DEF SpanParts
  <2>3. /\ pc'[p] = "history" => Within(view'[p], Represented(history'))
        /\ pc'[p] = "events" => Within(view'[p], known'[p])
    BY <1>a, <1>9 DEF SpanParts
  <2> QED
    BY <1>a, <1>9, <2>1, <2>2, <2>3, WithinGrows, SpanStep
<1>10. ASSUME NEW w \in Runners, NEW x \in batch[w], SkipEvent(w, x) PROVE SpanParts'
  BY <1>9, <1>10 DEF SkipEvent
<1>11. ASSUME NEW w \in Runners, EndBatch(w) PROVE SpanParts'
  <2>1. /\ UNCHANGED <<alerts, history, entries, known>>
        /\ pc'[w] # "history" /\ pc'[w] # "events"
        /\ view'[w] = view[w] \/ view'[w] = Blank
        /\ \A q \in Procs \ {w} : view'[q] = view[q] /\ pc'[q] = pc[q]
    BY <1>0, <1>11 DEF EndBatch, Goto, TypeOK
  <2> QED
    BY <1>9, <2>1
<1>12. ASSUME NEW w \in Runners, Sweep(w) PROVE SpanParts'
  <2>1. /\ UNCHANGED <<alerts, history, entries, view>> /\ pc'[w] = "resolve"
        /\ \A q \in Procs \ {w} : known'[q] = known[q] /\ pc'[q] = pc[q]
    BY <1>0, <1>12 DEF Sweep, Goto, TypeOK
  <2> QED
    BY <1>9, <2>1
<1>13. ASSUME NEW w \in Runners, NEW id \in todo[w], ResolveNext(w, id),
              UNCHANGED <<pc, view, entries, after>>
       PROVE  SpanParts'
  BY <1>9, <1>13 DEF ResolveNext
<1>14. ASSUME NEW w \in Runners, NEW id \in todo[w], ResolveGone(w, id) PROVE SpanParts'
  <2>1. entries[w] = {}
    BY <1>0, <1>14 DEF ResolveGone, EntryPhases
  <2>2. /\ UNCHANGED <<alerts, history>> /\ pc'[w] = "idle" /\ view'[w] = Blank
        /\ \A q \in Procs \ {w} : view'[q] = view[q] /\ pc'[q] = pc[q] /\ known'[q] = known[q]
    BY <1>0, <1>14 DEF ResolveGone, Drop, Forget, Goto, TypeOK
  <2>3. entries' = entries
    BY <1>0, <1>14, <2>1 DEF ResolveGone, Drop, Forget, TypeOK
  <2> QED
    BY <1>9, <2>2, <2>3
<1>15. ASSUME NEW w \in Runners, FinishRun(w) PROVE SpanParts'
  <2>1. /\ UNCHANGED <<alerts, history, entries, view, known>> /\ pc'[w] = "idle"
        /\ \A q \in Procs \ {w} : pc'[q] = pc[q]
    BY <1>0, <1>15 DEF FinishRun, Goto, TypeOK
  <2> QED
    BY <1>9, <2>1
<1>16. ASSUME NEW p \in Procs, Abort(p) PROVE SpanParts'
  BY <1>0, <1>a, <1>16 DEF Abort
<1>17. CASE UNCHANGED vars
  <2>1. UNCHANGED <<alerts, history, view, entries, known, pc>>
    BY <1>17 DEF vars
  <2>2. Sighted' = Sighted /\ Represented(history') = Represented(history)
    BY <2>1 DEF Sighted, Represented, AnomalyOf
  <2> QED
    BY <1>a, <2>1, <2>2 DEF SpanParts, Fits, Within, Exists, Represented, AnomalyOf
<1>18. ASSUME NEW p \in Procs, Continue(p) PROVE SpanParts'
  <2>1. CASE DeleteRows(p) \/ InsertRows(p) \/ AppendHistory(p)
    BY <2>1, <1>3, <1>4, <1>5
  <2>2. CASE p \in Runners /\ (ReadHistory(p) \/ EndBatch(p) \/ Sweep(p) \/ FinishRun(p))
    BY <2>2, <1>6, <1>11, <1>12, <1>15
  <2>3. CASE p \in Runners /\ \E x \in batch[p] : SkipEvent(p, x) \/ FoldEvent(p, x)
    BY <2>3, <1>7, <1>10
  <2>4. CASE p \in Runners /\ \E id \in todo[p] : ResolveNext(p, id) \/ ResolveGone(p, id)
    BY <2>4, <1>8, <1>13, <1>14
  <2> QED
    BY <1>18, <2>1, <2>2, <2>3, <2>4 DEF Continue
<1> QED
  BY <1>1, <1>2, <1>16, <1>17, <1>18 DEF Next

LEMMA SpanInvariant ==
  ASSUME OneRun
  PROVE  Spec => []SpanInv
<1>1. Init => EntryPhases /\ (aborts = 0 => SpanParts)
  <2> SUFFICES ASSUME Init PROVE EntryPhases /\ SpanParts
    OBVIOUS
  <2>1. /\ alerts = Blank /\ \A p \in Procs : view[p] = Blank /\ pc[p] = "idle"
        /\ \A p \in Procs : entries[p] = {}
    BY DEF Init
  <2> QED
    BY <2>1, ProcsCover, BlankSpans DEF EntryPhases, SpanParts
<1>2. SpanInv /\ TypeOK' /\ [Next]_vars => SpanInv'
  <2>1. SpanInv /\ [Next]_vars => EntryPhases'
    BY PhasesInductive DEF SpanInv
  <2> QED
    BY <2>1, SpanInductive
<1>3. TypeOK /\ EntryPhases /\ (aborts = 0 => SpanParts) => SpanInv
  BY DEF SpanInv
<1> QED
  BY <1>1, <1>2, <1>3, TypeCorrect, PTL DEF Spec

(* While at most one detection run is under way, no interleaving with any    *)
(* number of operators makes an anomaly count twice: an alert never claims   *)
(* more occurrences than its span has hours (process, lifecycle.py:49-101).  *)
THEOREM CountFitsSpanUnlessCutCorrect ==
  ASSUME OneRun
  PROVE  Spec => []CountFitsSpanUnlessCut
<1>1. SpanInv => CountFitsSpanUnlessCut
  BY DEF SpanInv, SpanParts, Fits, CountFitsSpanUnlessCut, CountFitsSpan
<1> QED
  BY <1>1, SpanInvariant, PTL

(* The same without the proviso, where nothing is ever cut short.            *)
THEOREM CountFitsSpanCorrect ==
  ASSUME OneRun, MaxAborts = 0
  PROVE  Spec => []CountFitsSpan
<1>1. SpanInv => CountFitsSpan
  <2>1. TypeOK => aborts = 0
    BY DEF TypeOK
  <2> QED
    BY <2>1 DEF SpanInv, SpanParts, Fits, CountFitsSpan
<1> QED
  BY <1>1, SpanInvariant, PTL

-----------------------------------------------------------------------------
(* Where operations run one at a time (Serial), which is how the             *)
(* repository's tests and its documented single-operator use run them, the   *)
(* sequence of DuckDB connections of each operation implements one or more   *)
(* atomic steps of AlertLedger, and a sweep leaves no stale alert.           *)
(*                                                                           *)
(* SerialInv says what the process under way relies on: its view is the      *)
(* ledger while it folds events, its rows are in the table once they are     *)
(* inserted, it knows every journaled anomaly, and what auto_resolve still   *)
(* has to do is exactly what is eligible.                                    *)

(* The ledger and the journal as the process p, the only one under way,      *)
(* accounts for them.                                                        *)
ShownBy(p)   == [id \in AlertIds |-> IF id \in Changed(p) THEN view[p][id] ELSE alerts[id]]
JournalBy(p) == history \cup entries[p]

OneAtATime == \A p, q \in Procs : pc[p] # "idle" /\ pc[q] # "idle" => p = q

Tracking(p) == pc[p] \in {"history", "events"} =>
                 \A id \in AlertIds \ Changed(p) : view[p][id] = alerts[id]
Written(p)  == pc[p] = "append" => \A id \in Changed(p) : alerts[id] = view[p][id]
Knowing(p)  == pc[p] = "events" => Represented(JournalBy(p)) \subseteq known[p]
Returning(p) == after[p] = "resolve" => pc[p] \in {"delete", "insert", "append"}
Sweeping(p) == pc[p] = "resolve" \/ after[p] = "resolve"
                 => todo[p] = Eligible(ShownBy(p), end[p])

Own(p) == Tracking(p) /\ Written(p) /\ Knowing(p) /\ Returning(p) /\ Sweeping(p)

SerialInv == TypeOK /\ EntryPhases /\ OneAtATime /\ \A p \in Procs : Own(p)

-----------------------------------------------------------------------------
(* What a step of p does to the ledger it accounts for.                      *)
Stutters(p) == ShownBy(p)' = ShownBy(p) /\ JournalBy(p)' = JournalBy(p) /\ clock' = clock

Commits(p, e) == /\ ShownBy(p)' = [ShownBy(p) EXCEPT ![e.alert] = e.new]
                 /\ JournalBy(p)' = JournalBy(p) \cup {e}

Observes(p) ==
  \E s \in Streams, h \in Hours, sev \in Severities :
    /\ <<s, h>> \notin Represented(JournalBy(p))
    /\ \E e \in Observed(ShownBy(p), s, h, sev) : e.new # e.prev /\ Commits(p, e)
    /\ clock' = clock

Decides(p) ==
  \E id \in AlertIds, status \in Statuses :
    /\ clock < MaxClock
    /\ Exists(ShownBy(p), id) /\ ShownBy(p)[id].status # status
    /\ clock' = clock + 1
    /\ Commits(p, StatusEntry(ShownBy(p), id, status, <<"wall", clock + 1>>,
                              StatusAction(status)))

Expires(p) ==
  \E id \in AlertIds, h \in Hours :
    /\ id \in Eligible(ShownBy(p), h)
    /\ Commits(p, StatusEntry(ShownBy(p), id, "resolved", <<"hour", h>>, "auto_resolved"))
    /\ clock' = clock

Implements(p) == Stutters(p) \/ Observes(p) \/ Decides(p) \/ Expires(p)

Sole(p) == \A q \in Procs \ {p} : pc[q] = "idle"

-----------------------------------------------------------------------------
LEMMA ShownType ==
  ASSUME TypeOK, NEW p \in Procs
  PROVE  /\ alerts \in Tables /\ view[p] \in Tables /\ entries[p] \subseteq Entry
         /\ Changed(p) \subseteq AlertIds
         /\ entries[p] = {} => ShownBy(p) = alerts
<1>1. alerts \in Tables /\ view[p] \in Tables /\ entries[p] \subseteq Entry
  BY DEF TypeOK
<1>2. Changed(p) \subseteq AlertIds
  BY <1>1 DEF Changed, Entry
<1>3. ASSUME entries[p] = {} PROVE ShownBy(p) = alerts
  <2>1. Changed(p) = {}
    BY <1>3 DEF Changed
  <2> QED
    BY <1>1, <2>1 DEF ShownBy, Tables
<1> QED
  BY <1>1, <1>2, <1>3

LEMMA ShownTypeNext ==
  ASSUME TypeOK', NEW p \in Procs
  PROVE  /\ alerts' \in Tables /\ view'[p] \in Tables /\ entries'[p] \subseteq Entry
         /\ entries'[p] = {} => ShownBy(p)' = alerts'
<1>1. alerts' \in Tables /\ view'[p] \in Tables /\ entries'[p] \subseteq Entry
  BY DEF TypeOK
<1>2. ASSUME entries'[p] = {} PROVE ShownBy(p)' = alerts'
  <2>1. Changed(p)' = {}
    BY <1>2 DEF Changed
  <2> QED
    BY <1>1, <2>1 DEF ShownBy, Tables
<1> QED
  BY <1>1, <1>2

(* A process under way is alone, and so is one that may start.               *)
LEMMA StepIsSole ==
  ASSUME Serial = TRUE, SerialInv, NEW p \in Procs, pc[p] # "idle" \/ MayStart(p)
  PROVE  Sole(p) /\ \A q \in Procs \ {p} : entries[q] = {}
BY DEF Sole, SerialInv, OneAtATime, MayStart, EntryPhases

(* Only the process that takes the step has anything to re-establish.        *)
LEMMA SerialStep ==
  ASSUME SerialInv, TypeOK', EntryPhases', NEW p \in Procs, Sole(p),
         \A q \in Procs \ {p} : pc'[q] = pc[q] /\ after'[q] = after[q],
         Own(p)'
  PROVE  SerialInv'
<1>1. OneAtATime'
  BY DEF OneAtATime, Sole
<1>2. ASSUME NEW q \in Procs PROVE Own(q)'
  <2>1. CASE q = p
    BY <2>1
  <2>2. CASE q # p
    <3>1. pc'[q] = "idle" /\ after'[q] = after[q] /\ pc[q] = "idle"
      BY <2>2 DEF Sole
    <3>2. after[q] # "resolve"
      BY <3>1 DEF SerialInv, Own, Returning
    <3> QED
      BY <3>1, <3>2 DEF Own, Tracking, Written, Knowing, Returning, Sweeping
  <2> QED
    BY <2>1, <2>2
<1> QED
  BY <1>1, <1>2 DEF SerialInv

-----------------------------------------------------------------------------
(* A step that prepares one entry commits it to the ledger p accounts for.   *)
LEMMA PrepareCommits ==
  ASSUME TypeOK, TypeOK', NEW p \in Procs, NEW e \in Entry, NEW then,
         Prepare(p, ShownBy(p), e, then), alerts' = alerts, history' = history
  PROVE  /\ Commits(p, e)
         /\ Changed(p)' = Changed(p) \cup {e.alert}
         /\ view'[p] = ShownBy(p)'
<1>1. /\ view'[p] = [ShownBy(p) EXCEPT ![e.alert] = e.new]
      /\ entries'[p] = entries[p] \cup {e}
  BY DEF Prepare, TypeOK
<1>2. Changed(p)' = Changed(p) \cup {e.alert}
  BY <1>1 DEF Changed
<1>3. e.alert \in AlertIds
  BY DEF Entry
<1>4. ShownBy(p)' = [ShownBy(p) EXCEPT ![e.alert] = e.new]
  BY <1>1, <1>2, <1>3 DEF ShownBy
<1>5. JournalBy(p)' = JournalBy(p) \cup {e}
  BY <1>1 DEF JournalBy
<1> QED
  BY <1>1, <1>2, <1>4, <1>5 DEF Commits

LEMMA StartStep ==
  ASSUME SerialInv, TypeOK', NEW w \in Runners, NEW h \in Hours, NEW b \in Batches(h),
         StartRun(w, h, b)
  PROVE  Own(w)' /\ Stutters(w)
<1>1. w \in Procs /\ TypeOK /\ Own(w) /\ pc[w] = "idle" /\ entries[w] = {} /\ entries'[w] = {}
  BY ProcsCover DEF StartRun, MayStart, SerialInv, EntryPhases
<1>2. alerts' = alerts /\ history' = history /\ after' = after /\ clock' = clock
  BY DEF StartRun
<1>3. \/ pc'[w] = "sweep"
      \/ pc'[w] = "history" /\ view'[w] = alerts
  BY <1>1 DEF StartRun, Goto, TypeOK
<1>4. Stutters(w)
  BY <1>1, <1>2, ShownType, ShownTypeNext DEF Stutters, JournalBy
<1>5. after'[w] # "resolve"
  BY <1>1, <1>2 DEF Own, Returning
<1>6. Own(w)'
  BY <1>2, <1>3, <1>5 DEF Own, Tracking, Written, Knowing, Returning, Sweeping
<1> QED
  BY <1>4, <1>6

LEMMA UpdateStep ==
  ASSUME SerialInv, TypeOK', NEW o \in Operators, NEW id \in AlertIds,
         NEW status \in Statuses, UpdateStatus(o, id, status)
  PROVE  Own(o)' /\ Decides(o)
<1> DEFINE stamp == <<"wall", clock + 1>>
<1> DEFINE e == StatusEntry(alerts, id, status, stamp, StatusAction(status))
<1>1. o \in Procs /\ TypeOK /\ pc[o] = "idle" /\ entries[o] = {} /\ clock \in Nat
  BY ProcsCover, BoundsAssumption DEF UpdateStatus, MayStart, SerialInv, EntryPhases, TypeOK
<1>2. ShownBy(o) = alerts /\ alerts \in Tables
  BY <1>1, ShownType
<1>3. /\ Exists(alerts, id) /\ alerts[id].status # status
      /\ clock < MaxClock /\ clock' = clock + 1
      /\ Prepare(o, alerts, e, "idle") /\ Goto(o, "delete")
      /\ alerts' = alerts /\ history' = history
  BY DEF UpdateStatus
<1>4. stamp \in Stamp /\ StatusAction(status) \in Actions
  BY <1>1 DEF Stamp, StatusAction, Statuses, Actions
<1>5. e \in Entry
  BY <1>2, <1>3, <1>4, StatusEntryType
<1>6. Commits(o, e)
  <2> HIDE DEF e
  <2> QED BY <1>1, <1>2, <1>3, <1>5, PrepareCommits
<1>7. Decides(o)
  BY <1>2, <1>3, <1>6 DEF Decides
<1>8. pc'[o] = "delete" /\ after'[o] = "idle"
  BY <1>1, <1>3 DEF Prepare, Goto, TypeOK
<1>9. Own(o)'
  BY <1>8 DEF Own, Tracking, Written, Knowing, Returning, Sweeping
<1> QED
  BY <1>7, <1>9

LEMMA ReadStep ==
  ASSUME SerialInv, TypeOK', NEW w \in Runners, ReadHistory(w)
  PROVE  Own(w)' /\ Stutters(w)
<1>1. w \in Procs /\ TypeOK /\ Own(w) /\ pc[w] = "history" /\ entries[w] = {}
  BY ProcsCover DEF ReadHistory, SerialInv, EntryPhases
<1>2. /\ UNCHANGED <<alerts, history, view, entries, after, clock>>
      /\ pc'[w] = "events" /\ known'[w] = Represented(history)
  BY <1>1 DEF ReadHistory, Goto, TypeOK
<1>3. Stutters(w)
  BY <1>2 DEF Stutters, ShownBy, JournalBy, Changed
<1>4. Changed(w)' = Changed(w) /\ JournalBy(w)' = history
  BY <1>1, <1>2 DEF Changed, JournalBy
<1>5. Own(w)'
  BY <1>1, <1>2, <1>4 DEF Own, Tracking, Written, Knowing, Returning, Sweeping
<1> QED
  BY <1>3, <1>5

LEMMA SkipStep ==
  ASSUME SerialInv, TypeOK', NEW w \in Runners, NEW x \in batch[w], SkipEvent(w, x)
  PROVE  Own(w)' /\ Stutters(w)
<1>1. w \in Procs /\ TypeOK /\ Own(w) /\ pc[w] = "events"
  BY ProcsCover DEF SkipEvent, SerialInv
<1>2. UNCHANGED <<alerts, history, view, entries, after, clock, pc, known>>
  BY DEF SkipEvent
<1>3. Stutters(w)
  BY <1>2 DEF Stutters, ShownBy, JournalBy, Changed
<1>4. Changed(w)' = Changed(w) /\ JournalBy(w)' = JournalBy(w)
  BY <1>2 DEF Changed, JournalBy
<1>5. after[w] # "resolve"
  BY <1>1 DEF Own, Returning
<1>6. Own(w)'
  BY <1>1, <1>2, <1>4, <1>5 DEF Own, Tracking, Written, Knowing, Returning, Sweeping
<1> QED
  BY <1>3, <1>6

LEMMA FoldStep ==
  ASSUME SerialInv, TypeOK', NEW w \in Runners, NEW x \in batch[w], FoldEvent(w, x)
  PROVE  Own(w)' /\ Observes(w)
<1>1. w \in Procs /\ TypeOK /\ Own(w) /\ pc[w] = "events" /\ view[w] \in Tables
  BY ProcsCover DEF FoldEvent, SerialInv, TypeOK
<1>2. x[1] \in Streams /\ x[2] \in Hours /\ x[3] \in Severities
  BY <1>1 DEF TypeOK, Events
<1>3. view[w] = ShownBy(w)
  BY <1>1 DEF Own, Tracking, ShownBy, Tables
<1>4. PICK e \in Observed(view[w], x[1], x[2], x[3]) :
        IF e.new = e.prev THEN UNCHANGED <<view, entries, after>>
                          ELSE Prepare(w, view[w], e, "sweep")
  BY DEF FoldEvent
<1>5. /\ e \in Entry /\ e.new # e.prev /\ AnomalyOf(e) = <<x[1], x[2]>>
      /\ Prepare(w, ShownBy(w), e, "sweep")
  BY <1>1, <1>2, <1>3, <1>4, ObservedEntry, ObservedChanges
<1>6. /\ UNCHANGED <<alerts, history, clock, pc>> /\ <<x[1], x[2]>> \notin known[w]
      /\ known'[w] = known[w] \cup {<<x[1], x[2]>>}
  BY <1>1 DEF FoldEvent, TypeOK
<1>7. /\ Commits(w, e) /\ Changed(w)' = Changed(w) \cup {e.alert}
      /\ view'[w] = ShownBy(w)' /\ after'[w] = "sweep"
  <2>1. after'[w] = "sweep"
    BY <1>1, <1>5 DEF Prepare, TypeOK
  <2> QED
    BY <1>1, <1>5, <1>6, <2>1, PrepareCommits
<1>8. Observes(w)
  <2>1. <<x[1], x[2]>> \notin Represented(JournalBy(w))
    BY <1>1, <1>6 DEF Own, Knowing
  <2>2. e \in Observed(ShownBy(w), x[1], x[2], x[3])
    BY <1>3
  <2>3. e.new # e.prev /\ Commits(w, e) /\ clock' = clock
    BY <1>5, <1>6, <1>7
  <2> QED
    BY <1>2, <2>1, <2>2, <2>3 DEF Observes
<1>9. Tracking(w)'
  <2>1. \A id \in AlertIds : id \notin Changed(w)' => ShownBy(w)'[id] = alerts'[id]
    BY DEF ShownBy
  <2> QED
    BY <1>7, <2>1 DEF Tracking
<1>10. Knowing(w)'
  <2>1. Represented(JournalBy(w)') \subseteq Represented(JournalBy(w)) \cup {<<x[1], x[2]>>}
    BY <1>5, <1>7 DEF Commits, Represented
  <2>2. Represented(JournalBy(w)) \subseteq known[w]
    BY <1>1 DEF Own, Knowing
  <2>3. Represented(JournalBy(w)') \subseteq known'[w]
    BY <1>6, <2>1, <2>2
  <2> QED
    BY <2>3 DEF Knowing, Represented, AnomalyOf
<1>11. Written(w)' /\ Returning(w)' /\ Sweeping(w)'
  BY <1>1, <1>6, <1>7 DEF Written, Returning, Sweeping
<1> QED
  BY <1>8, <1>9, <1>10, <1>11 DEF Own

LEMMA EndStep ==
  ASSUME SerialInv, TypeOK', NEW w \in Runners, EndBatch(w)
  PROVE  Own(w)' /\ Stutters(w)
<1>1. w \in Procs /\ TypeOK /\ Own(w) /\ pc[w] = "events"
  BY ProcsCover DEF EndBatch, SerialInv
<1>2. UNCHANGED <<alerts, history, entries, after, clock>>
  BY DEF EndBatch
<1>3. pc'[w] \in {"sweep", "delete"} /\ (view' = view \/ entries[w] = {})
  BY <1>1 DEF EndBatch, Goto, TypeOK
<1>4. Stutters(w)
  <2>1. CASE view' = view
    BY <1>2, <2>1 DEF Stutters, ShownBy, JournalBy, Changed
  <2>2. CASE entries[w] = {}
    BY <1>1, <1>2, <2>2, ShownType, ShownTypeNext DEF Stutters, JournalBy
  <2> QED
    BY <1>3, <2>1, <2>2
<1>5. after'[w] # "resolve"
  BY <1>1, <1>2 DEF Own, Returning
<1>6. Own(w)'
  BY <1>3, <1>5 DEF Own, Tracking, Written, Knowing, Returning, Sweeping
<1> QED
  BY <1>4, <1>6

(* Replacing the rows changes only rows that p accounts for from its view.   *)
LEMMA DeleteStep ==
  ASSUME SerialInv, TypeOK', NEW p \in Procs, DeleteRows(p)
  PROVE  Own(p)' /\ Stutters(p)
<1>1. TypeOK /\ Own(p) /\ pc[p] = "delete"
  BY DEF DeleteRows, SerialInv
<1>2. /\ UNCHANGED <<history, view, entries, after, end, todo, clock>>
      /\ pc'[p] = "insert"
      /\ \A id \in AlertIds : id \notin Changed(p) => alerts'[id] = alerts[id]
  BY <1>1 DEF DeleteRows, Goto, TypeOK
<1>3. Changed(p)' = Changed(p) /\ JournalBy(p)' = JournalBy(p)
  BY <1>2 DEF Changed, JournalBy
<1>4. ShownBy(p)' = ShownBy(p)
  BY <1>2, <1>3 DEF ShownBy
<1>5. Own(p)'
  BY <1>1, <1>2, <1>4 DEF Own, Tracking, Written, Knowing, Returning, Sweeping
<1> QED
  BY <1>2, <1>3, <1>4, <1>5 DEF Stutters

LEMMA InsertStep ==
  ASSUME SerialInv, TypeOK', NEW p \in Procs, InsertRows(p)
  PROVE  Own(p)' /\ Stutters(p)
<1>1. TypeOK /\ Own(p) /\ pc[p] = "insert"
  BY DEF InsertRows, SerialInv
<1>2. /\ UNCHANGED <<history, view, entries, after, end, todo, clock>>
      /\ pc'[p] = "append"
      /\ \A id \in AlertIds :
           alerts'[id] = IF id \in Changed(p) THEN view[p][id] ELSE alerts[id]
  BY <1>1 DEF InsertRows, Goto, TypeOK
<1>3. Changed(p)' = Changed(p) /\ JournalBy(p)' = JournalBy(p)
  BY <1>2 DEF Changed, JournalBy
<1>4. ShownBy(p)' = ShownBy(p)
  BY <1>2, <1>3 DEF ShownBy
<1>5. Written(p)'
  BY <1>1, <1>2, <1>3, ShownType DEF Written
<1>6. Own(p)'
  BY <1>1, <1>2, <1>4, <1>5 DEF Own, Tracking, Knowing, Returning, Sweeping
<1> QED
  BY <1>2, <1>3, <1>4, <1>6 DEF Stutters

LEMMA AppendStep ==
  ASSUME SerialInv, TypeOK', NEW p \in Procs, AppendHistory(p)
  PROVE  Own(p)' /\ Stutters(p)
<1>1. TypeOK /\ Own(p) /\ pc[p] = "append"
  BY DEF AppendHistory, SerialInv
<1>2. /\ UNCHANGED <<alerts, end, todo, clock>>
      /\ history' = history \cup entries[p] /\ entries'[p] = {}
      /\ pc'[p] = after[p] /\ after'[p] = "idle" /\ after[p] \in {"idle", "sweep", "resolve"}
  BY <1>1 DEF AppendHistory, Goto, Forget, TypeOK
<1>3. ShownBy(p) = alerts
  BY <1>1, ShownType DEF ShownBy, Tables, Own, Written
<1>4. ShownBy(p)' = alerts
  BY <1>2, ShownTypeNext
<1>5. JournalBy(p)' = JournalBy(p)
  BY <1>2 DEF JournalBy
<1>6. Own(p)'
  BY <1>1, <1>2, <1>3, <1>4 DEF Own, Tracking, Written, Knowing, Returning, Sweeping
<1> QED
  BY <1>2, <1>3, <1>4, <1>5, <1>6 DEF Stutters

LEMMA SweepStep ==
  ASSUME SerialInv, TypeOK', NEW w \in Runners, Sweep(w)
  PROVE  Own(w)' /\ Stutters(w)
<1>1. w \in Procs /\ TypeOK /\ Own(w) /\ pc[w] = "sweep" /\ entries[w] = {}
  BY ProcsCover DEF Sweep, SerialInv, EntryPhases
<1>2. /\ UNCHANGED <<alerts, history, view, entries, after, end, clock>>
      /\ pc'[w] = "resolve" /\ todo'[w] = Eligible(alerts, end[w])
  BY <1>1 DEF Sweep, Goto, TypeOK
<1>3. ShownBy(w) = alerts /\ ShownBy(w)' = alerts /\ JournalBy(w)' = JournalBy(w)
  BY <1>1, <1>2, ShownType, ShownTypeNext DEF JournalBy
<1>4. after[w] # "resolve"
  BY <1>1 DEF Own, Returning
<1>5. Own(w)'
  BY <1>2, <1>3, <1>4 DEF Own, Tracking, Written, Knowing, Returning, Sweeping
<1> QED
  BY <1>2, <1>3, <1>5 DEF Stutters

(* Resolving an alert takes it, and no other, off what is eligible.          *)
LEMMA ResolvedNotEligible ==
  ASSUME NEW table \in Tables, NEW id \in AlertIds, Exists(table, id), NEW h \in Hours,
         NEW stamp \in Stamp
  PROVE  Eligible([table EXCEPT ![id] = WithStatus(table[id], "resolved", stamp)], h)
           = Eligible(table, h) \ {id}
<1> DEFINE rows == [table EXCEPT ![id] = WithStatus(table[id], "resolved", stamp)]
<1>1. rows[id] = WithStatus(table[id], "resolved", stamp)
      /\ \A other \in AlertIds : other # id => rows[other] = table[other]
  BY DEF Tables
<1>2. table[id] \in Alert
  BY DEF Exists, Tables
<1>3. WithStatus(table[id], "resolved", stamp).status = "resolved"
  BY <1>2, WithStatusType DEF Statuses
<1>4. ~Active(rows[id])
  BY <1>1, <1>3 DEF Active, ActiveStatuses
<1> HIDE DEF rows
<1>5. Eligible(rows, h) = Eligible(table, h) \ {id}
  BY <1>1, <1>4 DEF Eligible, Exists, Active
<1> QED
  BY <1>5 DEF rows

LEMMA ResolveStep ==
  ASSUME SerialInv, TypeOK', NEW w \in Runners, NEW id \in todo[w], ResolveNext(w, id)
  PROVE  Own(w)' /\ Expires(w)
<1> DEFINE stamp == <<"hour", end[w]>>
<1> DEFINE e == StatusEntry(alerts, id, "resolved", stamp, "auto_resolved")
<1>1. /\ w \in Procs /\ TypeOK /\ Own(w) /\ pc[w] = "resolve" /\ entries[w] = {}
      /\ end[w] \in Hours /\ end[w] \in Nat /\ id \in AlertIds
  BY ProcsCover, HoursAreNat DEF ResolveNext, SerialInv, EntryPhases, TypeOK
<1>2. ShownBy(w) = alerts /\ alerts \in Tables
  BY <1>1, ShownType
<1>3. todo[w] = Eligible(alerts, end[w])
  BY <1>1, <1>2 DEF Own, Sweeping
<1>4. Exists(alerts, id) /\ Active(alerts[id])
  BY <1>3 DEF Eligible
<1>5. alerts[id].status # "resolved"
  BY <1>4 DEF Active, ActiveStatuses
<1>6. /\ Prepare(w, alerts, e, "resolve") /\ pc'[w] = "delete"
      /\ todo'[w] = todo[w] \ {id}
      /\ UNCHANGED <<alerts, history, end, clock>>
  BY <1>1, <1>5 DEF ResolveNext, Goto, TypeOK
<1>7. stamp \in Stamp /\ "auto_resolved" \in Actions /\ "resolved" \in Statuses
  BY <1>1 DEF Stamp, Actions, Statuses
<1>8. /\ e \in Entry /\ e.alert = id
      /\ e.new = WithStatus(alerts[id], "resolved", stamp)
  BY <1>1, <1>2, <1>4, <1>7, StatusEntryType
<1>9. Commits(w, e) /\ after'[w] = "resolve"
  <2> HIDE DEF e
  <2>1. after'[w] = "resolve"
    BY <1>1, <1>6 DEF Prepare, TypeOK
  <2> QED
    BY <1>1, <1>2, <1>6, <1>8, <2>1, PrepareCommits
<1>10. Expires(w)
  BY <1>1, <1>2, <1>3, <1>6, <1>9 DEF Expires
<1>11. ShownBy(w)' = [alerts EXCEPT ![id] = WithStatus(alerts[id], "resolved", stamp)]
  <2> HIDE DEF e, stamp
  <2> QED BY <1>2, <1>8, <1>9 DEF Commits
<1>12. Eligible(ShownBy(w)', end[w]) = todo'[w]
  <2> HIDE DEF e, stamp
  <2>1. Eligible([alerts EXCEPT ![id] = WithStatus(alerts[id], "resolved", stamp)], end[w])
          = Eligible(alerts, end[w]) \ {id}
    BY <1>1, <1>2, <1>4, <1>7, ResolvedNotEligible
  <2> QED BY <1>3, <1>6, <1>11, <2>1
<1>13. Sweeping(w)'
  <2>1. Eligible(ShownBy(w), end[w])' = Eligible(ShownBy(w)', end'[w])
    BY DEF Eligible, Exists, Active
  <2> QED
    BY <1>6, <1>12, <2>1 DEF Sweeping
<1>14. Own(w)'
  BY <1>6, <1>9, <1>13 DEF Own, Tracking, Written, Knowing, Returning
<1> QED
  BY <1>10, <1>14

LEMMA DropStep ==
  ASSUME SerialInv, TypeOK', NEW p \in Procs, Drop(p)
  PROVE  Own(p)' /\ (entries[p] = {} => Stutters(p))
<1>1. TypeOK
  BY DEF SerialInv
<1>2. /\ UNCHANGED <<alerts, history, clock>>
      /\ pc'[p] = "idle" /\ after'[p] = "idle" /\ entries'[p] = {}
  BY <1>1 DEF Drop, Forget, Goto, TypeOK
<1>3. Own(p)'
  BY <1>2 DEF Own, Tracking, Written, Knowing, Returning, Sweeping
<1>4. ASSUME entries[p] = {} PROVE Stutters(p)
  BY <1>1, <1>2, <1>4, ShownType, ShownTypeNext DEF Stutters, JournalBy
<1> QED
  BY <1>3, <1>4

LEMMA FinishStep ==
  ASSUME SerialInv, TypeOK', NEW w \in Runners, FinishRun(w)
  PROVE  /\ Own(w)' /\ Stutters(w)
         /\ Eligible(alerts, end[w]) = {}
<1>1. w \in Procs /\ TypeOK /\ Own(w) /\ pc[w] = "resolve" /\ todo[w] = {} /\ entries[w] = {}
  BY ProcsCover DEF FinishRun, SerialInv, EntryPhases
<1>2. UNCHANGED <<alerts, history, view, entries, after, clock>> /\ pc'[w] = "idle"
  BY <1>1 DEF FinishRun, Goto, TypeOK
<1>3. ShownBy(w) = alerts
  BY <1>1, ShownType
<1>4. Stutters(w)
  BY <1>2 DEF Stutters, ShownBy, JournalBy, Changed
<1>5. after[w] # "resolve"
  BY <1>1 DEF Own, Returning
<1>6. Own(w)'
  BY <1>2, <1>5 DEF Own, Tracking, Written, Knowing, Returning, Sweeping
<1>7. Eligible(alerts, end[w]) = {}
  BY <1>1, <1>3 DEF Own, Sweeping
<1> QED
  BY <1>4, <1>6, <1>7

-----------------------------------------------------------------------------
(* Every step but an abort implements the ledger and keeps the invariant.    *)
LEMMA ContinueStep ==
  ASSUME SerialInv, TypeOK', NEW p \in Procs, Continue(p)
  PROVE  Own(p)' /\ Implements(p)
<1> USE DEF Implements
<1>1. CASE DeleteRows(p) \/ InsertRows(p) \/ AppendHistory(p)
  BY <1>1, DeleteStep, InsertStep, AppendStep
<1>2. CASE p \in Runners /\ (ReadHistory(p) \/ EndBatch(p) \/ Sweep(p) \/ FinishRun(p))
  BY <1>2, ReadStep, EndStep, SweepStep, FinishStep
<1>3. CASE p \in Runners /\ \E x \in batch[p] : SkipEvent(p, x) \/ FoldEvent(p, x)
  BY <1>3, SkipStep, FoldStep
<1>4. CASE p \in Runners /\ \E id \in todo[p] : ResolveNext(p, id) \/ ResolveGone(p, id)
  <2>1. ASSUME NEW id \in todo[p], ResolveGone(p, id) PROVE Own(p)' /\ Stutters(p)
    <3>1. Drop(p) /\ entries[p] = {}
      BY <2>1 DEF ResolveGone, SerialInv, EntryPhases
    <3> QED
      BY <3>1, DropStep
  <2> QED
    BY <1>4, <2>1, ResolveStep
<1> QED
  BY <1>1, <1>2, <1>3, <1>4 DEF Continue

(* Whose step it is, and that nobody else moves.                             *)
Moves(p) == \/ \E h \in Hours : \E b \in Batches(h) : p \in Runners /\ StartRun(p, h, b)
            \/ \E id \in AlertIds, status \in Statuses :
                 p \in Operators /\ UpdateStatus(p, id, status)
            \/ Continue(p)
            \/ Abort(p)

LEMMA NextMoves == Next => \E p \in Procs : Moves(p)
BY ProcsCover DEF Next, Moves

LEMMA MovesAlone ==
  ASSUME TypeOK, NEW p \in Procs, Moves(p)
  PROVE  /\ pc[p] # "idle" \/ MayStart(p)
         /\ \A q \in Procs \ {p} : pc'[q] = pc[q] /\ after'[q] = after[q]
<1>1. CASE \E h \in Hours : \E b \in Batches(h) : p \in Runners /\ StartRun(p, h, b)
  BY <1>1 DEF StartRun, Goto, TypeOK
<1>2. CASE \E id \in AlertIds, status \in Statuses :
             p \in Operators /\ UpdateStatus(p, id, status)
  BY <1>2 DEF UpdateStatus, Prepare, Goto, TypeOK
<1>3. CASE Abort(p)
  BY <1>3 DEF Abort, Drop, Goto, TypeOK
<1>4. CASE DeleteRows(p) \/ InsertRows(p) \/ AppendHistory(p)
  BY <1>4 DEF DeleteRows, InsertRows, AppendHistory, Goto, TypeOK
<1>5. CASE ReadHistory(p) \/ EndBatch(p) \/ Sweep(p) \/ FinishRun(p)
  BY <1>5 DEF ReadHistory, EndBatch, Sweep, FinishRun, Goto, TypeOK
<1>6. CASE \E x \in batch[p] : SkipEvent(p, x) \/ FoldEvent(p, x)
  BY <1>6 DEF SkipEvent, FoldEvent, Prepare, TypeOK
<1>7. CASE \E id \in todo[p] : ResolveNext(p, id) \/ ResolveGone(p, id)
  BY <1>7 DEF ResolveNext, ResolveGone, Drop, Prepare, Goto, TypeOK
<1> QED
  BY <1>1, <1>2, <1>3, <1>4, <1>5, <1>6, <1>7 DEF Moves, Continue

LEMMA MoveStep ==
  ASSUME SerialInv, TypeOK', NEW p \in Procs, Moves(p)
  PROVE  Own(p)' /\ (Implements(p) \/ aborts < MaxAborts)
<1>1. CASE \E h \in Hours : \E b \in Batches(h) : p \in Runners /\ StartRun(p, h, b)
  BY <1>1, StartStep DEF Implements
<1>2. CASE \E id \in AlertIds, status \in Statuses :
             p \in Operators /\ UpdateStatus(p, id, status)
  BY <1>2, UpdateStep DEF Implements
<1>3. CASE Continue(p)
  BY <1>3, ContinueStep
<1>4. CASE Abort(p)
  BY <1>4, DropStep DEF Abort
<1> QED
  BY <1>1, <1>2, <1>3, <1>4 DEF Moves

LEMMA SerialInductive ==
  ASSUME Serial = TRUE, SerialInv, TypeOK', EntryPhases', [Next]_vars
  PROVE  SerialInv'
<1>1. CASE Next
  <2>1. PICK p \in Procs : Moves(p)
    BY <1>1, NextMoves
  <2>2. /\ pc[p] # "idle" \/ MayStart(p)
        /\ \A q \in Procs \ {p} : pc'[q] = pc[q] /\ after'[q] = after[q]
    BY <2>1, MovesAlone DEF SerialInv
  <2>3. Sole(p)
    BY <2>2, StepIsSole
  <2>4. Own(p)'
    BY <2>1, MoveStep
  <2> QED
    BY <2>2, <2>3, <2>4, SerialStep
<1>2. CASE UNCHANGED vars
  <2>1. UNCHANGED <<alerts, history, pc, view, entries, after, known, end, todo>>
    BY <1>2 DEF vars
  <2>2. OneAtATime'
    BY <2>1 DEF SerialInv, OneAtATime
  <2>3. ASSUME NEW p \in Procs PROVE Own(p)'
    <3>1. Own(p)
      BY DEF SerialInv
    <3>2. Changed(p)' = Changed(p) /\ JournalBy(p)' = JournalBy(p)
      BY <2>1 DEF Changed, JournalBy
    <3>3. ShownBy(p)' = ShownBy(p)
      BY <2>1, <3>2 DEF ShownBy
    <3> QED
      BY <2>1, <3>1, <3>2, <3>3 DEF Own, Tracking, Written, Knowing, Returning, Sweeping
  <2> QED
    BY <2>2, <2>3 DEF SerialInv
<1> QED
  BY <1>1, <1>2

LEMMA SerialInvariant ==
  ASSUME Serial = TRUE
  PROVE  Spec => []SerialInv
<1>1. Init => EntryPhases /\ OneAtATime /\ \A p \in Procs : Own(p)
  BY DEF Init, EntryPhases, OneAtATime, Own, Tracking, Written, Knowing, Returning, Sweeping
<1>2. SerialInv /\ TypeOK' /\ [Next]_vars => SerialInv'
  <2>1. SerialInv /\ [Next]_vars => EntryPhases'
    BY PhasesInductive DEF SerialInv
  <2> QED
    BY <2>1, SerialInductive
<1>3. TypeOK /\ EntryPhases /\ OneAtATime /\ (\A p \in Procs : Own(p)) => SerialInv
  BY DEF SerialInv
<1> QED
  BY <1>1, <1>2, <1>3, TypeCorrect, PTL DEF Spec

(* With operations run one at a time, a detection run that completes leaves  *)
(* no active alert unseen for the auto-resolve window before its end, even   *)
(* if earlier operations were cut short (auto_resolve, lifecycle.py:152-167).*)
THEOREM SweepComplete ==
  ASSUME Serial = TRUE
  PROVE  Spec => SweepLeavesNoStaleAlert
<1>1. SerialInv /\ TypeOK' /\ [Next]_vars
        => [\A w \in Runners : FinishRun(w) => Eligible(alerts, end[w]) = {}]_vars
  BY FinishStep
<1> QED
  BY <1>1, SerialInvariant, TypeCorrect, PTL DEF Spec, SweepLeavesNoStaleAlert

-----------------------------------------------------------------------------
(* The contracts of the ledger, seen through the refinement, are those of    *)
(* this module.                                                              *)
LEMMA SameContracts ==
  /\ Ledger!AlertIds = AlertIds /\ Ledger!Hours = Hours /\ Ledger!Statuses = Statuses
  /\ \A J : Ledger!Represented(J) = Represented(J)
  /\ \A table, id : Ledger!Exists(table, id) <=> Exists(table, id)
  /\ \A status : Ledger!StatusAction(status) = StatusAction(status)
BY DEF Ledger!AlertIds, AlertIds, Ledger!Hours, Hours, Ledger!Statuses, Statuses,
   Ledger!Represented, Represented, Ledger!AnomalyOf, AnomalyOf, Ledger!Exists, Exists,
   Ledger!StatusAction, StatusAction

LEMMA SameObserved ==
  ASSUME NEW table, NEW s, NEW h, NEW sev
  PROVE  Ledger!Observed(table, s, h, sev) = Observed(table, s, h, sev)
BY DEF Ledger!Observed, Observed, Ledger!DedupMatch, DedupMatch,
   Ledger!Candidates, Candidates, Ledger!Exists, Exists, Ledger!Active, Active,
   Ledger!ActiveStatuses, ActiveStatuses, Ledger!Opened, Opened, Ledger!Never, Never,
   Ledger!WithOccurrence, WithOccurrence, Ledger!AlertIds, AlertIds, Ledger!Hours, Hours

LEMMA SameEligible ==
  ASSUME NEW table, NEW h
  PROVE  Ledger!Eligible(table, h) = Eligible(table, h)
BY DEF Ledger!Eligible, Eligible, Ledger!Exists, Exists, Ledger!Active, Active,
   Ledger!ActiveStatuses, ActiveStatuses, Ledger!AlertIds, AlertIds, Ledger!Hours, Hours

LEMMA SameStatusEntry ==
  ASSUME NEW table, NEW id, NEW status, NEW stamp, NEW action
  PROVE  Ledger!StatusEntry(table, id, status, stamp, action)
           = StatusEntry(table, id, status, stamp, action)
BY DEF Ledger!StatusEntry, StatusEntry, Ledger!WithStatus, WithStatus, Ledger!Never, Never

(* When p alone is under way, the ledger of the refinement is the one p      *)
(* accounts for, before its step and after it.                               *)
LEMMA ShownIsShownBy ==
  ASSUME NEW p \in Procs, \A q \in Procs \ {p} : entries[q] = {}
  PROVE  Shown = ShownBy(p) /\ history \cup Pending = JournalBy(p)
<1>1. \A id \in AlertIds, q \in Procs : id \in Changed(q) => q = p
  BY DEF Changed
<1>2. ASSUME NEW id \in AlertIds
      PROVE  Shown[id] = ShownBy(p)[id]
  <2>1. CASE id \in Changed(p)
    <3>1. (CHOOSE q \in Procs : id \in Changed(q)) = p
      BY <1>1, <2>1
    <3> QED
      BY <2>1, <3>1 DEF Shown, ShownBy
  <2>2. CASE id \notin Changed(p)
    BY <1>1, <2>2 DEF Shown, ShownBy
  <2> QED
    BY <2>1, <2>2
<1>3. Shown = ShownBy(p)
  BY <1>2 DEF Shown, ShownBy
<1>4. history \cup Pending = JournalBy(p)
  BY DEF Pending, JournalBy
<1> QED
  BY <1>3, <1>4

LEMMA ShownIsShownByNext ==
  ASSUME NEW p \in Procs, \A q \in Procs \ {p} : entries'[q] = {}
  PROVE  Shown' = ShownBy(p)' /\ (history \cup Pending)' = JournalBy(p)'
<1>1. \A id \in AlertIds, q \in Procs : id \in Changed(q)' => q = p
  BY DEF Changed
<1>2. ASSUME NEW id \in AlertIds
      PROVE  Shown'[id] = ShownBy(p)'[id]
  <2>1. CASE id \in Changed(p)'
    <3>1. (CHOOSE q \in Procs : id \in Changed(q)') = p
      BY <1>1, <2>1
    <3> QED
      BY <2>1, <3>1 DEF Shown, ShownBy
  <2>2. CASE id \notin Changed(p)'
    BY <1>1, <2>2 DEF Shown, ShownBy
  <2> QED
    BY <2>1, <2>2
<1>3. Shown' = ShownBy(p)'
  BY <1>2 DEF Shown, ShownBy
<1>4. (history \cup Pending)' = JournalBy(p)'
  BY DEF Pending, JournalBy
<1> QED
  BY <1>3, <1>4

LEMMA ImplementsLedger ==
  ASSUME NEW p \in Procs, Implements(p),
         Shown = ShownBy(p), history \cup Pending = JournalBy(p),
         Shown' = ShownBy(p)', (history \cup Pending)' = JournalBy(p)'
  PROVE  [Ledger!Next]_(Ledger!ledgerVars)
<1>1. \A e : Commits(p, e) => Ledger!Commit(e)
  BY DEF Commits, Ledger!Commit
<1>2. CASE Stutters(p)
  BY <1>2 DEF Stutters, Ledger!ledgerVars
<1>3. CASE Observes(p)
  <2>1. PICK s \in Streams, h \in Hours, sev \in Severities :
          /\ <<s, h>> \notin Represented(JournalBy(p))
          /\ \E e \in Observed(ShownBy(p), s, h, sev) : e.new # e.prev /\ Commits(p, e)
          /\ clock' = clock
    BY <1>3 DEF Observes
  <2>2. Ledger!Observe(s, h, sev)
    BY <1>1, <2>1, SameContracts, SameObserved DEF Ledger!Observe
  <2> QED
    BY <2>2, SameContracts DEF Ledger!Next
<1>4. CASE Decides(p)
  <2>1. PICK id \in AlertIds, status \in Statuses :
          /\ clock < MaxClock
          /\ Exists(ShownBy(p), id) /\ ShownBy(p)[id].status # status
          /\ clock' = clock + 1
          /\ Commits(p, StatusEntry(ShownBy(p), id, status, <<"wall", clock + 1>>,
                                    StatusAction(status)))
    BY <1>4 DEF Decides
  <2>2. Ledger!Decide(id, status)
    BY <1>1, <2>1, SameContracts, SameStatusEntry DEF Ledger!Decide
  <2> QED
    BY <2>2, SameContracts DEF Ledger!Next
<1>5. CASE Expires(p)
  <2>1. PICK id \in AlertIds, h \in Hours :
          /\ id \in Eligible(ShownBy(p), h)
          /\ Commits(p, StatusEntry(ShownBy(p), id, "resolved", <<"hour", h>>,
                                    "auto_resolved"))
          /\ clock' = clock
    BY <1>5 DEF Expires
  <2>2. Ledger!Expire(id, h)
    BY <1>1, <2>1, SameEligible, SameStatusEntry DEF Ledger!Expire
  <2> QED
    BY <2>2, SameContracts DEF Ledger!Next
<1> QED
  BY <1>2, <1>3, <1>4, <1>5 DEF Implements

(* Run one at a time and not cut short, the operations of AlertManager, each *)
(* a sequence of separately committed DuckDB connections (lifecycle.py:49-   *)
(* 167, storage.py:40-104), implement the atomic ledger.                     *)
THEOREM LedgerImplemented ==
  ASSUME Serial = TRUE, MaxAborts = 0
  PROVE  Spec => LedgerSpec
<1>1. Init => Ledger!Init
  <2> SUFFICES ASSUME Init PROVE Ledger!Init
    OBVIOUS
  <2>1. /\ alerts = Blank /\ history = {} /\ clock = 0
        /\ \A p \in Procs : entries[p] = {}
    BY DEF Init
  <2>2. Pending = {} /\ \A p \in Procs : Changed(p) = {}
    BY <2>1 DEF Pending, Changed
  <2>3. Shown = Blank
    BY <2>1, <2>2 DEF Shown, Blank
  <2> QED
    BY <2>1, <2>2, <2>3, SameContracts DEF Ledger!Init, Blank
<1>2. SerialInv /\ SerialInv' /\ [Next]_vars => [Ledger!Next]_(Ledger!ledgerVars)
  <2> SUFFICES ASSUME SerialInv, SerialInv', [Next]_vars
               PROVE  [Ledger!Next]_(Ledger!ledgerVars)
    OBVIOUS
  <2>1. CASE UNCHANGED vars
    <3>1. UNCHANGED <<alerts, history, view, entries, clock>>
      BY <2>1 DEF vars
    <3>2. Shown' = Shown /\ Pending' = Pending
      BY <3>1 DEF Shown, Pending, Changed
    <3> QED
      BY <3>1, <3>2 DEF Ledger!ledgerVars
  <2>2. CASE Next
    <3>1. PICK p \in Procs : Moves(p)
      BY <2>2, NextMoves
    <3>2. TypeOK /\ TypeOK' /\ EntryPhases' /\ aborts = 0
      BY BoundsAssumption DEF SerialInv, TypeOK
    <3>3. Implements(p)
      BY <3>1, <3>2, MoveStep
    <3>4. /\ pc[p] # "idle" \/ MayStart(p)
          /\ \A q \in Procs \ {p} : pc'[q] = pc[q]
      BY <3>1, <3>2, MovesAlone
    <3>5. Sole(p) /\ \A q \in Procs \ {p} : entries[q] = {}
      BY <3>4, StepIsSole
    <3>6. \A q \in Procs \ {p} : entries'[q] = {}
      BY <3>2, <3>4, <3>5 DEF Sole, EntryPhases
    <3> QED
      BY <3>3, <3>5, <3>6, ShownIsShownBy, ShownIsShownByNext, ImplementsLedger
  <2> QED
    BY <2>1, <2>2
<1> QED
  BY <1>1, <1>2, SerialInvariant, PTL DEF Spec, LedgerSpec, Ledger!Spec
=============================================================================
