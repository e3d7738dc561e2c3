--------------------------- MODULE AlertLifecycle ---------------------------
(***************************************************************************)
(* AlertManager over AlertStorage: every lifecycle operation as the         *)
(* sequence of DuckDB connections it opens.  Detection runs (process, then  *)
(* auto_resolve) and operators (update_status, from the API or the CLI) are *)
(* separate processes on one database file.                                 *)
(*                                                                         *)
(* A connection holds the file until it closes, so what happens inside one  *)
(* connection is not seen by another process.  The DELETE and the INSERT of *)
(* AlertStorage._replace share a connection but not a transaction: each is  *)
(* committed by itself, and a crash can fall between them.  Nothing is held *)
(* from one connection to the next.                                         *)
(***************************************************************************)
EXTENDS AlertContracts, FiniteSets

CONSTANTS
  Runners,    \* processes that execute run_anomaly_detection
  Operators,  \* processes that call update_status
  Serial,     \* TRUE: an operation starts only when no other is under way
  MaxRuns,    \* bound: detection runs per behaviour
  MaxBatch,   \* bound: anomalies per detection run
  MaxClock,   \* bound: manual status changes per behaviour
  MaxAborts   \* bound: operations cut short by a crash or a storage error

Procs == Runners \cup Operators

ASSUME ProcsAssumption  == /\ Runners \cap Operators = {}
                           /\ Serial \in BOOLEAN
ASSUME BoundsAssumption == /\ MaxRuns \in Nat
                           /\ MaxBatch \in Nat
                           /\ MaxClock \in Nat
                           /\ MaxAborts \in Nat

VARIABLES
  alerts,   \* table grid_alerts
  history,  \* table alert_history
  pc,       \* the next storage call (or loop) of each process
  view,     \* the alerts a process holds in memory, with its own changes
  entries,  \* the history rows it is about to append; they name the changed alerts
  after,    \* where it goes on once they are appended
  batch,    \* process(): anomalies <<stream, hour, severity>> not handled yet
  known,    \* process(): represented_anomalies
  end,      \* last hour of the detection window, auto_resolve's "now"
  todo,     \* auto_resolve(): eligible alerts not handled yet
  runs, clock, aborts   \* how much of each bound is used

stored == <<alerts, history>>
local  == <<view, entries, after, batch, known, end, todo>>
used   == <<runs, clock, aborts>>
vars   == <<alerts, history, pc, view, entries, after, batch, known, end, todo,
            runs, clock, aborts>>

Blank == [id \in AlertIds |-> NoAlert]

Steps == {"idle", "history", "events", "delete", "insert", "append",
          "sweep", "resolve"}

Events == Streams \X Hours \X Severities

TypeOK ==
  /\ alerts \in Tables
  /\ history \subseteq Entry
  /\ pc \in [Procs -> Steps]
  /\ view \in [Procs -> Tables]
  /\ entries \in [Procs -> SUBSET Entry]
  /\ after \in [Procs -> {"idle", "sweep", "resolve"}]
  /\ batch \in [Procs -> SUBSET Events]
  /\ known \in [Procs -> SUBSET AnomalyIds]
  /\ end \in [Procs -> Hours]
  /\ todo \in [Procs -> SUBSET AlertIds]
  /\ runs \in 0 .. MaxRuns /\ clock \in 0 .. MaxClock /\ aborts \in 0 .. MaxAborts

Init ==
  /\ alerts = Blank /\ history = {}
  /\ pc = [p \in Procs |-> "idle"]
  /\ view = [p \in Procs |-> Blank]
  /\ entries = [p \in Procs |-> {}]
  /\ after = [p \in Procs |-> "idle"]
  /\ batch = [p \in Procs |-> {}]
  /\ known = [p \in Procs |-> {}]
  /\ end = [p \in Procs |-> 0]
  /\ todo = [p \in Procs |-> {}]
  /\ runs = 0 /\ clock = 0 /\ aborts = 0

-----------------------------------------------------------------------------
(* No other process has the database file open: only _replace spans two      *)
(* steps here.                                                               *)
FileFree(p) == \A q \in Procs \ {p} : pc[q] # "insert"

MayStart(p) == /\ pc[p] = "idle"
               /\ FileFree(p)
               /\ Serial => \A q \in Procs : pc[q] = "idle"

Goto(p, step) == pc' = [pc EXCEPT ![p] = step]

(* Faulty forms, named Slip..., stand before the definitions they would      *)
(* replace; each is a plausible slip in the code and breaks some property.   *)
SlipChanged(p) == {id \in AlertIds : Exists(view[p], id)}

(* The alerts an upsert replaces: process() hands over those in changed.     *)
Changed(p) == {e.alert : e \in entries[p]}

SlipKeepLastEntry(p, table, e, then) ==
  /\ view' = [view EXCEPT ![p] = [table EXCEPT ![e.alert] = e.new]]
  /\ entries' = [entries EXCEPT ![p] = {e}]
  /\ after' = [after EXCEPT ![p] = then]

(* The row e.new and the history row e are ready to be written.              *)
Prepare(p, table, e, then) ==
  /\ view' = [view EXCEPT ![p] = [table EXCEPT ![e.alert] = e.new]]
  /\ entries' = [entries EXCEPT ![p] = @ \cup {e}]
  /\ after' = [after EXCEPT ![p] = then]

Forget(p) == /\ view' = [view EXCEPT ![p] = Blank]
             /\ entries' = [entries EXCEPT ![p] = {}]

-----------------------------------------------------------------------------
(* One detection run on a window that ends at hour h.  The ensemble hands    *)
(* over at most one event per stream and hour; with none, process() is not   *)
(* called.  process() begins by reading the alerts.                          *)
Batches(h) == {b \in SUBSET (Streams \X (0 .. h) \X Severities) :
                 /\ Cardinality(b) <= MaxBatch
                 /\ \A x, y \in b : x[1] = y[1] /\ x[2] = y[2] => x = y}

StartRun(w, h, b) ==
  /\ MayStart(w) /\ runs < MaxRuns
  /\ runs' = runs + 1
  /\ end' = [end EXCEPT ![w] = h]
  /\ batch' = [batch EXCEPT ![w] = b]
  /\ IF b = {} THEN Goto(w, "sweep") /\ UNCHANGED view
               ELSE Goto(w, "history") /\ view' = [view EXCEPT ![w] = alerts]
  /\ UNCHANGED <<stored, entries, after, known, todo, clock, aborts>>

SlipForgetHistory(w) ==
  /\ pc[w] = "history" /\ FileFree(w)
  /\ known' = [known EXCEPT ![w] = {}]
  /\ Goto(w, "events")
  /\ UNCHANGED <<stored, view, entries, after, batch, end, todo, used>>

ReadHistory(w) ==
  /\ pc[w] = "history" /\ FileFree(w)
  /\ known' = [known EXCEPT ![w] = Represented(history)]
  /\ Goto(w, "events")
  /\ UNCHANGED <<stored, view, entries, after, batch, end, todo, used>>

(* The loop body of process(), for the earliest event left.                  *)
Earliest(w) == {x \in batch[w] : \A y \in batch[w] : x[2] <= y[2]}

SlipSkipLate(w, x) ==
  /\ pc[w] = "events" /\ x \in Earliest(w)
  /\ \/ <<x[1], x[2]>> \in known[w]
     \/ \E id \in AlertIds : Exists(view[w], id) /\ view[w][id].last > x[2]
  /\ batch' = [batch EXCEPT ![w] = @ \ {x}]
  /\ UNCHANGED <<stored, pc, view, entries, after, known, end, todo, used>>

SkipEvent(w, x) ==
  /\ pc[w] = "events" /\ x \in Earliest(w)
  /\ <<x[1], x[2]>> \in known[w]
  /\ batch' = [batch EXCEPT ![w] = @ \ {x}]
  /\ UNCHANGED <<stored, pc, view, entries, after, known, end, todo, used>>

FoldEvent(w, x) ==
  /\ pc[w] = "events" /\ x \in Earliest(w)
  /\ <<x[1], x[2]>> \notin known[w]
  /\ batch' = [batch EXCEPT ![w] = @ \ {x}]
  /\ known' = [known EXCEPT ![w] = @ \cup {<<x[1], x[2]>>}]
  /\ \E e \in Observed(view[w], x[1], x[2], x[3]) :
       IF e.new = e.prev THEN UNCHANGED <<view, entries, after>>
                         ELSE Prepare(w, view[w], e, "sweep")
  /\ UNCHANGED <<stored, pc, end, todo, used>>

EndBatch(w) ==
  /\ pc[w] = "events" /\ batch[w] = {}
  /\ IF entries[w] = {}
     THEN Goto(w, "sweep") /\ view' = [view EXCEPT ![w] = Blank]
     ELSE Goto(w, "delete") /\ UNCHANGED view
  /\ UNCHANGED <<stored, entries, after, batch, known, end, todo, used>>

-----------------------------------------------------------------------------
(* AlertStorage.upsert_alerts and append_history, for whoever called them.   *)
DeleteRows(p) ==
  /\ pc[p] = "delete" /\ FileFree(p)
  /\ alerts' = [id \in AlertIds |-> IF id \in Changed(p) THEN NoAlert ELSE alerts[id]]
  /\ Goto(p, "insert")
  /\ UNCHANGED <<history, local, used>>

InsertRows(p) ==
  /\ pc[p] = "insert"
  /\ alerts' = [id \in AlertIds |-> IF id \in Changed(p) THEN view[p][id] ELSE alerts[id]]
  /\ Goto(p, "append")
  /\ UNCHANGED <<history, local, used>>

SlipAppendFinalState(p) ==
  /\ pc[p] = "append" /\ FileFree(p)
  /\ history' = history \cup {e \in entries[p] : e.new = view[p][e.alert]}
  /\ Goto(p, after[p])
  /\ Forget(p)
  /\ after' = [after EXCEPT ![p] = "idle"]
  /\ UNCHANGED <<alerts, batch, known, end, todo, used>>

AppendHistory(p) ==
  /\ pc[p] = "append" /\ FileFree(p)
  /\ history' = history \cup entries[p]
  /\ Goto(p, after[p])
  /\ Forget(p)
  /\ after' = [after EXCEPT ![p] = "idle"]
  /\ UNCHANGED <<alerts, batch, known, end, todo, used>>

-----------------------------------------------------------------------------
SlipSweepOpenOnly(w) ==
  /\ pc[w] = "sweep" /\ FileFree(w)
  /\ todo' = [todo EXCEPT ![w] =
               {id \in Eligible(alerts, end[w]) : alerts[id].status = "open"}]
  /\ known' = [known EXCEPT ![w] = {}]
  /\ Goto(w, "resolve")
  /\ UNCHANGED <<stored, view, entries, after, batch, end, used>>

(* auto_resolve reads the eligible ids once, then re-reads each alert before *)
(* it calls update_status, which does not ask again whether it is eligible.  *)
Sweep(w) ==
  /\ pc[w] = "sweep" /\ FileFree(w)
  /\ todo' = [todo EXCEPT ![w] = Eligible(alerts, end[w])]
  /\ known' = [known EXCEPT ![w] = {}]
  /\ Goto(w, "resolve")
  /\ UNCHANGED <<stored, view, entries, after, batch, end, used>>

SlipResolveAsManual(w, id) ==
  /\ pc[w] = "resolve" /\ FileFree(w)
  /\ id \in todo[w] /\ Exists(alerts, id)
  /\ todo' = [todo EXCEPT ![w] = @ \ {id}]
  /\ Prepare(w, alerts, StatusEntry(alerts, id, "resolved", <<"hour", end[w]>>,
                                    "resolved"), "resolve")
  /\ Goto(w, "delete")
  /\ UNCHANGED <<stored, batch, known, end, used>>

ResolveNext(w, id) ==
  /\ pc[w] = "resolve" /\ FileFree(w)
  /\ id \in todo[w] /\ Exists(alerts, id)
  /\ todo' = [todo EXCEPT ![w] = @ \ {id}]
  /\ IF alerts[id].status = "resolved"
     THEN UNCHANGED <<pc, view, entries, after>>
     ELSE /\ Prepare(w, alerts, StatusEntry(alerts, id, "resolved", <<"hour", end[w]>>,
                                            "auto_resolved"), "resolve")
          /\ Goto(w, "delete")
  /\ UNCHANGED <<stored, batch, known, end, used>>

FinishRun(w) ==
  /\ pc[w] = "resolve" /\ todo[w] = {}
  /\ Goto(w, "idle")
  /\ end' = [end EXCEPT ![w] = 0]
  /\ UNCHANGED <<stored, view, entries, after, batch, known, todo, used>>

(* A manual change; an unknown alert is an error and an unchanged status a   *)
(* no-op, and neither touches the database.                                  *)
UpdateStatus(o, id, status) ==
  /\ MayStart(o) /\ clock < MaxClock
  /\ Exists(alerts, id) /\ alerts[id].status # status
  /\ clock' = clock + 1
  /\ Prepare(o, alerts, StatusEntry(alerts, id, status, <<"wall", clock + 1>>,
                                    StatusAction(status)), "idle")
  /\ Goto(o, "delete")
  /\ UNCHANGED <<stored, batch, known, end, todo, runs, aborts>>

(* The operation ends here; what it has committed stays.                     *)
Drop(p) ==
  /\ Goto(p, "idle")
  /\ Forget(p)
  /\ after' = [after EXCEPT ![p] = "idle"]
  /\ batch' = [batch EXCEPT ![p] = {}]
  /\ known' = [known EXCEPT ![p] = {}]
  /\ end' = [end EXCEPT ![p] = 0]
  /\ todo' = [todo EXCEPT ![p] = {}]
  /\ UNCHANGED <<stored, runs, clock>>

(* .iloc[0] of an empty selection: the alert was lost since it was selected. *)
ResolveGone(w, id) ==
  /\ pc[w] = "resolve" /\ FileFree(w)
  /\ id \in todo[w] /\ ~Exists(alerts, id)
  /\ Drop(w) /\ UNCHANGED aborts

(* A crash, or a storage call that fails: DuckDB refuses a connection while  *)
(* another process has the file open.                                        *)
Abort(p) ==
  /\ pc[p] # "idle" /\ aborts < MaxAborts
  /\ aborts' = aborts + 1
  /\ Drop(p)

Continue(p) ==
  \/ DeleteRows(p) \/ InsertRows(p) \/ AppendHistory(p)
  \/ /\ p \in Runners
     /\ \/ ReadHistory(p)
        \/ \E x \in batch[p] : SkipEvent(p, x) \/ FoldEvent(p, x)
        \/ EndBatch(p) \/ Sweep(p)
        \/ \E id \in todo[p] : ResolveNext(p, id) \/ ResolveGone(p, id)
        \/ FinishRun(p)

Next ==
  \/ \E w \in Runners, h \in Hours : \E b \in Batches(h) : StartRun(w, h, b)
  \/ \E o \in Operators, id \in AlertIds, status \in Statuses : UpdateStatus(o, id, status)
  \/ \E p \in Procs : Continue(p) \/ Abort(p)

Spec == Init /\ [][Next]_vars

(* A process that has begun an operation is scheduled until it ends.         *)
FairSpec == Spec /\ \A p \in Procs : WF_vars(Continue(p))
-----------------------------------------------------------------------------
Pending == UNION {entries[p] : p \in Procs}

(* The audit trail is complete.  Unless an operation was cut short, every    *)
(* stored row is the result of a history row (appended, or held by a process *)
(* on its way to append it), every history row that started from a stored    *)
(* row has that row's own entry, and an alert with history exists, except    *)
(* while a process replaces it (storage.py:55-91, lifecycle.py:97-100).      *)
TrailExplainsAlerts ==
  aborts = 0 =>
    /\ \A id \in AlertIds : Exists(alerts, id) =>
         \E e \in history \cup Pending : e.alert = id /\ e.new = alerts[id]
    /\ \A e \in history \cup Pending : e.prev # NoAlert =>
         \E f \in history \cup Pending : f.alert = e.alert /\ f.new = e.prev
    /\ \A e \in history :
         \/ Exists(alerts, e.alert)
         \/ \E p \in Procs : pc[p] = "insert" /\ e.alert \in Changed(p)

(* A row that was read before another process changed it is written back as  *)
(* a whole, and takes the other change with it.  With one detection process  *)
(* and one operator the trail shows it wherever it happens: unless an        *)
(* operation was cut short, a change that is neither what the alert's row    *)
(* says nor what a later change started from stands beside two changes of    *)
(* that alert that started from one row (process stores the alerts it        *)
(* changed and no others, lifecycle.py:97-100).                              *)
OverwritesShow ==
  aborts = 0 =>
    \A e \in history :
      \/ alerts[e.alert] = e.new
      \/ LET ofAlert == {f \in history \cup Pending : f.alert = e.alert}
         IN  \/ \E f \in ofAlert : f.prev = e.new
             \/ \E f, g \in ofAlert : f # g /\ f.prev = g.prev

(* process() leaves no anomaly behind: one it has handled is named by a      *)
(* history row or by one it still holds, and once it goes on to auto_resolve *)
(* by a stored one, whatever other processes did in between and whatever     *)
(* failed earlier (represented_anomalies, lifecycle.py:55-96).               *)
HandledAnomaliesAreJournaled ==
  \A w \in Runners :
    /\ known[w] \subseteq Represented(history \cup entries[w])
    /\ pc[w] = "sweep" => known[w] \subseteq Represented(history)

(* An alert's occurrence_count never claims more anomalies than its stream   *)
(* can have had between first_seen and last_seen (process is idempotent).    *)
CountFitsSpan ==
  \A id \in AlertIds : Exists(alerts, id) =>
    alerts[id].count <= alerts[id].last - id[2] + 1

(* The same where nothing is cut short: with one detection process, no       *)
(* interleaving with operators makes an anomaly count twice.                 *)
CountFitsSpanUnlessCut == aborts = 0 => CountFitsSpan

(* Every anomaly given to a run gets a history row, unless an operation is   *)
(* cut short: none is lost between two interleaved operations.               *)
EveryAnomalyJournaled ==
  \A w \in Runners, x \in Events, n \in 0 .. MaxAborts :
    (x \in batch[w] /\ aborts = n)
      ~> (<<x[1], x[2]>> \in Represented(history) \/ aborts > n)

(* Every status change and occurrence adds its own history row.              *)
EveryChangeAddsItsRow ==
  [][\A p \in Procs : AppendHistory(p) => entries[p] \cap history = {}]_vars

(* A run that completes leaves no active alert unseen for the auto-resolve   *)
(* window before its end (auto_resolve, lifecycle.py:152-167).               *)
SweepLeavesNoStaleAlert ==
  [][\A w \in Runners : FinishRun(w) => Eligible(alerts, end[w]) = {}]_vars

(* Run one at a time and not cut short, the operations implement the atomic  *)
(* ledger: a prepared row counts as stored and a pending entry as journaled. *)
Shown == [id \in AlertIds |->
            IF \E p \in Procs : id \in Changed(p)
            THEN view[CHOOSE p \in Procs : id \in Changed(p)][id]
            ELSE alerts[id]]

Ledger == INSTANCE AlertLedger WITH ledger <- Shown, journal <- history \cup Pending

LedgerSpec == Ledger!Spec
=============================================================================
