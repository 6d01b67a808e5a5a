---------------------------- MODULE ControlPanel ----------------------------
(***************************************************************************)
(* The two front ends of neprotoctl: the terminal panel                    *)
(* (cinematic_tui*.go) and the job queue of the web API (web_api_jobs.go). *)
(*                                                                         *)
(* The panel is one event loop.  A key acts on the row under the cursor of *)
(* the lists the last refresh loaded; most actions open a dialog that      *)
(* keeps the target, and the operation runs when the dialog is confirmed.  *)
(* Host-key discovery, enrolment and the geodata update run in a           *)
(* background goroutine that reports through a bounded channel, drained at *)
(* every tick; meanwhile keys are ignored.  The web API keeps a bounded    *)
(* table of jobs, each run by a goroutine under the one mutation lock that *)
(* its synchronous requests also take.                                     *)
(*                                                                         *)
(* A list holds row identifiers; what the operations do to users, nodes    *)
(* and routes is in AdminUsers, AdminInstall, ClusterAdmin and GeoData.    *)
(* The recovered panics of both goroutines are left out.                   *)
(***************************************************************************)
EXTENDS Integers, SequencesExt

CONSTANTS Rows,        \* identifiers that the lists may hold
          MaxListed,   \* bound on changes of the lists by others
          MaxInputs,   \* bound on operations the operator invokes
          EventQueue,  \* capacity of backgroundEvents (32)
          MaxReports,  \* bound on progress reports of one operation
          MaximumJobs, \* webAPIMaximumJobs (64)
          MaxJobs      \* bound on jobs ever requested

VARIABLES stored,    \* the list as other programs have left it
          listed,    \* the panel's copy, loaded by refresh
          cursor,    \* listIndex
          dialog,    \* [kind, op, row, shown, options]
          draft,     \* clusterDraft: whether it holds a password, and its stage
          routeDraft, \* the stage of the route wizard, 0 outside it
          backgroundOperation,
          goroutine, \* [op, reports, password]: the background goroutine
          events,    \* the channel to the event loop
          ran,       \* [op, row, shown]: the last operation that ran
          inputs,    \* [operations, listed]: bounds
          jobs,      \* per job: none, queued, running, finished or forgotten
          order,     \* the job table
          mutation   \* who holds the mutation lock: 0 nobody, -1 a request

panelVars == <<stored, listed, cursor, dialog, draft, routeDraft, backgroundOperation,
               goroutine, events, ran, inputs>>
jobVars == <<jobs, order, mutation>>
controlVars == <<panelVars, jobVars>>

JobIds == 1..MaxJobs
Nothing == "none"
NoDialog == [kind |-> Nothing, op |-> Nothing, row |-> Nothing, shown |-> Nothing, options |-> <<>>]
NoDraft == [password |-> FALSE, stage |-> 0]
Info == [NoDialog EXCEPT !.kind = "info"]
NoGoroutine == [op |-> Nothing, reports |-> 0, password |-> FALSE]

\* The dialogs of enrolment, in the order advanceClusterEnrollmentDialog opens them.
EnrolStages == <<"host", "port", "user", "password", "node", "name", "region",
                 "domain", "addresses">>
\* Those of a route, in the order advanceRouteDialog opens them.
RouteStages == <<"id", "name", "priority", "match", "value", "action", "users">>
ConfirmedOps == {"rotate", "remove"}
DirectOps == {"export"}
BackgroundOps == {"discover", "enrol", "geodata"}

ControlInit ==
  /\ stored = SetToSeq(Rows)
  /\ listed = stored
  /\ cursor = 1
  /\ dialog = NoDialog
  /\ draft = NoDraft
  /\ routeDraft = 0
  /\ backgroundOperation = Nothing
  /\ goroutine = NoGoroutine
  /\ events = <<>>
  /\ ran = [row |-> Nothing, shown |-> Nothing]
  /\ inputs = [operations |-> 0, listed |-> 0]
  /\ jobs = [j \in JobIds |-> Nothing]
  /\ order = <<>>
  /\ mutation = 0

----------------------------------------------------------------------------
(* The panel's event loop.                                                 *)

\* Another program adds, removes or reorders rows.
ListChanges(rows) ==
  /\ inputs.listed < MaxListed
  /\ rows # stored
  /\ stored' = rows
  /\ inputs' = [inputs EXCEPT !.listed = @ + 1]
  /\ UNCHANGED <<listed, cursor, dialog, draft, routeDraft, backgroundOperation, goroutine, events, ran, jobVars>>

Clamped(rows) == IF rows = <<>> THEN cursor ELSE IF cursor > Len(rows) THEN Len(rows) ELSE cursor

refresh == listed' = stored /\ cursor' = Clamped(stored)

applyTUIBackgroundEvent(queue) ==
  LET done == SelectSeq(queue, LAMBDA e : e.done) IN
  IF done = <<>> THEN UNCHANGED <<dialog, draft, backgroundOperation>>
  ELSE LET e == Last(done) IN
       /\ backgroundOperation' = Nothing
       /\ draft' = IF e.clear THEN NoDraft ELSE draft
       /\ dialog' = IF e.op = "discover" /\ ~e.clear
                    THEN [NoDialog EXCEPT !.kind = "confirm", !.op = "enrol"]
                    ELSE Info

\* An interrupt of the ticker: drain the channel and refresh, unless the last
\* refresh was a moment ago or this one fails.
Interrupt ==
  /\ events # <<>> \/ listed # stored
  /\ applyTUIBackgroundEvent(events)
  /\ events' = <<>>
  /\ refresh \/ UNCHANGED <<listed, cursor>>
  /\ UNCHANGED <<stored, routeDraft, goroutine, ran, inputs, jobVars>>

Keys == backgroundOperation = Nothing

MoveCursor(i) ==
  /\ Keys /\ dialog = NoDialog
  /\ i \in 1..Len(listed) /\ i # cursor
  /\ cursor' = i
  /\ UNCHANGED <<stored, listed, dialog, draft, routeDraft, backgroundOperation, goroutine, events, ran, inputs, jobVars>>

\* executeConstellationOperation: run, show the outcome, refresh.
Execute(row, shown) ==
  /\ ran' = [row |-> row, shown |-> shown]
  /\ dialog' = Info
  /\ refresh

Invoked ==
  /\ inputs.operations < MaxInputs
  /\ inputs' = [inputs EXCEPT !.operations = @ + 1]

\* An action key on a row: run at once, ask first, or refuse, when the state of
\* the row does not allow it (a revoked user, the master).
queueSelectedOperation(op) ==
  /\ Keys /\ dialog = NoDialog
  /\ Invoked
  /\ IF listed = <<>>
     THEN /\ dialog' = Info
          /\ UNCHANGED <<listed, cursor, ran>>
     ELSE LET row == listed[Clamped(listed)] IN
          \/ /\ op \in DirectOps
             /\ Execute(row, row)
          \/ /\ op \in ConfirmedOps
             /\ dialog' = [NoDialog EXCEPT !.kind = "confirm", !.op = op, !.row = row, !.shown = row]
             /\ UNCHANGED <<listed, cursor, ran>>
          \/ /\ dialog' = Info
             /\ UNCHANGED <<listed, cursor, ran>>
  /\ UNCHANGED <<stored, draft, routeDraft, backgroundOperation, goroutine, events, jobVars>>

\* Mutant of Confirm: the operation takes the row under the cursor by now.
ConfirmUnderCursor ==
  /\ Keys /\ dialog.kind = "confirm" /\ dialog.op \in ConfirmedOps
  /\ cursor \in 1..Len(listed)
  /\ Execute(listed[cursor], dialog.shown)
  /\ UNCHANGED <<stored, draft, routeDraft, backgroundOperation, goroutine, events, inputs, jobVars>>

\* Enter in a confirmation.
Confirm ==
  /\ Keys /\ dialog.kind = "confirm" /\ dialog.op \in ConfirmedOps
  /\ Execute(dialog.row, dialog.shown)
  /\ UNCHANGED <<stored, draft, routeDraft, backgroundOperation, goroutine, events, inputs, jobVars>>

\* 'a' on a node or a route: a dialog offers the users of the list as it is.
OfferUsers ==
  /\ Keys /\ dialog = NoDialog
  /\ Invoked
  /\ dialog' = IF listed = <<>> THEN Info
               ELSE LET row == listed[Clamped(listed)] IN
                    [kind |-> "select", op |-> "assign", row |-> row, shown |-> row, options |-> listed]
  /\ UNCHANGED <<stored, listed, cursor, draft, routeDraft, backgroundOperation, goroutine, events, ran, jobVars>>

\* Enter on an option: the operation gets its value and the row kept aside.
SelectUser(i) ==
  /\ Keys /\ dialog.kind = "select"
  /\ i \in DOMAIN dialog.options
  /\ Execute(<<dialog.row, dialog.options[i]>>, <<dialog.shown, dialog.options[i]>>)
  /\ UNCHANGED <<stored, draft, routeDraft, backgroundOperation, goroutine, events, inputs, jobVars>>

\* 'n' in the routes view, and Enter in each dialog after it; without an active
\* user the wizard ends before the last one.
BeginRoute ==
  /\ Keys /\ dialog = NoDialog
  /\ Invoked
  /\ routeDraft' = 1
  /\ dialog' = [NoDialog EXCEPT !.kind = "text", !.op = "route"]
  /\ UNCHANGED <<stored, listed, cursor, draft, backgroundOperation, goroutine, events, ran, jobVars>>

advanceRouteDialog ==
  /\ Keys /\ dialog.kind = "text" /\ dialog.op = "route"
  /\ routeDraft' = routeDraft + 1
  /\ dialog' = IF routeDraft = Len(RouteStages)
               THEN [NoDialog EXCEPT !.kind = "confirm", !.op = "routeCreate"]
               ELSE IF RouteStages[routeDraft] = "action" /\ listed = <<>>
               THEN [Info EXCEPT !.op = "route"] ELSE dialog
  /\ UNCHANGED <<stored, listed, cursor, draft, backgroundOperation, goroutine, events, ran, inputs, jobVars>>

\* Enter on the confirmation creates the route of the draft and clears it.
CreateRoute ==
  /\ Keys /\ dialog.op = "routeCreate"
  /\ Execute(routeDraft, Len(RouteStages) + 1)
  /\ routeDraft' = 0
  /\ UNCHANGED <<stored, draft, backgroundOperation, goroutine, events, inputs, jobVars>>

\* 'n' in the cluster view, and Enter in each dialog after it; the dialog of
\* the addresses starts the discovery of the host key.
BeginEnrolment ==
  /\ Keys /\ dialog = NoDialog
  /\ Invoked
  /\ draft' = [password |-> FALSE, stage |-> 1]
  /\ dialog' = [NoDialog EXCEPT !.kind = "text", !.op = "enrolment"]
  /\ UNCHANGED <<stored, routeDraft, listed, cursor, backgroundOperation, goroutine, events, ran, jobVars>>

startTUIBackgroundOperation(op, password) ==
  /\ backgroundOperation = Nothing
  /\ backgroundOperation' = op
  /\ goroutine' = [op |-> op, reports |-> 0, password |-> password]
  /\ dialog' = [NoDialog EXCEPT !.kind = "progress"]

advanceClusterEnrollmentDialog ==
  /\ Keys /\ dialog.op = "enrolment"
  /\ \/ /\ draft.stage < Len(EnrolStages)
        /\ draft' = [stage |-> draft.stage + 1,
                     password |-> draft.password \/ EnrolStages[draft.stage] = "password"]
        /\ UNCHANGED <<dialog, backgroundOperation, goroutine>>
     \/ /\ draft.stage = Len(EnrolStages)
        /\ startTUIBackgroundOperation("discover", TRUE)
        /\ draft' = draft
  /\ UNCHANGED <<stored, routeDraft, listed, cursor, events, ran, inputs, jobVars>>

\* Enter on the host key: takeClusterDraft hands the password over.
ConfirmHostKey ==
  /\ Keys /\ dialog.kind = "confirm" /\ dialog.op = "enrol"
  /\ startTUIBackgroundOperation("enrol", draft.password)
  /\ draft' = NoDraft
  /\ UNCHANGED <<stored, routeDraft, listed, cursor, events, ran, inputs, jobVars>>

\* 'g' in the routes view asks; Enter starts the update.
AskGeoData ==
  /\ Keys /\ dialog = NoDialog
  /\ Invoked
  /\ dialog' = [NoDialog EXCEPT !.kind = "confirm", !.op = "geodata"]
  /\ UNCHANGED <<stored, listed, cursor, draft, routeDraft, backgroundOperation, goroutine, events, ran, jobVars>>

UpdateGeoData ==
  /\ Keys /\ dialog.kind = "confirm" /\ dialog.op = "geodata"
  /\ startTUIBackgroundOperation("geodata", FALSE)
  /\ UNCHANGED <<stored, listed, cursor, draft, routeDraft, events, ran, inputs, jobVars>>

\* Escape, or Enter in an information dialog.
CloseDialog ==
  /\ Keys /\ dialog.kind \in {"confirm", "text", "select", "info"}
  /\ dialog' = NoDialog
  /\ draft' = IF dialog.op \in {"enrol", "enrolment"}
              THEN NoDraft ELSE draft
  /\ routeDraft' = IF dialog.op \in {"route", "routeCreate"} THEN 0 ELSE routeDraft
  /\ UNCHANGED <<stored, listed, cursor, backgroundOperation, goroutine, events, ran, inputs, jobVars>>

----------------------------------------------------------------------------
(* The background goroutine.                                               *)

\* A progress report is dropped when the channel is full.
report ==
  /\ goroutine.op # Nothing
  /\ goroutine.reports < MaxReports
  /\ goroutine' = [goroutine EXCEPT !.reports = @ + 1]
  /\ events' = IF Len(events) < EventQueue
               THEN Append(events, [op |-> goroutine.op, done |-> FALSE, clear |-> FALSE])
               ELSE events
  /\ UNCHANGED <<stored, listed, cursor, dialog, draft, routeDraft, backgroundOperation, ran, inputs, jobVars>>

\* The result is sent when there is room; enrolment and a failed discovery
\* also tell the loop to clear the draft.
WorkEnds(failed) ==
  /\ goroutine.op # Nothing
  /\ Len(events) < EventQueue
  /\ events' = Append(events, [op |-> goroutine.op, done |-> TRUE,
                               clear |-> goroutine.op = "enrol" \/ (goroutine.op = "discover" /\ failed)])
  /\ goroutine' = NoGoroutine
  /\ UNCHANGED <<stored, listed, cursor, dialog, draft, routeDraft, backgroundOperation, ran, inputs, jobVars>>

----------------------------------------------------------------------------
(* The web API's jobs.                                                     *)

Unfinished(j) == jobs[j] \in {"queued", "running"}

\* pruneLocked: the oldest finished job makes room; none, and the request is refused.
Pruned ==
  IF Len(order) < MaximumJobs THEN order
  ELSE LET removable == {i \in 1..Len(order) : ~Unfinished(order[i])} IN
       IF removable = {} THEN order ELSE RemoveAt(order, Min(removable))

StartJob(j) ==
  /\ jobs[j] = Nothing
  /\ \A k \in JobIds : k < j => jobs[k] # Nothing
  /\ IF Len(Pruned) < MaximumJobs
     THEN /\ order' = Append(Pruned, j)
          /\ jobs' = [jobs EXCEPT ![j] = "queued"]
     ELSE /\ jobs' = [jobs EXCEPT ![j] = "refused"]
          /\ UNCHANGED order
  /\ UNCHANGED <<mutation, panelVars>>

RunJob(j) ==
  /\ jobs[j] = "queued"
  /\ mutation = 0
  /\ mutation' = j
  /\ jobs' = [jobs EXCEPT ![j] = "running"]
  /\ UNCHANGED <<order, panelVars>>

\* The work returns; an update of a forgotten job changes nothing.
FinishJob(j) ==
  /\ jobs[j] = "running"
  /\ mutation' = 0
  /\ jobs' = [jobs EXCEPT ![j] = IF j \in Range(order) THEN "finished" ELSE "unknown"]
  /\ UNCHANGED <<order, panelVars>>

\* A synchronous request holds the lock for its duration.
RequestStarts ==
  /\ mutation = 0
  /\ mutation' = -1
  /\ UNCHANGED <<jobs, order, panelVars>>

RequestEnds ==
  /\ mutation = -1
  /\ mutation' = 0
  /\ UNCHANGED <<jobs, order, panelVars>>

ControlNext ==
  \/ \E rows \in {s \in SeqOf(Rows, 2) : IsInjective(s)} : ListChanges(rows)
  \/ Interrupt
  \/ \E i \in 1..Len(listed) : MoveCursor(i)
  \/ \E op \in ConfirmedOps \cup DirectOps : queueSelectedOperation(op)
  \/ Confirm \/ BeginEnrolment \/ advanceClusterEnrollmentDialog \/ ConfirmHostKey
  \/ OfferUsers \/ (\E i \in DOMAIN dialog.options : SelectUser(i))
  \/ BeginRoute \/ advanceRouteDialog \/ CreateRoute
  \/ AskGeoData \/ UpdateGeoData \/ CloseDialog
  \/ report
  \/ \E failed \in BOOLEAN : WorkEnds(failed)
  \/ \E j \in JobIds : StartJob(j) \/ RunJob(j) \/ FinishJob(j)
  \/ RequestStarts \/ RequestEnds

----------------------------------------------------------------------------
(* Properties.                                                             *)

\* An operation runs on the row that was under the cursor when its key was
\* pressed, whatever the lists turned into before it was confirmed: dialogs
\* keep the identifier, not the position (queueSelected*Operation), an option
\* its value, and a route is created with every stage of its wizard done.
RunsOnShownRow == ran.row = ran.shown

\* The SSH password stays in memory only while an enrolment is being filled in
\* or carried out: no way out of it - escape, a failed discovery, the end of
\* the enrolment - leaves it in the draft (handleTUIDialogKey,
\* applyTUIBackgroundEvent, takeClusterDraft).
PasswordDropped ==
  draft.password =>
    \/ dialog.op \in {"enrolment", "enrol"}
    \/ backgroundOperation = "discover"

\* The job table never forgets a job that is queued or running, so its result
\* can always be asked for, and never outgrows its limit (pruneLocked).
JobsAreKnown ==
  /\ Len(order) <= MaximumJobs
  /\ \A j \in JobIds : Unfinished(j) => j \in Range(order)
  /\ \A j \in JobIds : jobs[j] # "unknown"

\* The panel does what its operator saw and forgets what they typed, and the
\* jobs it and the API start can be followed to their end.
PanelIsFaithful == RunsOnShownRow /\ PasswordDropped /\ JobsAreKnown
=============================================================================
