----------------------------- MODULE FlowRouter -----------------------------
(***************************************************************************)
(* The client's continuity router (internal/tunstack/continuity_router.go) *)
(* with several flows: the pool of routes, the bounded queue of flows that *)
(* asked for a migration, the one worker that serves it, and the control   *)
(* channels (internal/constellation/channel.go) the flows register with.   *)
(* ResumableFlow follows the bytes of one flow across its migrations; here *)
(* a flow is its bookkeeping only.                                         *)
(*                                                                         *)
(* A route is one authenticated carrier: its Mux, control channel, lease   *)
(* key and identifier are all the route.  Routes are numbered in the order *)
(* they come up, flows in the order they are opened.                       *)
(***************************************************************************)
EXTENDS Integers, Sequences, FiniteSets

CONSTANTS
    MaxRoutes,   \* bound: carriers that ever come up
    PoolLimit,   \* routes the router holds at once, three in the code
    MaxOpens,    \* bound: flows the applications open
    MaxFlows,    \* config.MaxFlows, also the capacity of r.migrations
    MaxChanges   \* bound: route changes, losses, aborts and the router's Close

ASSUME FlowRouterAssumption ==
    {MaxRoutes, PoolLimit, MaxOpens, MaxFlows, MaxChanges} \subseteq Nat \ {0}

VARIABLES
    routes,     \* r.routes
    standby,    \* the routes of them that are standby
    up,         \* carriers that came up so far
    healthy,    \* those whose Mux has no error
    handlers,   \* handlers[c]: flows registered with control channel c
    ended,      \* control channels that are closed
    flow,       \* flow[f]: the clientContinuityFlow
    opened,     \* flows opened so far
    flows,      \* r.flows
    queue,      \* r.migrations
    worker,     \* where the migration worker is
    asked,      \* flows a route change or a closing channel is about to ask
    shut,       \* r.closed
    changes,    \* how many of those have happened
    missed,     \* flows whose loss was reported while `migrating` still stood
    orphans     \* flows whose end crossed their own opening or migration

flowVars == <<flow, opened, flows, queue, worker, missed, orphans>>
callVars == <<asked, shut, changes>>
routeVars == <<routes, standby, up, healthy>>
routerVars == <<routes, standby, up, healthy, handlers, ended, flow, opened, flows, queue,
                worker, asked, shut, changes, missed, orphans>>

Route == 1 .. MaxRoutes
Flow == 1 .. MaxOpens
NoRoute == 0

\* at is the route openStream chose, taken the control finish took.
NewFlow == [stage |-> "none", at |-> NoRoute, control |-> NoRoute, lease |-> NoRoute, route |-> NoRoute,
            physical |-> NoRoute, migrating |-> FALSE, finished |-> FALSE, taken |-> NoRoute,
            closed |-> FALSE]
Idle == [pc |-> "idle", flow |-> NoRoute, route |-> NoRoute, old |-> NoRoute]

\* NewClientContinuityRouter: the initial route, and the worker started.
FlowRouterInit ==
    /\ routes = {1} /\ standby = {} /\ up = 1 /\ healthy = {1}
    /\ handlers = [c \in Route |-> {}] /\ ended = {}
    /\ flow = [f \in Flow |-> NewFlow] /\ opened = 0 /\ flows = {}
    /\ queue = <<>> /\ worker = Idle /\ asked = {} /\ shut = FALSE /\ changes = 0
    /\ missed = {} /\ orphans = {}

\* A flow openStream has built and that is not being taken down.
Live(f) == flow[f].stage \in {"built", "returned"} /\ ~flow[f].finished /\ ~flow[f].closed
\* r.pending: flows openStream has a place for and has not published.
pending == {f \in Flow : flow[f].stage \in {"pending", "built"}}

-----------------------------------------------------------------------------
(* Ending a flow and asking for its migration *)

\* finish, up to the point where the flow's control is taken from it.
Finished(fl) == [fl EXCEPT !.finished = TRUE, !.taken = fl.control, !.control = NoRoute]

\* finish: f.closeOnce lets the first caller in.
finish(f) ==
    /\ Live(f)
    /\ flow' = [flow EXCEPT ![f] = Finished(@)]

\* The rest of finish: the control it took forgets the flow, the stream is
\* closed and the router drops it.
FinishEnds(f) ==
    /\ flow[f].finished /\ ~flow[f].closed
    /\ handlers' = [c \in Route |->
          IF c = flow[f].taken THEN handlers[c] \ {f} ELSE handlers[c]]
    /\ flow' = [flow EXCEPT ![f].closed = TRUE, ![f].physical = NoRoute]
    /\ flows' = flows \ {f}
    /\ UNCHANGED <<routeVars, ended, opened, queue, worker, callVars, missed, orphans>>

\* requestMigration, fl being what the flow has become: refused when it is
\* finished or migrating; a full queue, or a closed router, ends the flow.
requestMigration(f, fl) ==
    \/ /\ fl.finished \/ fl.migrating
       /\ flow' = [flow EXCEPT ![f] = fl]
       /\ UNCHANGED <<queue, missed>>
    \/ /\ ~fl.finished /\ ~fl.migrating
       /\ missed' = missed \ {f}
       /\ \/ /\ Len(queue) < MaxFlows
             /\ queue' = Append(queue, f)
             /\ flow' = [flow EXCEPT ![f] = [fl EXCEPT !.migrating = TRUE]]
          \/ /\ Len(queue) = MaxFlows \/ shut
             /\ flow' = [flow EXCEPT ![f] = Finished([fl EXCEPT !.migrating = TRUE])]
             /\ UNCHANGED queue

\* The caller of SwitchRoute or RemoveRoute, or a closing control channel,
\* reaches the next flow of its list.
AskNext(f) ==
    /\ f \in asked
    /\ asked' = asked \ {f}
    /\ requestMigration(f, flow[f])
    /\ UNCHANGED <<routeVars, handlers, ended, opened, flows, worker, shut, changes, orphans>>

\* finish called from outside the worker, which may hold the flow.
FinishOutside(f) ==
    /\ finish(f)
    /\ orphans' = IF worker.flow = f THEN orphans \cup {f} ELSE orphans

\* clientFlowConnection.Close by the application, and the router's Close for
\* the flows it finds.
CloseConnection(f) ==
    /\ flow[f].stage = "returned"
    /\ FinishOutside(f)
    /\ UNCHANGED <<routeVars, handlers, ended, opened, flows, queue, worker, callVars, missed>>

-----------------------------------------------------------------------------
(* Routes *)

Change == changes < MaxChanges /\ changes' = changes + 1

\* A carrier comes up and is handed to AddRoute.
AddRoute(spare) ==
    /\ Change
    /\ ~shut /\ up < MaxRoutes /\ Cardinality(routes) < PoolLimit
    /\ up' = up + 1
    /\ healthy' = healthy \cup {up + 1}
    /\ routes' = routes \cup {up + 1}
    /\ standby' = IF spare THEN standby \cup {up + 1} ELSE standby
    /\ UNCHANGED <<handlers, ended, flowVars, asked, shut>>

SetStandby(c, spare) ==
    /\ Change
    /\ ~shut /\ c \in routes
    /\ standby' = IF spare THEN standby \cup {c} ELSE standby \ {c}
    /\ UNCHANGED <<routes, up, healthy, handlers, ended, flowVars, asked, shut>>

\* A carrier comes up and replaces every route: all flows are to move.
SwitchRoute ==
    /\ Change
    /\ ~shut /\ up < MaxRoutes
    /\ up' = up + 1
    /\ healthy' = healthy \cup {up + 1}
    /\ routes' = {up + 1} /\ standby' = {}
    /\ asked' = asked \cup flows
    /\ UNCHANGED <<handlers, ended, flowVars, shut>>

\* The flows whose routeID is the removed one are to move.
RemoveRoute(c) ==
    /\ Change
    /\ ~shut /\ c \in routes
    /\ routes' = routes \ {c} /\ standby' = standby \ {c}
    /\ asked' = asked \cup {f \in flows : flow[f].route = c}
    /\ UNCHANGED <<up, healthy, handlers, ended, flowVars, shut>>

\* selectRouteLocked: the scheduler picks any of the healthy routes other than
\* the flow's own lease, and a standby one only when there is no other.
Candidates(exclude) ==
    LET usable == (routes \cap healthy) \ {exclude}
    IN IF usable \ standby # {} THEN usable \ standby ELSE usable

\* The Mux of c fails.
LoseMux(c) ==
    /\ Change
    /\ c \in healthy
    /\ healthy' = healthy \ {c}
    /\ UNCHANGED <<routes, standby, up, handlers, ended, flowVars, asked, shut>>

\* A read or a write of f fails with ErrCarrierLost (markUnavailable).
Unavailable(f) ==
    /\ flow[f].stage = "returned" /\ ~flow[f].closed
    /\ flow[f].physical \notin healthy \cup {NoRoute}
    /\ \/ /\ worker.flow = f /\ worker.pc = "replaced"
          /\ flow' = [flow EXCEPT ![f].physical = NoRoute]
          /\ missed' = missed \cup {f}
          /\ UNCHANGED queue
       \/ /\ ~(worker.flow = f /\ worker.pc = "replaced")
          /\ requestMigration(f, [flow[f] EXCEPT !.physical = NoRoute])
    /\ UNCHANGED <<routeVars, handlers, ended, opened, flows, worker, callVars, orphans>>

\* ControlChannel.finish: every registered flow is told, and asks to migrate.
ControlEnds(c) ==
    /\ c <= up /\ c \notin healthy /\ c \notin ended
    /\ ended' = ended \cup {c}
    /\ asked' = asked \cup handlers[c]
    /\ handlers' = [handlers EXCEPT ![c] = {}]
    /\ UNCHANGED <<routeVars, flowVars, shut, changes>>

\* handleAbort and clientFlowControlBinding.Abort: the peer gives up the flow;
\* only the binding of the flow's current lease ends it.
PeerAborts(c, f) ==
    /\ Change
    /\ c \in healthy \ ended /\ f \in handlers[c]
    /\ handlers' = [handlers EXCEPT ![c] = @ \ {f}]
    /\ IF flow[f].lease = c /\ ~flow[f].finished
       THEN FinishOutside(f)
       ELSE UNCHANGED flow /\ orphans' = orphans \cup {f}
    /\ UNCHANGED <<routeVars, ended, opened, flows, queue, worker, asked, shut, missed>>

-----------------------------------------------------------------------------
(* openStream *)

\* newFlowIDLocked: an identifier no flow has had.
newFlowIDLocked == opened + 1

\* Under the router's lock: a place, a route and a fresh flow identifier.
OpenReserves(c) ==
    /\ ~shut /\ opened < MaxOpens /\ Cardinality(flows \cup pending) < MaxFlows
    /\ c \in Candidates(NoRoute)
    /\ opened' = newFlowIDLocked
    /\ flow' = [flow EXCEPT ![newFlowIDLocked] = [NewFlow EXCEPT !.stage = "pending", !.at = c]]
    /\ UNCHANGED <<routeVars, handlers, ended, flows, queue, worker, callVars, missed, orphans>>

\* The Mux opens the stream, and the flow registers with the control channel;
\* either may fail, and the reserved place is returned.
OpenBuilds(f) ==
    LET c == flow[f].at
    IN /\ flow[f].stage = "pending"
       /\ \/ /\ c \in healthy /\ c \notin ended
             /\ handlers' = [handlers EXCEPT ![c] = @ \cup {f}]
             /\ flow' = [flow EXCEPT ![f] = [@ EXCEPT !.stage = "built", !.control = c,
                                             !.lease = c, !.route = c, !.physical = c]]
          \/ /\ flow' = [flow EXCEPT ![f].stage = "failed"]
             /\ UNCHANGED handlers
       /\ UNCHANGED <<routeVars, ended, opened, flows, queue, worker, callVars, missed,
                      orphans>>

\* The flow moves from r.pending to r.flows, unless the router was closed.  A
\* flow that has already ended is published all the same.
OpenPublishes(f) ==
    /\ flow[f].stage = "built"
    /\ \/ /\ shut
          /\ flow' = [flow EXCEPT ![f] = [@ EXCEPT !.stage = "failed", !.closed = TRUE,
                                          !.physical = NoRoute]]
          /\ handlers' = [handlers EXCEPT ![flow[f].at] = @ \ {f}]
          /\ UNCHANGED flows
       \/ /\ ~shut
          /\ flow' = [flow EXCEPT ![f].stage = "returned"]
          /\ flows' = flows \cup {f}
          /\ UNCHANGED handlers
    /\ orphans' = IF shut \/ flow[f].finished THEN orphans \cup {f} ELSE orphans
    /\ UNCHANGED <<routeVars, ended, opened, queue, worker, callVars, missed>>

-----------------------------------------------------------------------------
(* The migration worker *)

WorkerAt(pc) == worker.pc = pc
GoTo(pc) == worker' = [worker EXCEPT !.pc = pc]
f0 == worker.flow

\* migrationWorker takes the next flow; migrate detaches its transport, unless
\* the stream is closed.
MigrateTakes ==
    /\ WorkerAt("idle") /\ ~shut /\ queue # <<>>
    /\ queue' = Tail(queue)
    /\ LET f == Head(queue)
       IN IF flow[f].closed
          THEN UNCHANGED <<flow, worker>>
          ELSE /\ flow' = [flow EXCEPT ![f].physical = NoRoute]
               /\ worker' = [Idle EXCEPT !.pc = "select", !.flow = f]
    /\ UNCHANGED <<routeVars, handlers, ended, opened, flows, callVars, missed, orphans>>

\* The top of migrate's loop.
MigrateSelects ==
    /\ WorkerAt("select")
    /\ \/ flow[f0].finished /\ worker' = Idle
       \/ /\ ~flow[f0].finished
          /\ \/ \E c \in Candidates(flow[f0].lease) :
                   worker' = [worker EXCEPT !.pc = "open", !.route = c, !.old = flow[f0].lease]
             \/ Candidates(flow[f0].lease) = {} /\ GoTo("wait")
    /\ UNCHANGED <<routeVars, handlers, ended, flow, opened, flows, queue, callVars, missed,
                   orphans>>

\* Mux.Open, and Register with the new control channel.
MigrateOpens ==
    LET c == worker.route
    IN /\ WorkerAt("open")
       /\ \/ /\ ~shut /\ c \in healthy /\ c \notin ended /\ f0 \notin handlers[c]
             /\ handlers' = [handlers EXCEPT ![c] = @ \cup {f0}]
             /\ GoTo("registered")
          \/ GoTo("retry") /\ UNCHANGED handlers
       /\ UNCHANGED <<routeVars, ended, flow, opened, flows, queue, callVars, missed, orphans>>

\* The flow changes over to the new route before its stream does.
MigrateMoves ==
    LET c == worker.route
    IN /\ WorkerAt("registered")
       /\ flow' = [flow EXCEPT ![f0] = [@ EXCEPT !.control = c, !.lease = c, !.route = c]]
       /\ GoTo("moved")
       /\ UNCHANGED <<routeVars, handlers, ended, opened, flows, queue, callVars, missed,
                      orphans>>

\* Replace, and when it fails the old control and lease put back.
MigrateReplaces ==
    LET c == worker.route
    IN /\ WorkerAt("moved")
       /\ \/ /\ ~flow[f0].closed
             /\ flow' = [flow EXCEPT ![f0].physical = c]
             /\ GoTo("replaced")
             /\ UNCHANGED handlers
          \/ /\ flow' = [flow EXCEPT ![f0] = 
                [@ EXCEPT !.control = worker.old, !.lease = worker.old]]
             /\ handlers' = [handlers EXCEPT ![c] = @ \ {f0}]
             /\ GoTo("retry")
       /\ UNCHANGED <<routeVars, ended, opened, flows, queue, callVars, missed, orphans>>

\* The new epoch stands, and the flow may ask again.
MigrateCommits ==
    /\ WorkerAt("replaced")
    /\ flow' = [flow EXCEPT ![f0].migrating = FALSE]
    /\ GoTo("committed")
    /\ UNCHANGED <<routeVars, handlers, ended, opened, flows, queue, callVars, missed, orphans>>

\* Mutation: the flow stays registered with the control it left.
MigrateEndsRegistered ==
    /\ WorkerAt("committed")
    /\ worker' = Idle
    /\ UNCHANGED <<routeVars, handlers, ended, flow, opened, flows, queue, callVars, missed,
                   orphans>>

\* oldControl.Unregister.
MigrateEnds ==
    /\ WorkerAt("committed")
    /\ handlers' = [handlers EXCEPT ![worker.old] = @ \ {f0}]
    /\ worker' = Idle
    /\ UNCHANGED <<routeVars, ended, flow, opened, flows, queue, callVars, missed, orphans>>

\* waitForRouteChange, and the wait for a candidate: back to the loop's top on
\* a route change or the timer, or the migration's time is up and the flow ends.
MigrateWaits ==
    /\ \/ /\ WorkerAt("retry") \/ (WorkerAt("wait") /\ Candidates(flow[f0].lease) # {})
          /\ GoTo("select")
          /\ UNCHANGED flow
       \/ /\ WorkerAt("retry") \/ WorkerAt("wait")
          /\ IF Live(f0) THEN finish(f0) ELSE UNCHANGED flow
          /\ GoTo("finishing")
       \/ /\ WorkerAt("finishing") /\ flow[f0].closed
          /\ worker' = Idle
          /\ UNCHANGED flow
    /\ UNCHANGED <<routeVars, handlers, ended, opened, flows, queue, callVars, missed, orphans>>

\* Close: the context is cancelled, and the flows are finished one by one.
CloseRouter ==
    /\ Change
    /\ ~shut /\ shut' = TRUE
    /\ UNCHANGED <<routeVars, handlers, ended, flowVars, asked>>

FlowRouterNext ==
    \/ \E c \in Route :
          \/ \E spare \in BOOLEAN : SetStandby(c, spare)
          \/ RemoveRoute(c) \/ LoseMux(c) \/ ControlEnds(c) \/ OpenReserves(c)
          \/ \E f \in Flow : PeerAborts(c, f)
    \/ \E spare \in BOOLEAN : AddRoute(spare)
    \/ SwitchRoute \/ CloseRouter
    \/ \E f \in Flow : \/ FinishEnds(f) \/ AskNext(f) \/ CloseConnection(f) \/ Unavailable(f)
                       \/ OpenBuilds(f) \/ OpenPublishes(f)
    \/ MigrateTakes \/ MigrateSelects \/ MigrateOpens \/ MigrateMoves \/ MigrateReplaces
    \/ MigrateCommits \/ MigrateEnds \/ MigrateWaits

FlowRouterSpec == FlowRouterInit /\ [][FlowRouterNext]_routerVars

-----------------------------------------------------------------------------
\* The worker is moving f, and has not let it ask again.
Moving(f) == worker.flow = f /\ worker.pc # "committed"

\* `migrating` is exactly a place in line (requestMigration, migrationWorker): a
\* live flow that has it set is in the queue once or with the worker, never both,
\* and one that has not is in neither, so no flow waits for a worker that will
\* not come and none is migrated twice.
MigrationsArePending ==
    \A f \in Flow : Live(f) =>
        Cardinality({i \in DOMAIN queue : queue[i] = f}) + (IF Moving(f) THEN 1 ELSE 0)
            = IF flow[f].migrating THEN 1 ELSE 0

\* A flow the application holds and that has no transport is on its way to a new
\* one (markUnavailable, requestMigration), except where the loss was reported
\* in the window between Replace and the reset of `migrating`.
LossIsNoticed ==
    \A f \in Flow : Live(f) /\ flow[f].stage = "returned" /\ flow[f].physical = NoRoute
        => flow[f].migrating \/ f \in missed

\* The queue has a place for every flow (it is as long as the flow limit), so
\* a live flow meets a full one only behind flows that ended while they waited.
FullOnlyOfEnded ==
    \A f \in Flow : Live(f) /\ ~flow[f].migrating /\ Len(queue) = MaxFlows
        => \E i \in DOMAIN queue : ~Live(queue[i])

\* Registrations and places follow the flows (Register, Unregister, finish):
\* a control channel knows only flows that have it, or are moving to or from it;
\* an idle flow is known to its open control channel; an ended flow gives its
\* place back.  Only a flow whose end crossed its own opening or migration may
\* leave something behind.
NothingIsLeftBehind ==
    \A f \in Flow \ orphans :
        /\ \A c \in Route : f \in handlers[c] =>
              \/ ~flow[f].closed /\ c \in {flow[f].control, flow[f].taken}
              \/ worker.flow = f /\ c \in {worker.route, worker.old}
        /\ Live(f) /\ worker.flow # f /\ flow[f].control \notin ended
              => f \in handlers[flow[f].control]
        /\ f \in flows => ~flow[f].closed

\* What the router owes its flows (continuity_router.go), all of it together.
FlowsAreServed ==
    MigrationsArePending /\ LossIsNoticed /\ FullOnlyOfEnded /\ NothingIsLeftBehind
=============================================================================
