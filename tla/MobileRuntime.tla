--------------------------- MODULE MobileRuntime ---------------------------
(***************************************************************************)
(* np2Runtime of mobile/np2mobile/controller.go: one primary carrier       *)
(* session, a pool of warm sessions, the sessions retired by a migration,  *)
(* and the two routers that hand out routes to them, the SessionRouter     *)
(* (tunstack/session_router.go) and the route table of the                 *)
(* ClientContinuityRouter (tunstack/continuity_router.go).                 *)
(*                                                                         *)
(* Everything that runs beside everything else is a step of its own: the   *)
(* pool goroutine runCarrierPool, the NetworkChanged call of the           *)
(* controller, one watcher per session and role, one drain per retired     *)
(* session, Close, and the tails that run after r.mu is released (remove   *)
(* the route, close the control channel and the Mux).  A session's control *)
(* channel is closed with its Mux.  Whether a Mux carries streams is left  *)
(* open: any pool member may be idle, any drain may be over.               *)
(***************************************************************************)
EXTENDS Integers, FiniteSets, FiniteSetsExt, Functions, TLC

CONSTANTS
    MaxCarriers,    \* bound: carrier sessions connected in all
    Configured,     \* poolConfiguredTarget
    MaxDeaths,      \* bound: carrier failures
    MaxChanges      \* bound: NetworkChanged calls

Carriers == 1 .. MaxCarriers
NoCarrier == 0
Kinds == {"https", "http3"}

VARIABLES
    mux,      \* mux[s]: none (not connected), open, dead (the carrier failed), closed
    kind,     \* kind[s]: the carrier of session s
    rt,       \* the fields of np2Runtime
    router,   \* SessionRouter: active, routes, nextRouteID
    cont,     \* ClientContinuityRouter.routes
    watchers, \* watchSession and watchPoolSession goroutines
    warm,     \* the runCarrierPool goroutine
    change,   \* the NetworkChanged call
    tails,    \* withdrawals that run after r.mu was released
    closing,  \* the sessions Close still has to close
    budget,   \* carrier failures and NetworkChanged calls still to come
    lost,     \* history: a death reported during a migration was dropped
    late      \* history: a withdrawal outlived a Switch

runtimeVars == <<mux, kind, rt, router, cont, watchers, warm, change, tails, closing, budget, lost, late>>

Empty == [i \in {} |-> NoCarrier]
NoWarm == [pc |-> "off", target |-> 0, carrier |-> "none", cand |-> NoCarrier]
NoChange == [pc |-> "idle", gen |-> 0, current |-> NoCarrier, cand |-> NoCarrier]

Put(f, i, v) == (i :> v) @@ f
Drop(f, S) == Restrict(f, DOMAIN f \ S)

carrierPriority(k) == IF k = "http3" THEN 3 ELSE 1
carrierPoolTarget(k) == IF k = "https" THEN Configured ELSE Min({Configured, 2})

\* A session is connected and its constellation control attached; the sessions are numbered in turn.
Fresh == {s \in Carriers : mux[s] = "none" /\ \A t \in 1 .. s - 1 : mux[t] # "none"}
Connects(s, k) == mux' = [mux EXCEPT ![s] = "open"] /\ kind' = [kind EXCEPT ![s] = k]
Closes(S) == mux' = [s \in Carriers |-> IF s \in S THEN "closed" ELSE mux[s]]

Watcher(role, key, s) == [role |-> role, key |-> key, s |-> s, pc |-> "wait"]

\* newNP2RuntimeWithConnectors: the session authenticated first is the primary, under route 1.
RuntimeInit ==
    \E k \in Kinds :
        /\ mux = [s \in Carriers |-> IF s = 1 THEN "open" ELSE "none"]
        /\ kind = [s \in Carriers |-> k]
        /\ rt = [session |-> 1, gen |-> 1, route |-> 1, pool |-> Empty, retired |-> {},
                 closed |-> FALSE, done |-> FALSE, migrating |-> FALSE, pending |-> FALSE,
                 carrier |-> k, target |-> carrierPoolTarget(k), stack |-> FALSE]
        /\ router = [active |-> 1, routes |-> (1 :> [s |-> 1, standby |-> FALSE]), next |-> 2]
        /\ cont = (1 :> [s |-> 1, standby |-> FALSE])
        /\ watchers = {Watcher("session", 1, 1)}
        /\ warm = NoWarm /\ change = NoChange
        /\ tails = {} /\ closing = {} /\ budget = [die |-> MaxDeaths, change |-> MaxChanges]
        /\ lost = FALSE /\ late = {}

\* The carrier of a session fails: its Mux ends.  A session that is retired or being closed is
\* closed whether it failed or not.
Die(s) ==
    /\ mux[s] = "open" /\ ~rt.closed /\ s \notin rt.retired /\ budget.die > 0
    /\ mux' = [mux EXCEPT ![s] = "dead"]
    /\ budget' = [budget EXCEPT !.die = @ - 1]
    /\ UNCHANGED <<kind, rt, router, cont, watchers, warm, change, tails, closing, lost, late>>

StartTunnel ==
    /\ ~rt.closed /\ ~rt.stack
    /\ rt' = [rt EXCEPT !.stack = TRUE]
    /\ warm' = IF Configured > 1 THEN [NoWarm EXCEPT !.pc = "run"] ELSE warm
    /\ UNCHANGED <<mux, kind, router, cont, watchers, change, tails, closing, budget, lost, late>>

-----------------------------------------------------------------------------
(* The routers *)

addRoute(s, standby) ==
    [router EXCEPT !.routes = Put(@, router.next, [s |-> s, standby |-> standby]),
                   !.next = @ + 1]
RouterFull == Cardinality(DOMAIN router.routes) >= 3
AddRouteFails == Cardinality(DOMAIN cont) >= 3 \/ router.next \in DOMAIN cont

\* removeRoute keeps the route that is active.
removeRoute(ro, id) ==
    IF id = ro.active THEN ro ELSE [ro EXCEPT !.routes = Drop(@, {id})]

\* Promote installs the route as it stands in the table, no longer on standby.
Promote(ro, id) == [ro EXCEPT !.active = id, !.routes[id].standby = FALSE]

switchRoute(s) == [active |-> 1, routes |-> (1 :> [s |-> s, standby |-> FALSE]), next |-> 2]

-----------------------------------------------------------------------------
(* runCarrierPool *)

\* One round of the loop: reconcileCarrierPool asks warmCarrierPool for one, two or three carriers
\* by the load.  During a migration warmCarrierPool refuses and the round is repeated.
WarmRound ==
    /\ warm.pc = "run" /\ ~rt.closed /\ ~rt.migrating /\ \A t \in tails : t.by # "pool"
    /\ \E desired \in (IF rt.target > 1 THEN {2} ELSE {1}) \cup (IF rt.target > 2 THEN {3} ELSE {}) :
          warm' = [warm EXCEPT !.pc = "loop", !.target = Min({desired, rt.target})]
    /\ UNCHANGED <<mux, kind, rt, router, cont, watchers, change, tails, closing, budget, lost, late>>

\* The pool goroutine returns once Close cancelled poolContext.
WarmEnds ==
    /\ warm.pc \in {"run", "loop", "connect"} /\ rt.closed
    /\ warm' = NoWarm
    /\ UNCHANGED <<mux, kind, rt, router, cont, watchers, change, tails, closing, budget, lost, late>>

WarmLoop ==
    /\ warm.pc = "loop" /\ ~rt.closed
    /\ warm' = IF 1 + Cardinality(DOMAIN rt.pool) >= warm.target
               THEN [warm EXCEPT !.pc = "run", !.target = 0]
               ELSE [warm EXCEPT !.pc = "connect", !.carrier = rt.carrier]
    /\ UNCHANGED <<mux, kind, rt, router, cont, watchers, change, tails, closing, budget, lost, late>>

\* connectFast, connectCompatibility or connect; the fallback makes every kind possible.
WarmConnect ==
    /\ warm.pc = "connect"
    /\ \/ \E s \in Fresh, k \in Kinds :
            Connects(s, k) /\ warm' = [warm EXCEPT !.pc = "connected", !.cand = s]
       \/ warm' = [NoWarm EXCEPT !.pc = "run"] /\ UNCHANGED <<mux, kind>>
    /\ UNCHANGED <<rt, router, cont, watchers, change, tails, closing, budget, lost, late>>

\* Mutation: a refused candidate is not closed.
WarmRefusedOpen ==
    /\ warm' = [NoWarm EXCEPT !.pc = "run"]
    /\ UNCHANGED <<mux, kind, rt, router, cont, watchers, change, tails, closing, budget, lost, late>>

\* Every refusal of a connected candidate closes it.
WarmRefused ==
    /\ Closes({warm.cand})
    /\ warm' = [NoWarm EXCEPT !.pc = "run"]
    /\ UNCHANGED <<kind, rt, router, cont, watchers, change, tails, closing, budget, lost, late>>

Better(s) == carrierPriority(kind[s]) > carrierPriority(warm.carrier)

\* promoteWarmCandidate: the better carrier becomes primary and the old primary a standby pool
\* member that keeps its route.
promoteWarmCandidate ==
    /\ warm.pc = "connected" /\ Better(warm.cand)
    /\ LET id == router.next
           s == warm.cand
       IN IF rt.closed \/ rt.migrating \/ rt.carrier # warm.carrier \/ RouterFull \/ AddRouteFails
             \/ rt.route \notin DOMAIN cont
          THEN WarmRefused
          ELSE /\ router' = [Promote(addRoute(s, TRUE), id)
                               EXCEPT !.routes[rt.route].standby = TRUE]
               /\ cont' = Put([cont EXCEPT ![rt.route].standby = TRUE], id,
                              [s |-> s, standby |-> FALSE])
               /\ rt' = [rt EXCEPT !.gen = @ + 1, !.session = s, !.route = id,
                                   !.pool = Put(@, rt.route, rt.session),
                                   !.carrier = kind[s], !.target = carrierPoolTarget(kind[s]),
                                   !.pending = FALSE]
               /\ watchers' = watchers \cup {Watcher("session", rt.gen + 1, s),
                                             Watcher("pool", rt.route, rt.session)}
               /\ warm' = [NoWarm EXCEPT !.pc = "run"]
               /\ UNCHANGED <<mux, kind, change, tails, closing, budget, lost, late>>

\* The tail of warmCarrierPool: the candidate joins the pool, and the loop goes on.
WarmAdmit ==
    /\ warm.pc = "connected" /\ ~Better(warm.cand)
    /\ LET id == router.next
           s == warm.cand
           standby == warm.carrier # "https"
       IN IF \/ standby /\ kind[s] = warm.carrier
             \/ rt.closed \/ rt.migrating \/ rt.carrier # warm.carrier \/ rt.target < warm.target
             \/ RouterFull \/ AddRouteFails
          THEN WarmRefused
          ELSE /\ router' = addRoute(s, standby)
               /\ cont' = Put(cont, id, [s |-> s, standby |-> standby])
               /\ rt' = [rt EXCEPT !.pool = Put(@, id, s)]
               /\ watchers' = watchers \cup {Watcher("pool", id, s)}
               /\ warm' = [warm EXCEPT !.pc = "loop", !.cand = NoCarrier]
               /\ UNCHANGED <<mux, kind, change, tails, closing, budget, lost, late>>

Withdrawal(by, id, s) == [by |-> by, id |-> id, s |-> s, pc |-> "cont"]

\* retireIdlePoolMember: an idle member of a pool of two leaves it.
retireIdlePoolMember ==
    /\ warm.pc = "run" /\ ~rt.closed /\ Cardinality(DOMAIN rt.pool) > 1
    /\ \A t \in tails : t.by # "pool"
    /\ \E id \in DOMAIN rt.pool :
          /\ rt' = [rt EXCEPT !.pool = Drop(@, {id})]
          /\ tails' = tails \cup {Withdrawal("pool", id, rt.pool[id])}
    /\ UNCHANGED <<mux, kind, router, cont, watchers, warm, change, closing, budget, lost, late>>

-----------------------------------------------------------------------------
(* Watchers, and the withdrawals they start *)

Ended(s) == mux[s] \in {"dead", "closed"}

Healthy == {id \in DOMAIN rt.pool : mux[rt.pool[id]] = "open"}

Promotable(w) ==
    /\ ~rt.closed /\ ~rt.migrating /\ w.key = rt.gen /\ w.s = rt.session /\ Healthy # {}
    /\ Min(Healthy) \in DOMAIN router.routes

\* promoteWarmCarrier: the oldest healthy pool member takes the place of the dead primary.  When
\* the continuity router does not know its route the promotion is given up after Promote.
promoteWarmCarrier(w) ==
    /\ w \in watchers /\ w.role = "session" /\ w.pc = "wait" /\ Ended(w.s) /\ Promotable(w)
    /\ LET id == Min(Healthy)
           s == rt.pool[id]
       IN /\ router' = Promote(router, id)
          /\ IF id \notin DOMAIN cont
             THEN /\ watchers' = (watchers \ {w}) \cup {[w EXCEPT !.pc = "term"]}
                  /\ UNCHANGED <<rt, cont, tails>>
             ELSE /\ cont' = [cont EXCEPT ![id].standby = FALSE]
                  /\ rt' = [rt EXCEPT !.pool = Drop(@, {id}), !.gen = @ + 1, !.session = s,
                                      !.route = id, !.pending = FALSE, !.carrier = kind[s],
                                      !.target = carrierPoolTarget(kind[s])]
                  /\ tails' = tails \cup {Withdrawal("watch", rt.route, w.s)}
                  /\ watchers' = (watchers \ {w}) \cup {Watcher("session", rt.gen + 1, s)}
    /\ UNCHANGED <<mux, kind, warm, change, closing, budget, lost, late>>

\* promoteWarmCarrier returned false; r.mu was released in between.
NotPromoted(w) ==
    /\ w \in watchers /\ w.role = "session" /\ w.pc = "wait" /\ Ended(w.s) /\ ~Promotable(w)
    /\ watchers' = (watchers \ {w}) \cup {[w EXCEPT !.pc = "term"]}
    /\ UNCHANGED <<mux, kind, rt, router, cont, warm, change, tails, closing, budget, lost, late>>

\* Mutation: an end seen during a migration is forgotten.
watchSessionForgets(w) ==
    /\ w \in watchers /\ w.role = "session" /\ w.pc = "term"
    /\ watchers' = watchers \ {w}
    /\ rt' = IF rt.closed \/ w.key # rt.gen \/ w.s # rt.session \/ rt.migrating THEN rt
             ELSE [rt EXCEPT !.done = TRUE]
    /\ UNCHANGED <<mux, kind, router, cont, warm, change, tails, closing, budget, lost, late>>

\* The rest of watchSession: the end of the primary ends the runtime, or waits for the migration.
watchSession(w) ==
    /\ w \in watchers /\ w.role = "session" /\ w.pc = "term"
    /\ watchers' = watchers \ {w}
    /\ rt' = IF rt.closed \/ w.key # rt.gen \/ w.s # rt.session THEN rt
             ELSE IF rt.migrating THEN [rt EXCEPT !.pending = TRUE]
             ELSE [rt EXCEPT !.done = TRUE]
    /\ UNCHANGED <<mux, kind, router, cont, warm, change, tails, closing, budget, lost, late>>

watchPoolSession(w) ==
    /\ w \in watchers /\ w.role = "pool" /\ Ended(w.s)
    /\ watchers' = watchers \ {w}
    /\ IF w.key \in DOMAIN rt.pool /\ rt.pool[w.key] = w.s
       THEN /\ rt' = [rt EXCEPT !.pool = Drop(@, {w.key})]
            /\ tails' = tails \cup {Withdrawal("watch", w.key, w.s)}
       ELSE UNCHANGED <<rt, tails>>
    /\ UNCHANGED <<mux, kind, router, cont, warm, change, closing, budget, lost, late>>

\* continuityRouter.RemoveRoute, after which router.Remove and the two Close follow.
RemoveRoute(t) ==
    /\ t \in tails /\ t.pc = "cont"
    /\ cont' = Drop(cont, {t.id})
    /\ tails' = (tails \ {t}) \cup {[t EXCEPT !.pc = "router"]}
    /\ UNCHANGED <<mux, kind, rt, router, watchers, warm, change, closing, budget, lost, late>>

RemoveAndClose(t) ==
    /\ t \in tails /\ t.pc = "router"
    /\ router' = removeRoute(router, t.id)
    /\ tails' = tails \ {t}
    /\ Closes({t.s})
    /\ UNCHANGED <<kind, rt, cont, watchers, warm, change, closing, budget, lost, late>>

-----------------------------------------------------------------------------
(* NetworkChanged *)

NetworkChanged ==
    /\ change.pc = "idle" /\ rt.stack /\ ~rt.closed /\ ~rt.migrating /\ budget.change > 0
    /\ budget' = [budget EXCEPT !.change = @ - 1]
    /\ rt' = [rt EXCEPT !.migrating = TRUE, !.pending = FALSE]
    /\ change' = [pc |-> "probe", gen |-> rt.gen, current |-> rt.session, cand |-> NoCarrier]
    /\ UNCHANGED <<mux, kind, router, cont, watchers, warm, tails, closing, lost, late>>

\* Ping: an answer needs a living carrier; a timeout is always possible.
Probe ==
    /\ change.pc = "probe"
    /\ \E next \in {"connect"} \cup (IF mux[change.current] = "open" THEN {"native"} ELSE {}) :
          change' = [change EXCEPT !.pc = next]
    /\ UNCHANGED <<mux, kind, rt, router, cont, watchers, warm, tails, closing, budget, lost, late>>

Unchanged == ~rt.closed /\ rt.gen = change.gen /\ rt.session = change.current

\* The probe succeeded: the path is kept.
NativePath ==
    /\ change.pc = "native"
    /\ change' = NoChange
    /\ rt' = IF Unchanged THEN [rt EXCEPT !.migrating = FALSE, !.pending = FALSE] ELSE rt
    /\ lost' = (lost \/ (Unchanged /\ rt.pending))
    /\ UNCHANGED <<mux, kind, router, cont, watchers, warm, tails, closing, budget, late>>

Reconnect ==
    /\ change.pc = "connect"
    /\ \/ \E s \in Fresh, k \in Kinds :
            Connects(s, k) /\ change' = [change EXCEPT !.pc = "switch", !.cand = s]
       \/ change' = [change EXCEPT !.pc = "failed"] /\ UNCHANGED <<mux, kind>>
    /\ UNCHANGED <<rt, router, cont, watchers, warm, tails, closing, budget, lost, late>>

finishMigrationFailure ==
    /\ change.pc = "failed"
    /\ change' = NoChange
    /\ rt' = IF ~Unchanged THEN rt
             ELSE [rt EXCEPT !.migrating = FALSE, !.done = @ \/ rt.pending]
    /\ UNCHANGED <<mux, kind, router, cont, watchers, warm, tails, closing, budget, lost, late>>

\* The replacement takes over: both routers switch to it, and the old primary and the whole pool
\* are retired and drained.
Switch ==
    /\ change.pc = "switch"
    /\ change' = NoChange
    /\ LET s == change.cand IN
       IF ~Unchanged
       THEN /\ Closes({s})
            /\ rt' = [rt EXCEPT !.migrating = FALSE]
            /\ UNCHANGED <<router, cont, watchers, late>>
       ELSE /\ router' = switchRoute(s)
            /\ cont' = (1 :> [s |-> s, standby |-> FALSE])
            /\ rt' = [rt EXCEPT !.retired = @ \cup {rt.session} \cup Range(rt.pool),
                                !.pool = Empty, !.gen = @ + 1, !.session = s, !.route = 1,
                                !.carrier = kind[s], !.target = carrierPoolTarget(kind[s]),
                                !.migrating = FALSE, !.pending = FALSE]
            /\ watchers' = watchers \cup {Watcher("session", rt.gen + 1, s)}
            /\ late' = late \cup {t.id : t \in tails}
            /\ UNCHANGED mux
    /\ UNCHANGED <<kind, warm, tails, closing, budget, lost>>

\* A retired session whose streams ended, or whose time is over, is closed.
drainRetiredSession(s) ==
    /\ s \in rt.retired /\ mux[s] # "closed"
    /\ Closes({s})
    /\ rt' = IF rt.done THEN rt ELSE [rt EXCEPT !.retired = @ \ {s}]
    /\ UNCHANGED <<kind, router, cont, watchers, warm, change, tails, closing, budget, lost, late>>

-----------------------------------------------------------------------------
(* Close *)

Close ==
    /\ ~rt.closed
    /\ rt' = [rt EXCEPT !.closed = TRUE, !.done = TRUE, !.pool = Empty]
    /\ closing' = {rt.session} \cup Range(rt.pool) \cup rt.retired
    /\ UNCHANGED <<mux, kind, router, cont, watchers, warm, change, tails, budget, lost, late>>

CloseSessions ==
    /\ closing # {}
    /\ Closes(closing)
    /\ closing' = {}
    /\ UNCHANGED <<kind, rt, router, cont, watchers, warm, change, tails, budget, lost, late>>

\* Every goroutine that Close leaves behind has returned.
RuntimeStopped ==
    /\ rt.closed /\ warm.pc = "off" /\ change.pc = "idle"
    /\ tails = {} /\ closing = {} /\ watchers = {}
    /\ UNCHANGED runtimeVars

PoolSteps == WarmRound \/ WarmEnds \/ WarmLoop \/ WarmConnect \/ promoteWarmCandidate \/ WarmAdmit

ChangeSteps == Probe \/ NativePath \/ Reconnect \/ finishMigrationFailure \/ Switch

WatchSteps ==
    \/ \E w \in watchers :
          promoteWarmCarrier(w) \/ NotPromoted(w) \/ watchSession(w) \/ watchPoolSession(w)
    \/ \E t \in tails : RemoveRoute(t) \/ RemoveAndClose(t)

RuntimeNext ==
    \/ \E s \in Carriers : Die(s)
    \/ StartTunnel
    \/ PoolSteps
    \/ retireIdlePoolMember
    \/ NetworkChanged
    \/ ChangeSteps
    \/ WatchSteps
    \/ \E s \in rt.retired : drainRetiredSession(s)
    \/ Close
    \/ CloseSessions
    \/ RuntimeStopped

-----------------------------------------------------------------------------
(* Properties *)

Owners(s) ==
    (IF s = rt.session /\ ~rt.closed THEN {"primary"} ELSE {})
    \cup {<<"pool", id>> : id \in {i \in DOMAIN rt.pool : rt.pool[i] = s}}
    \cup (IF s \in rt.retired THEN {"retired"} ELSE {})
    \cup (IF s = warm.cand \/ s = change.cand THEN {"candidate"} ELSE {})
    \cup {<<"tail", t.id>> : t \in {u \in tails : u.s = s}}
    \cup (IF s \in closing THEN {"closing"} ELSE {})

\* Every open session has exactly one owner that will close it: it is the primary, a member of the
\* pool, retired, a candidate, or being withdrawn or closed.  No promotion, migration or shutdown
\* of np2Runtime drops a session or keeps it in two roles.
OneOwner ==
    \A s \in Carriers : mux[s] = "open" =>
        Cardinality(Owners(s) \ (IF s \in closing THEN {"retired"} ELSE {})) = 1

Served == Put(rt.pool, rt.route, rt.session)

\* While no withdrawal is under way, both routers hold exactly the primary and the pool, under the
\* ids the runtime knows, and new flows go to the primary.  (Switch starts the ids again at 1: a
\* withdrawal that was delayed across it can hit the new route of that id, so ids in late are out.)
RoutersFollowRuntime ==
    (~rt.closed /\ tails = {} /\ late = {}) =>
        /\ router.active = rt.route
        /\ [id \in DOMAIN router.routes |-> router.routes[id].s] = Served
        /\ [id \in DOMAIN cont |-> cont[id].s] = Served
        /\ ~cont[rt.route].standby /\ ~router.routes[rt.route].standby

\* A dead primary does not stay: it is replaced, or the runtime ends and monitor sees it.  (A death
\* reported between a successful probe and its bookkeeping is dropped: lost.)
DeathIsNoticed ==
    (mux[rt.session] = "dead") ~> (mux[rt.session] # "dead" \/ rt.done \/ lost)

\* The roles of the sessions and both routers agree, through every promotion, migration and
\* shutdown of np2Runtime.
PoolIsConsistent == OneOwner /\ RoutersFollowRuntime
=============================================================================
