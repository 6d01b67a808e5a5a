---------------------------- MODULE WindowsClient ----------------------------
(***************************************************************************)
(* The Windows service: Controller (internal/windowsclient/controller.go)  *)
(* over WindowsBackend (backend_windows.go) over WindowsRouteManager       *)
(* (routes_windows.go), and the process that holds them                    *)
(* (cmd/neproto-windows-service).                                          *)
(*                                                                         *)
(* Each Controller.Connect starts a goroutine that runs Backend.Connect;   *)
(* call[i] is the i-th one.  Disconnect does not wait for it, so the tail  *)
(* of a cancelled call runs beside the next one.  A route plan is the set  *)
(* of the routes its rollback removes; {} stands for no plan.  The routes  *)
(* live in the operating system and the journal on disk: both outlive the  *)
(* process, everything else dies with it.                                  *)
(***************************************************************************)
EXTENDS Integers, FiniteSets

CONSTANTS
    MaxConnectCalls,    \* bound: calls of Controller.Connect
    MaxCrashes          \* bound: ends of the service process

Calls == 1 .. MaxConnectCalls
NoOne == 0

Endpoints == {"endpoint"}               \* host routes to the servers
Full == {"endpoint", "tunnel"}          \* and the adapter with the default routes

VARIABLES
    ui,         \* Controller: state, generation, the call c.cancel cancels
    backend,    \* WindowsBackend: core and endpoint, connecting, generation, recoveryErr # nil
    call,       \* call[i]: the i-th Backend.Connect
    disconnect, \* Controller.Disconnect under way
    cleaning,   \* the background cleanup of startRouteCleanup runs
    active,     \* WindowsRouteManager.active
    holder,     \* the call inside a script run of the route manager, which keeps m.mu
    journal,    \* the journal file
    routes,     \* routes of ours in the system's table
    crashes,
    struck      \* history: the tail of an older call removed what a newer call had set up

windowsVars == <<ui, backend, call, disconnect, cleaning, active, holder, journal, routes,
                 crashes, struck>>

NoConnectCall == [pc |-> "new", gen |-> 0, backendGen |-> 0, cancelled |-> FALSE, core |-> "none",
                  waits |-> FALSE]
NewUI == [state |-> "stopped", gen |-> 0, cancel |-> NoOne]
NewBackend(err) == [core |-> NoOne, connecting |-> FALSE, gen |-> 0, recoveryErr |-> err]

WindowsInit ==
    /\ ui = NewUI /\ backend = NewBackend(FALSE)
    /\ call = [i \in Calls |-> NoConnectCall]
    /\ disconnect = "idle" /\ cleaning = FALSE
    /\ active = {} /\ holder = NoOne /\ journal = {} /\ routes = {}
    /\ crashes = 0 /\ struck = FALSE

Running(i) == call[i].pc \notin {"new", "done"}
To(i, pc) == call' = [call EXCEPT ![i].pc = pc]
RoutesUnchanged == UNCHANGED <<active, holder, journal, routes>>

-----------------------------------------------------------------------------
(* WindowsRouteManager *)

\* The rollback script of plan ran: the plan is dropped; removing the journal may fail unnoticed.
rollbackLocked(plan) ==
    /\ routes' = routes \ plan
    /\ active' = {}
    /\ journal' \in {{}, journal}

\* It failed part way: plan and journal are kept for a retry.
rollbackFails(plan) ==
    /\ \E done \in SUBSET (routes \cap plan) : routes' = routes \ done
    /\ active' = plan
    /\ UNCHANGED journal

\* An apply script failed part way and rollbackFailedApplyLocked took over.
rollbackFailedApplyLocked(plan) ==
    \E applied \in SUBSET plan :
        \/ routes' = (routes \cup applied) \ plan /\ active' = {} /\ journal' \in {{}, journal}
        \/ routes' = routes \cup applied /\ active' = plan /\ UNCHANGED journal

\* Mutation: the journal holds the plan that is active, not the one about to be applied.
writeJournalLockedActive(plan) == journal' = active

\* The whole rollback is on disk before the first route of plan is added.
writeJournalLocked(plan) == journal' = plan

\* Cleanup takes the plan in memory, or else the one in the journal.
Plan == IF active # {} THEN active ELSE journal

Cleanup(ok) ==
    /\ holder = NoOne
    /\ IF Plan = {} THEN ok /\ UNCHANGED <<active, journal, routes>>
       ELSE IF ok THEN rollbackLocked(Plan) ELSE rollbackFails(Plan)

\* Recover reads the journal; on failure m.active keeps its value.
Recover(ok) ==
    /\ holder = NoOne
    /\ IF journal = {} THEN ok /\ UNCHANGED <<active, journal, routes>>
       ELSE IF ok THEN rollbackLocked(journal)
            ELSE /\ \E done \in SUBSET (routes \cap journal) : routes' = routes \ done
                 /\ UNCHANGED <<active, journal>>

\* A call newer than i runs or has succeeded.
Overtaken(i) == backend.core > i \/ \E j \in Calls : j > i /\ Running(j)

-----------------------------------------------------------------------------
(* Controller.Connect *)

\* SetRoutes refuses while the backend is connecting or connected.
SetRoutes == ~backend.connecting /\ backend.core = NoOne

Connect(i) ==
    /\ call[i].pc = "new" /\ \A j \in 1 .. i - 1 : call[j].pc # "new"
    /\ SetRoutes
    /\ ui.state \in {"stopped", "failed"}
    /\ ui' = [state |-> "connecting", gen |-> ui.gen + 1, cancel |-> i]
    /\ call' = [call EXCEPT ![i].pc = "enter", ![i].gen = ui.gen + 1]
    /\ RoutesUnchanged /\ UNCHANGED <<backend, disconnect, cleaning, crashes, struck>>

\* The goroutine, once Backend.Connect has returned.
Returned(i) ==
    /\ call[i].pc \in {"ok", "failed"}
    /\ IF ui.gen # call[i].gen \/ ui.state # "connecting"
       THEN To(i, IF call[i].pc = "ok" THEN "undo" ELSE "done") /\ UNCHANGED ui
       ELSE /\ To(i, "done")
            /\ ui' = [ui EXCEPT !.cancel = NoOne,
                                !.state = IF call[i].pc = "ok" THEN "connected" ELSE "failed"]
    /\ RoutesUnchanged /\ UNCHANGED <<backend, disconnect, cleaning, crashes, struck>>

-----------------------------------------------------------------------------
(* WindowsBackend.Connect *)

\* The deferred reset of connecting, with the return of call i.
Released(i) == [backend EXCEPT !.connecting = @ /\ backend.gen # call[i].backendGen]

Enter(i) ==
    /\ call[i].pc = "enter"
    /\ IF backend.core # NoOne \/ backend.connecting
       THEN To(i, "failed") /\ UNCHANGED backend
       ELSE /\ backend' = [backend EXCEPT !.connecting = TRUE, !.gen = @ + 1]
            /\ call' = [call EXCEPT ![i].pc = "wait", ![i].backendGen = backend.gen + 1,
                                    ![i].waits = cleaning]
    /\ RoutesUnchanged /\ UNCHANGED <<ui, disconnect, cleaning, crashes, struck>>

\* WaitForCleanup, the context check, and the reading of recoveryErr.
WaitForCleanup(i) ==
    /\ call[i].pc = "wait" /\ (~call[i].waits \/ call[i].cancelled)
    /\ IF call[i].cancelled
       THEN To(i, "failed") /\ backend' = Released(i)
       ELSE To(i, IF backend.recoveryErr THEN "recover" ELSE "prepare") /\ UNCHANGED backend
    /\ RoutesUnchanged /\ UNCHANGED <<ui, disconnect, cleaning, crashes, struck>>

ensureRoutesRecovered(i) ==
    /\ call[i].pc = "recover"
    /\ \E ok \in BOOLEAN :
          /\ ok => ~call[i].cancelled \/ journal = {}
          /\ Recover(ok)
          /\ To(i, IF ok THEN "recovered" ELSE "unrecovered")
    /\ struck' = (struck \/ (Overtaken(i) /\ routes' # routes))
    /\ UNCHANGED <<ui, backend, disconnect, cleaning, holder, crashes>>

\* recoveryErr is stored under a lock taken again; the context is checked and the profile parsed.
RecoveryStored(i) ==
    /\ call[i].pc \in {"recovered", "unrecovered"}
    /\ LET stored == [backend EXCEPT !.recoveryErr = (call[i].pc = "unrecovered")] IN
       \/ /\ call[i].pc = "recovered" /\ ~call[i].cancelled
          /\ To(i, "prepare") /\ backend' = stored
       \/ /\ To(i, "failed")
          /\ backend' = [stored EXCEPT !.connecting = @ /\ backend.gen # call[i].backendGen]
    /\ RoutesUnchanged /\ UNCHANGED <<ui, disconnect, cleaning, crashes, struck>>

\* PrepareEndpoints up to its script: refused over an active plan, or discovery or the journal failed.
PrepareEndpoints(i) ==
    /\ call[i].pc = "prepare" /\ holder = NoOne
    /\ \/ To(i, "cleanup") /\ UNCHANGED <<holder, journal>>
       \/ /\ active = {} /\ ~call[i].cancelled
          /\ writeJournalLocked(Endpoints) /\ holder' = i
          /\ To(i, "endpoints")
    /\ UNCHANGED <<ui, backend, disconnect, cleaning, active, routes, crashes, struck>>

\* Its script.
EndpointsApplied(i) ==
    /\ call[i].pc = "endpoints"
    /\ holder' = NoOne
    /\ \/ /\ ~call[i].cancelled
          /\ routes' = routes \cup Endpoints /\ active' = Endpoints /\ UNCHANGED journal
          /\ To(i, "dial")
       \/ rollbackFailedApplyLocked(Endpoints) /\ To(i, "cleanup")
    /\ UNCHANGED <<ui, backend, disconnect, cleaning, crashes, struck>>

\* core.Connect, SetClientRoutesJSON and the checks of the runtime snapshot.
Dial(i) ==
    /\ call[i].pc = "dial"
    /\ \/ call' = [call EXCEPT ![i].pc = "connected", ![i].core = "open"]
       \/ call' = [call EXCEPT ![i].pc = "cleanup", ![i].core = "closed"]
    /\ RoutesUnchanged /\ UNCHANGED <<ui, backend, disconnect, cleaning, crashes, struck>>

\* fail: the core is closed first, then the routes are cleaned up.
Fail(i) == call' = [call EXCEPT ![i].pc = "cleanup", ![i].core = "closed"]

\* The adapter, then ActivateTunnel up to its script; the journal covers both parts beforehand.
ActivateTunnel(i) ==
    /\ call[i].pc = "connected" /\ holder = NoOne
    /\ \/ Fail(i) /\ UNCHANGED <<holder, journal>>
       \/ /\ ~call[i].cancelled /\ active = Endpoints
          /\ writeJournalLocked(Full) /\ holder' = i
          /\ To(i, "tunnel")
    /\ UNCHANGED <<ui, backend, disconnect, cleaning, active, routes, crashes, struck>>

TunnelApplied(i) ==
    /\ call[i].pc = "tunnel"
    /\ holder' = NoOne
    /\ \/ /\ ~call[i].cancelled
          /\ routes' = routes \cup Full /\ active' = Full /\ UNCHANGED journal
          /\ To(i, "publish")
       \/ rollbackFailedApplyLocked(Full) /\ Fail(i)
    /\ UNCHANGED <<ui, backend, disconnect, cleaning, crashes, struck>>

\* AttachPacketDevice, then core and endpoint are stored unless Disconnect came in between.
Publish(i) ==
    /\ call[i].pc = "publish"
    /\ \/ Fail(i) /\ UNCHANGED backend
       \/ LET stale == backend.gen # call[i].backendGen \/ ~backend.connecting IN
          /\ backend' = IF stale THEN backend
                        ELSE [backend EXCEPT !.core = i, !.connecting = call[i].cancelled]
          /\ IF stale \/ call[i].cancelled THEN Fail(i) ELSE To(i, "ok")
    /\ RoutesUnchanged /\ UNCHANGED <<ui, disconnect, cleaning, crashes, struck>>

\* cleanupPrepared, which every failure after PrepareEndpoints runs, and the return.
cleanupPrepared(i) ==
    /\ call[i].pc = "cleanup"
    /\ \E ok \in BOOLEAN :
          /\ Cleanup(ok)
          /\ backend' = [Released(i) EXCEPT !.recoveryErr = @ \/ ~ok]
    /\ To(i, "failed")
    /\ struck' = (struck \/ (Overtaken(i) /\ routes' # routes))
    /\ UNCHANGED <<ui, disconnect, cleaning, holder, crashes>>

-----------------------------------------------------------------------------
(* Disconnect *)

\* WindowsBackend.Disconnect up to startRouteCleanup.
Disconnected == [backend EXCEPT !.gen = @ + 1, !.connecting = FALSE, !.core = NoOne]
CoreClosed == IF backend.core = NoOne THEN call
              ELSE [call EXCEPT ![backend.core].core = "closed"]

\* Controller.Disconnect: the state, then the cancellation of the call under way.
Disconnect ==
    /\ ui.state \notin {"stopped", "disconnecting"}
    /\ ui' = [state |-> "disconnecting", gen |-> ui.gen + 1, cancel |-> NoOne]
    /\ call' = IF ui.cancel = NoOne THEN call ELSE [call EXCEPT ![ui.cancel].cancelled = TRUE]
    /\ disconnect' = "backend"
    /\ RoutesUnchanged /\ UNCHANGED <<backend, cleaning, crashes, struck>>

BackendDisconnect ==
    /\ disconnect = "backend"
    /\ backend' = Disconnected /\ call' = CoreClosed
    /\ disconnect' \in {"stopped"} \cup (IF backend.core = NoOne THEN {} ELSE {"failed"})
    /\ RoutesUnchanged /\ UNCHANGED <<ui, cleaning, crashes, struck>>

\* startRouteCleanup, which joins a cleanup that runs; then the final state.
ControllerDisconnected ==
    /\ disconnect \in {"stopped", "failed"}
    /\ cleaning' = TRUE
    /\ ui' = [ui EXCEPT !.state = disconnect]
    /\ disconnect' = "idle"
    /\ RoutesUnchanged /\ UNCHANGED <<backend, call, crashes, struck>>

\* A goroutine that lost its generation after a success disconnects the backend.
Undo(i) ==
    /\ call[i].pc = "undo"
    /\ backend' = Disconnected
    /\ call' = [CoreClosed EXCEPT ![i].pc = "undone"]
    /\ struck' = (struck \/ backend.core \notin {NoOne, i} \/ backend.connecting)
    /\ RoutesUnchanged /\ UNCHANGED <<ui, disconnect, cleaning, crashes>>

Undone(i) ==
    /\ call[i].pc = "undone"
    /\ cleaning' = TRUE /\ To(i, "done")
    /\ struck' = (struck \/ Overtaken(i))
    /\ RoutesUnchanged /\ UNCHANGED <<ui, backend, disconnect, crashes>>

\* The background goroutine: Cleanup, the error, and close(done).
startRouteCleanup ==
    /\ cleaning
    /\ \E ok \in BOOLEAN :
          /\ Cleanup(ok)
          /\ backend' = [backend EXCEPT !.recoveryErr = @ \/ ~ok]
    /\ cleaning' = FALSE
    /\ call' = [i \in Calls |-> [call[i] EXCEPT !.waits = FALSE]]
    /\ UNCHANGED <<ui, disconnect, holder, crashes, struck>>

-----------------------------------------------------------------------------
(* The process *)

\* The service ends, by Shutdown or not, possibly inside a script, and is started again:
\* RecoverForStartup rolls the journal back, or leaves its error to the next connect.
Restart ==
    /\ crashes < MaxCrashes /\ crashes' = crashes + 1
    /\ \E applied \in SUBSET (IF holder = NoOne THEN {} ELSE journal), ok \in BOOLEAN :
          LET left == routes \cup applied IN
          /\ journal = {} => ok
          /\ IF ok THEN routes' = left \ journal /\ journal' \in {{}, journal}
             ELSE routes' \in {left \ done : done \in SUBSET (left \cap journal)}
                  /\ UNCHANGED journal
          /\ backend' = NewBackend(~ok)
    /\ ui' = NewUI /\ active' = {} /\ holder' = NoOne
    /\ call' = [i \in Calls |-> IF call[i].pc = "new" THEN call[i]
                                ELSE [NoConnectCall EXCEPT !.pc = "done"]]
    /\ disconnect' = "idle" /\ cleaning' = FALSE
    /\ UNCHANGED struck

WindowsNext ==
    \/ \E i \in Calls :
          \/ Connect(i) \/ Enter(i) \/ WaitForCleanup(i) \/ ensureRoutesRecovered(i)
          \/ RecoveryStored(i) \/ PrepareEndpoints(i) \/ EndpointsApplied(i) \/ Dial(i)
          \/ ActivateTunnel(i) \/ TunnelApplied(i) \/ Publish(i) \/ cleanupPrepared(i)
          \/ Returned(i) \/ Undo(i) \/ Undone(i)
    \/ Disconnect \/ BackendDisconnect \/ ControllerDisconnected \/ startRouteCleanup
    \/ Restart

-----------------------------------------------------------------------------
(* Properties *)

\* Every route of ours in the system's table is named by the journal on disk, at every moment, so
\* that a process that dies anywhere, inside a script included, leaves nothing it cannot remove; and
\* once no call and no cleanup runs, the backend knows of what is left: recoveryErr or the active
\* plan makes the next Connect remove it before it adds its own.
JournalCoversRoutes ==
    /\ routes \subseteq journal
    /\ (\A i \in Calls : ~Running(i)) /\ ~cleaning /\ backend.core = NoOne /\ disconnect = "idle"
          /\ routes # {}
       => backend.recoveryErr \/ active # {}

\* The state "connected" is backed by the open core of the last call and by all its routes,
\* whatever cleanups older calls left behind.  (The tail of a cancelled call that is slower than
\* the whole next connect removes the routes of the newer one; struck records it.)
ConnectedIsBacked ==
    ui.state = "connected" /\ ~struck =>
        /\ backend.core # NoOne /\ call[backend.core].core = "open"
        /\ routes = Full /\ ~cleaning

\* The journal, the backend and the reported state agree with the routing table whatever calls,
\* cleanups and restarts overlap (routes_windows.go, backend_windows.go).
RoutesAreRecoverable == JournalCoversRoutes /\ ConnectedIsBacked
=============================================================================
