-------------------------- MODULE MobileController --------------------------
(***************************************************************************)
(* The controller of mobile/np2mobile/controller.go: the process-wide      *)
(* object behind Start, StartPacketTunnel, NetworkChanged and Stop.  Each  *)
(* call of start is one generation with its own context and, once the      *)
(* connector returns, its own runtime; both are named by the number of the *)
(* call.  A runtime is seen through the mobileRuntime interface only: it   *)
(* is open, it ended (Wait returns), or it was closed.                     *)
(*                                                                         *)
(* start, startTunnel (and startTunnelDevice) and networkChanged release   *)
(* c.mu while they wait, and stop closes the runtime in a goroutine, so    *)
(* each is split at those points.                                          *)
(***************************************************************************)
EXTENDS Integers, FiniteSets

CONSTANTS
    MaxStarts,          \* bound: calls of start
    MaxCalls            \* bound: calls of startTunnel and of networkChanged

Starts == 1 .. MaxStarts
NoStart == 0

VARIABLES
    ctl,      \* controller: state, generation, cancel, runtime
    start,    \* start[i]: the i-th call of start, its context and its connector goroutine
    runtime,  \* runtime[i]: what that connector returned
    monitors, \* the calls whose monitor goroutine runs
    tunnel,   \* the startTunnel call under way
    migration,\* the networkChanged call under way
    stops,    \* tails of stop: the context to cancel, the runtime to close
    calls,    \* calls still allowed
    unread    \* history: start calls that gave up before the connector returned

controllerVars == <<ctl, start, runtime, monitors, tunnel, migration, stops, calls, unread>>

Active == {"starting", "connected", "running", "migrating"}
NoCall == [pc |-> "idle", i |-> NoStart, gen |-> 0]

ControllerInit ==
    /\ ctl = [state |-> "stopped", gen |-> 0, cancel |-> NoStart, runtime |-> NoStart]
    /\ start = [i \in Starts |-> [pc |-> "new", gen |-> 0, cancelled |-> FALSE, result |-> "none"]]
    /\ runtime = [i \in Starts |-> "none"]
    /\ monitors = {} /\ tunnel = NoCall /\ migration = NoCall /\ stops = {}
    /\ calls = [tunnel |-> MaxCalls, migrate |-> MaxCalls]
    /\ unread = {}

Cancel(i) == [start EXCEPT ![i].cancelled = TRUE]
CloseRuntime(i) == [runtime EXCEPT ![i] = "closed"]

\* failStart, for the call of generation start[i].gen.
failStart(i) ==
    IF ctl.gen = start[i].gen THEN [ctl EXCEPT !.state = "failed", !.cancel = NoStart] ELSE ctl

-----------------------------------------------------------------------------
(* start *)

Start(i) ==
    /\ start[i].pc = "new" /\ \A j \in 1 .. i - 1 : start[j].pc # "new"
    /\ ctl.state \notin Active
    /\ ctl' = [state |-> "starting", gen |-> ctl.gen + 1, cancel |-> i, runtime |-> NoStart]
    /\ start' = [start EXCEPT ![i].pc = "select", ![i].gen = ctl.gen + 1]
    /\ UNCHANGED <<runtime, monitors, tunnel, migration, stops, calls, unread>>

\* The connector goroutine: a cancelled context makes an error likely, not certain.
ConnectReturns(i) ==
    /\ start[i].pc # "new" /\ start[i].result = "none"
    /\ \E ok \in BOOLEAN :
          /\ start' = [start EXCEPT ![i].result = IF ok THEN "ok" ELSE "error"]
          /\ runtime' = IF ok THEN [runtime EXCEPT ![i] = "open"] ELSE runtime
    /\ UNCHANGED <<ctl, monitors, tunnel, migration, stops, calls, unread>>

\* The select of start takes the connector's result.  SetClientRoutes may refuse the runtime.
StartResult(i) ==
    /\ start[i].pc = "select" /\ start[i].result # "none"
    /\ start' = [start EXCEPT ![i].pc = "returned"]
    /\ \/ /\ start[i].result = "error"
          /\ ctl' = failStart(i) /\ UNCHANGED <<runtime, monitors>>
       \/ /\ start[i].result = "ok"                    \* SetClientRoutes fails
          /\ ctl' = failStart(i) /\ runtime' = CloseRuntime(i) /\ UNCHANGED monitors
       \/ /\ start[i].result = "ok"
          /\ IF ctl.gen # start[i].gen \/ ctl.state # "starting"
             THEN runtime' = CloseRuntime(i) /\ UNCHANGED <<ctl, monitors>>
             ELSE /\ ctl' = [ctl EXCEPT !.state = "connected", !.runtime = i]
                  /\ monitors' = monitors \cup {i}
                  /\ UNCHANGED runtime
    /\ UNCHANGED <<tunnel, migration, stops, calls, unread>>

\* The timer: the context is cancelled and a goroutine closes a runtime that comes later.
StartTimeout(i) ==
    /\ start[i].pc = "select"
    /\ start' = [Cancel(i) EXCEPT ![i].pc = "late"]
    /\ ctl' = failStart(i)
    /\ UNCHANGED <<runtime, monitors, tunnel, migration, stops, calls, unread>>

CloseLate(i) ==
    /\ start[i].pc = "late" /\ start[i].result # "none"
    /\ start' = [start EXCEPT ![i].pc = "returned"]
    /\ runtime' = IF start[i].result = "ok" THEN CloseRuntime(i) ELSE runtime
    /\ UNCHANGED <<ctl, monitors, tunnel, migration, stops, calls, unread>>

\* The context of the call was cancelled: the result, if there is one, stays in its channel.
StartCancelled(i) ==
    /\ start[i].pc = "select" /\ start[i].cancelled
    /\ start' = [start EXCEPT ![i].pc = "returned"]
    /\ ctl' = failStart(i)
    /\ unread' = unread \cup {i}
    /\ UNCHANGED <<runtime, monitors, tunnel, migration, stops, calls>>

-----------------------------------------------------------------------------
(* startTunnel, monitor, stop, networkChanged *)

\* The carriers of a runtime are gone: its Wait returns.
RuntimeEnds(i) ==
    /\ runtime[i] = "open"
    /\ runtime' = [runtime EXCEPT ![i] = "ended"]
    /\ UNCHANGED <<ctl, start, monitors, tunnel, migration, stops, calls, unread>>

startTunnel ==
    /\ tunnel.pc = "idle" /\ calls.tunnel > 0
    /\ ctl.state = "connected" /\ ctl.runtime # NoStart
    /\ tunnel' = [pc |-> "called", i |-> ctl.runtime, gen |-> ctl.gen]
    /\ calls' = [calls EXCEPT !.tunnel = @ - 1]
    /\ UNCHANGED <<ctl, start, runtime, monitors, migration, stops, unread>>

\* Mutation: a stop that came while the tunnel started is not noticed.
TunnelStartedAnyway ==
    /\ tunnel.pc = "called" /\ runtime[tunnel.i] # "closed"
    /\ tunnel' = NoCall
    /\ ctl' = [ctl EXCEPT !.state = "running"]
    /\ UNCHANGED <<start, runtime, monitors, migration, stops, calls, unread>>

\* runtime.StartTunnel returned: a closed runtime refuses.
TunnelStarted ==
    /\ tunnel.pc = "called" /\ runtime[tunnel.i] # "closed"
    /\ tunnel' = NoCall
    /\ IF ctl.gen # tunnel.gen \/ ctl.state # "connected"
       THEN runtime' = CloseRuntime(tunnel.i) /\ UNCHANGED ctl
       ELSE ctl' = [ctl EXCEPT !.state = "running"] /\ UNCHANGED runtime
    /\ UNCHANGED <<start, monitors, migration, stops, calls, unread>>

\* On an error the context that is current now is cancelled, whichever generation it belongs to.
TunnelFails ==
    /\ tunnel.pc = "called"
    /\ tunnel' = NoCall
    /\ ctl' = IF ctl.gen = tunnel.gen THEN [ctl EXCEPT !.state = "failed"] ELSE ctl
    /\ start' = IF ctl.cancel # NoStart THEN Cancel(ctl.cancel) ELSE start
    /\ runtime' = CloseRuntime(tunnel.i)
    /\ UNCHANGED <<monitors, migration, stops, calls, unread>>

monitor(i) ==
    /\ i \in monitors /\ (runtime[i] # "open" \/ start[i].cancelled)
    /\ monitors' = monitors \ {i}
    /\ ctl' = IF ctl.gen # start[i].gen THEN ctl
              ELSE [ctl EXCEPT !.cancel = NoStart, !.runtime = NoStart,
                               !.state = IF @ = "failed" \/ (runtime[i] = "ended" /\ ~start[i].cancelled)
                                         THEN "failed" ELSE "stopped"]
    /\ runtime' = CloseRuntime(i)
    /\ UNCHANGED <<start, tunnel, migration, stops, calls, unread>>

\* With nothing to stop the generation stays.
Stop ==
    /\ IF ctl.cancel = NoStart /\ ctl.runtime = NoStart
       THEN ctl' = [ctl EXCEPT !.state = "stopped"] /\ UNCHANGED stops
       ELSE /\ ctl' = [state |-> "stopped", gen |-> ctl.gen + 1, cancel |-> NoStart,
                       runtime |-> NoStart]
            /\ stops' = stops \cup {[cancel |-> ctl.cancel, runtime |-> ctl.runtime]}
    /\ ctl' # ctl
    /\ UNCHANGED <<start, runtime, monitors, tunnel, migration, calls, unread>>

\* After c.mu is released: cancel, and Close in a goroutine.
StopTail(t) ==
    /\ t \in stops
    /\ stops' = stops \ {t}
    /\ start' = IF t.cancel # NoStart THEN Cancel(t.cancel) ELSE start
    /\ runtime' = IF t.runtime # NoStart THEN CloseRuntime(t.runtime) ELSE runtime
    /\ UNCHANGED <<ctl, monitors, tunnel, migration, calls, unread>>

networkChanged ==
    /\ migration.pc = "idle" /\ calls.migrate > 0
    /\ ctl.state = "running" /\ ctl.runtime # NoStart
    /\ ctl' = [ctl EXCEPT !.state = "migrating"]
    /\ migration' = [pc |-> "called", i |-> ctl.runtime, gen |-> ctl.gen]
    /\ calls' = [calls EXCEPT !.migrate = @ - 1]
    /\ UNCHANGED <<start, runtime, monitors, tunnel, stops, unread>>

\* runtime.NetworkChanged returned, with or without an error.
Migrated ==
    /\ migration.pc = "called"
    /\ migration' = NoCall
    /\ ctl' = IF ctl.gen = migration.gen /\ ctl.runtime = migration.i /\ ctl.state = "migrating"
              THEN [ctl EXCEPT !.state = "running"] ELSE ctl
    /\ UNCHANGED <<start, runtime, monitors, tunnel, stops, calls, unread>>

ControllerSteps ==
    \/ \E i \in Starts : ConnectReturns(i)
    \/ \E i \in Starts : StartResult(i)
    \/ \E i \in Starts : StartTimeout(i)
    \/ \E i \in Starts : CloseLate(i)
    \/ \E i \in Starts : StartCancelled(i)
    \/ TunnelStarted \/ TunnelFails \/ Migrated
    \/ \E i \in monitors : monitor(i)
    \/ \E t \in stops : StopTail(t)

ControllerNext ==
    \/ \E i \in Starts : Start(i)
    \/ \E i \in Starts : RuntimeEnds(i)
    \/ startTunnel \/ networkChanged \/ Stop
    \/ ControllerSteps

-----------------------------------------------------------------------------
(* Properties *)

\* A runtime that is open belongs to somebody who will close it: the controller with its monitor,
\* a start call that has not decided yet, a timeout's goroutine, or a stop under way.  (The result
\* of a connector that outlives a cancelled start is never read: unread.)
RuntimeHasOwner ==
    \A i \in Starts : runtime[i] = "open" =>
        \/ i \in monitors
        \/ start[i].pc \in {"select", "late"}
        \/ \E t \in stops : t.runtime = i
        \/ i \in unread

\* What the controller reports is backed by the current generation: in the states with a tunnel or
\* a carrier it holds the runtime of the newest start call, that call's monitor runs and its
\* context is the one Stop would cancel.
StateIsBacked ==
    /\ ctl.state \in {"connected", "running", "migrating"} =>
          /\ ctl.runtime # NoStart /\ ctl.cancel = ctl.runtime
          /\ start[ctl.runtime].gen = ctl.gen /\ ctl.runtime \in monitors
    /\ ctl.state = "starting" => ctl.runtime = NoStart /\ ctl.cancel # NoStart
    /\ ctl.state = "stopped" => ctl.runtime = NoStart /\ ctl.cancel = NoStart

\* No start, stop, timeout or migration of the controller leaks a runtime, or reports a state that
\* the runtime it holds does not back.
ControllerIsConsistent == RuntimeHasOwner /\ StateIsBacked
=============================================================================
