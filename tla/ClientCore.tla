----------------------------- MODULE ClientCore -----------------------------
(***************************************************************************)
(* The strict single-carrier client: clientcore.Core (core.go, reconnect.go*)
(* and platform.go) over authenticatedRuntime (production_http3.go), and   *)
(* the ClientCore facade of mobile/np2mobile/client_core.go that the       *)
(* packet tunnel provider calls.                                           *)
(*                                                                         *)
(* A runtime is one authenticated carrier.  It holds the SessionRouter and *)
(* the packet stack until HandoverPacketPathTo moves both to its           *)
(* replacement.  Core serialises one Connect or one session at a time with *)
(* activeDone, so the connector call under way is a single record; the     *)
(* NetworkChanged call, the attach call, every monitor and the shutdown    *)
(* goroutine run beside it.                                                *)
(***************************************************************************)
EXTENDS Integers, FiniteSets

CONSTANTS
    MaxRuntimes,        \* bound: runtimes connected in all
    MaxConnects,        \* bound: calls of ClientCore.Connect
    MaxAttempts         \* ReconnectPolicy.MaxAttempts

Runtimes == 1 .. MaxRuntimes
NoRuntime == 0

VARIABLES
    host,     \* the facade: cancel, generation, connected, closed
    core,     \* Core: closed, generation, snapshot.State, runtime, activeDone, root context
    own,      \* own[i]: runtime i: Mux, router, stack, waited, and the session context
    connect,  \* the Connect call: facade and core
    reconnect,   \* the NetworkChanged call
    attach,   \* the AttachPacketTunnel call
    watching, \* runtimes whose monitor goroutine runs
    shutdown, \* the shutdown goroutine
    missed    \* history: a session ended between the probe's check and its bookkeeping

coreVars == <<host, core, own, connect, reconnect, attach, watching, shutdown, missed>>

NoConnect == [pc |-> "idle", gen |-> 0, hostGen |-> 0, cand |-> NoRuntime]
NoReconnect == [pc |-> "idle", gen |-> 0, current |-> NoRuntime, cand |-> NoRuntime, attempt |-> 0]
NoAttach == [pc |-> "idle", i |-> NoRuntime]

CoreInit ==
    /\ host = [busy |-> FALSE, gen |-> 0, connected |-> FALSE, closed |-> FALSE]
    /\ core = [closed |-> FALSE, gen |-> 0, state |-> "disconnected", runtime |-> NoRuntime,
               active |-> "none"]
    /\ own = [i \in Runtimes |-> [mux |-> "none", router |-> FALSE, stack |-> FALSE,
                                  waited |-> FALSE, cancelled |-> FALSE]]
    /\ connect = NoConnect /\ reconnect = NoReconnect /\ attach = NoAttach
    /\ watching = {} /\ shutdown = [pc |-> "none", runtime |-> NoRuntime]
    /\ missed = FALSE

\* A connector returns an authenticated runtime with a router of its own and no stack.
FreshRuntime == {i \in Runtimes : own[i].mux = "none" /\ \A j \in 1 .. i - 1 : own[j].mux # "none"}
Connected(i) == [own EXCEPT ![i].mux = "open", ![i].router = TRUE]

\* Mutation: the Mux is closed, the stack is left running.
CloseOwnedMux(o, i) == [o EXCEPT ![i].mux = "closed"]

\* authenticatedRuntime.Close: the Mux, and the stack the runtime still holds.
CloseOwned(o, i) == [o EXCEPT ![i].mux = "closed", ![i].stack = FALSE]

\* The Mux of a runtime ends.
SessionEnds(i) ==
    /\ own[i].mux = "open"
    /\ own' = [own EXCEPT ![i].mux = "dead"]
    /\ UNCHANGED <<host, core, connect, reconnect, attach, watching, shutdown, missed>>

-----------------------------------------------------------------------------
(* Connect *)

\* ClientCore.Connect up to the call of core.Connect.
HostConnect ==
    /\ connect.pc = "idle" /\ ~host.closed /\ ~host.connected /\ ~host.busy
    /\ host.gen < MaxConnects
    /\ host' = [host EXCEPT !.busy = TRUE, !.gen = @ + 1]
    /\ connect' = [NoConnect EXCEPT !.pc = "begin", !.hostGen = host.gen + 1]
    /\ UNCHANGED <<core, own, reconnect, attach, watching, shutdown, missed>>

CoreConnect ==
    /\ connect.pc = "begin"
    /\ IF core.closed \/ core.active # "none"
       THEN connect' = [connect EXCEPT !.pc = "refused"] /\ UNCHANGED core
       ELSE /\ core' = [core EXCEPT !.gen = @ + 1, !.active = "connect", !.state = "connecting"]
            /\ connect' = [connect EXCEPT !.pc = "dial", !.gen = core.gen + 1]
    /\ UNCHANGED <<host, own, reconnect, attach, watching, shutdown, missed>>

\* finishConnectFailure.
ConnectFails ==
    /\ connect.pc = "dial"
    /\ connect' = [connect EXCEPT !.pc = "refused"]
    /\ core' = IF ~core.closed /\ core.gen = connect.gen /\ core.active = "connect"
               THEN [core EXCEPT !.state = "failed", !.active = "none"] ELSE core
    /\ UNCHANGED <<host, own, reconnect, attach, watching, shutdown, missed>>

\* The strict connector dialled and authenticated; the bookkeeping comes after.
Dialled(i) ==
    /\ connect.pc = "dial" /\ i \in FreshRuntime
    /\ own' = Connected(i)
    /\ connect' = [connect EXCEPT !.pc = "dialled", !.cand = i]
    /\ UNCHANGED <<host, core, reconnect, attach, watching, shutdown, missed>>

ConnectEnds ==
    /\ connect.pc = "dialled"
    /\ LET i == connect.cand IN
       IF core.closed \/ core.gen # connect.gen \/ core.active # "connect"
       THEN /\ own' = CloseOwned(own, i)
            /\ connect' = [connect EXCEPT !.pc = "refused", !.cand = NoRuntime]
            /\ UNCHANGED <<core, watching>>
       ELSE /\ core' = [core EXCEPT !.runtime = i, !.active = "session", !.state = "connected"]
            /\ watching' = watching \cup {i}
            /\ connect' = [connect EXCEPT !.pc = "accepted", !.cand = NoRuntime]
            /\ UNCHANGED own
    /\ UNCHANGED <<host, reconnect, attach, shutdown, missed>>

\* The rest of ClientCore.Connect.
HostConnected ==
    /\ connect.pc \in {"refused", "accepted"}
    /\ connect' = NoConnect
    /\ host' = [host EXCEPT !.busy = IF @ /\ host.gen = connect.hostGen THEN FALSE ELSE @,
                            !.connected = @ \/ (connect.pc = "accepted" /\ ~host.closed)]
    /\ UNCHANGED <<core, own, reconnect, attach, watching, shutdown, missed>>

-----------------------------------------------------------------------------
(* monitor *)

\* runtime.Wait returned: waited is set before c.mu is taken.
WaitReturns(i) ==
    /\ i \in watching /\ ~own[i].waited /\ (own[i].mux # "open" \/ own[i].cancelled \/ core.closed)
    /\ own' = [own EXCEPT ![i].waited = TRUE]
    /\ UNCHANGED <<host, core, connect, reconnect, attach, watching, shutdown, missed>>

\* While NetworkChanged owns the runtime the monitor leaves it alone.
monitorRuntime(i) ==
    /\ i \in watching /\ own[i].waited
    /\ watching' = watching \ {i}
    /\ LET current == ~core.closed /\ core.runtime = i IN
       IF current /\ core.state = "reconnecting"
       THEN UNCHANGED <<core, own>>
       ELSE /\ core' = IF current
                       THEN [core EXCEPT !.runtime = NoRuntime, !.active = "none",
                                         !.state = IF own[i].mux = "dead" THEN "failed"
                                                   ELSE "disconnected"]
                       ELSE core
            /\ own' = CloseOwned(own, i)
    /\ UNCHANGED <<host, connect, reconnect, attach, shutdown, missed>>

-----------------------------------------------------------------------------
(* AttachPacketTunnel, AttachPacketDevice *)

Attach ==
    /\ attach.pc = "idle" /\ host.connected /\ ~host.closed
    /\ ~core.closed /\ core.state = "connected" /\ core.runtime # NoRuntime
    /\ attach' = [pc |-> "attach", i |-> core.runtime]
    /\ UNCHANGED <<host, core, own, connect, reconnect, watching, shutdown, missed>>

AttachPacketTunnel ==
    /\ attach.pc = "attach"
    /\ attach' = NoAttach
    /\ own' = IF own[attach.i].mux = "closed" \/ ~own[attach.i].router \/ own[attach.i].stack
              THEN own ELSE [own EXCEPT ![attach.i].stack = TRUE]
    /\ UNCHANGED <<host, core, connect, reconnect, watching, shutdown, missed>>

-----------------------------------------------------------------------------
(* NetworkChanged *)

CoreNetworkChanged ==
    /\ reconnect.pc = "idle" /\ host.connected /\ ~host.closed
    /\ ~core.closed /\ core.state = "connected" /\ core.runtime # NoRuntime
    /\ core' = [core EXCEPT !.state = "reconnecting"]
    /\ reconnect' = [NoReconnect EXCEPT !.pc = "probe", !.gen = core.gen, !.current = core.runtime]
    /\ UNCHANGED <<host, own, connect, attach, watching, shutdown, missed>>

\* Probe and the check of WaitReturned; a probe may always time out.
ProbeCurrent ==
    /\ reconnect.pc = "probe"
    /\ \E pc \in {"dial"} \cup (IF own[reconnect.current].mux = "open" /\ ~own[reconnect.current].waited
                                THEN {"native"} ELSE {}) :
          reconnect' = [reconnect EXCEPT !.pc = pc]
    /\ UNCHANGED <<host, core, own, connect, attach, watching, shutdown, missed>>

Holds == ~core.closed /\ core.gen = reconnect.gen /\ core.runtime = reconnect.current
         /\ core.state = "reconnecting"

ProbeAnswered ==
    /\ reconnect.pc = "native"
    /\ reconnect' = NoReconnect
    /\ core' = IF Holds THEN [core EXCEPT !.state = "connected"] ELSE core
    /\ missed' = (missed \/ (Holds /\ reconnect.current \notin watching))
    /\ UNCHANGED <<host, own, connect, attach, watching, shutdown>>

\* One attempt of the loop failed; the backoff ends with the reconnect context.
AttemptFails ==
    /\ reconnect.pc = "dial" /\ reconnect.attempt < MaxAttempts
    /\ reconnect' = [reconnect EXCEPT !.attempt = @ + 1]
    /\ UNCHANGED <<host, core, own, connect, attach, watching, shutdown, missed>>

Redialled(i) ==
    /\ reconnect.pc = "dial" /\ reconnect.attempt < MaxAttempts /\ i \in FreshRuntime
    /\ own' = Connected(i)
    /\ reconnect' = [reconnect EXCEPT !.pc = "handover", !.cand = i]
    /\ UNCHANGED <<host, core, connect, attach, watching, shutdown, missed>>

\* HandoverPacketPathTo: router and stack move, under both locks; a closed runtime refuses.
HandoverPacketPathTo ==
    /\ reconnect.pc = "handover"
    /\ LET i == reconnect.current
           j == reconnect.cand
       IN IF own[i].mux = "closed" \/ own[j].mux = "closed" \/ ~own[i].router
          THEN /\ own' = CloseOwned(own, j)
               /\ reconnect' = [reconnect EXCEPT !.pc = "dial", !.cand = NoRuntime, !.attempt = @ + 1]
          ELSE /\ own' = [own EXCEPT ![j].stack = own[i].stack, ![j].router = TRUE,
                                     ![i].stack = FALSE, ![i].router = FALSE]
               /\ reconnect' = [reconnect EXCEPT !.pc = "install"]
    /\ UNCHANGED <<host, core, connect, attach, watching, shutdown, missed>>

\* The replacement is installed, and the old runtime cancelled and closed.
Install ==
    /\ reconnect.pc = "install"
    /\ reconnect' = NoReconnect
    /\ LET i == reconnect.current
           j == reconnect.cand
       IN IF ~Holds
          THEN own' = CloseOwned(own, j) /\ UNCHANGED <<core, watching>>
          ELSE /\ core' = [core EXCEPT !.runtime = j, !.active = "session", !.state = "connected"]
               /\ own' = [CloseOwned(own, i) EXCEPT ![i].cancelled = TRUE]
               /\ watching' = watching \cup {j}
    /\ UNCHANGED <<host, connect, attach, shutdown, missed>>

\* All attempts failed, or the reconnect context ended.
ReconnectExhausted ==
    /\ reconnect.pc = "dial"
    /\ reconnect' = NoReconnect
    /\ own' = [CloseOwned(own, reconnect.current) EXCEPT ![reconnect.current].cancelled = TRUE]
    /\ core' = IF Holds THEN [core EXCEPT !.runtime = NoRuntime, !.active = "none",
                                          !.state = "failed"]
               ELSE core
    /\ UNCHANGED <<host, connect, attach, watching, shutdown, missed>>

-----------------------------------------------------------------------------
(* Close *)

\* ClientCore.Close cancels the operation and closes the core.
CoreClose ==
    /\ ~host.closed
    /\ host' = [host EXCEPT !.closed = TRUE, !.connected = FALSE, !.gen = @ + 1]
    /\ core' = [core EXCEPT !.closed = TRUE, !.gen = @ + 1, !.state = "disconnecting"]
    /\ shutdown' = [pc |-> "close", runtime |-> core.runtime]
    /\ UNCHANGED <<own, connect, reconnect, attach, watching, missed>>

ShutdownCloses ==
    /\ shutdown.pc = "close"
    /\ own' = IF shutdown.runtime = NoRuntime THEN own
              ELSE [CloseOwned(own, shutdown.runtime) EXCEPT ![shutdown.runtime].cancelled = TRUE]
    /\ shutdown' = [shutdown EXCEPT !.pc = "wait"]
    /\ UNCHANGED <<host, core, connect, reconnect, attach, watching, missed>>

\* workers: the core's share of Connect, NetworkChanged and the monitors.
Workers == connect.pc \in {"dial", "dialled"} \/ reconnect.pc # "idle" \/ watching # {}

ShutdownEnds ==
    /\ shutdown.pc = "wait" /\ ~Workers
    /\ core' = [core EXCEPT !.runtime = NoRuntime, !.active = "none", !.state = "disconnected"]
    /\ shutdown' = [shutdown EXCEPT !.pc = "done"]
    /\ UNCHANGED <<host, own, connect, reconnect, attach, watching, missed>>

CoreSteps ==
    \/ CoreConnect \/ ConnectFails \/ ConnectEnds \/ HostConnected
    \/ \E i \in Runtimes : Dialled(i) \/ WaitReturns(i) \/ monitorRuntime(i) \/ Redialled(i)
    \/ AttachPacketTunnel
    \/ ProbeCurrent \/ ProbeAnswered \/ AttemptFails \/ HandoverPacketPathTo \/ Install
    \/ ReconnectExhausted
    \/ ShutdownCloses \/ ShutdownEnds

CoreNext ==
    \/ \E i \in Runtimes : SessionEnds(i)
    \/ HostConnect \/ Attach \/ CoreNetworkChanged \/ CoreClose
    \/ CoreSteps

-----------------------------------------------------------------------------
(* Properties *)

\* A packet stack is held by one runtime at most, and by one the core still answers for: it is not
\* lost in a handover, not left running over a closed carrier, and once Close has finished neither
\* it nor any carrier is left open, whatever call Close interrupted.
OneStack ==
    /\ Cardinality({i \in Runtimes : own[i].stack}) <= 1
    /\ \A i \in Runtimes : own[i].stack =>
          /\ own[i].router
          /\ i \in {core.runtime, reconnect.cand, shutdown.runtime} \/ i \in watching
    /\ shutdown.pc = "done" => \A i \in Runtimes : own[i].mux \in {"none", "closed"} /\ ~own[i].stack

\* A session that the core reports as connected is watched: its end will be seen.  (A session that
\* ends after NetworkChanged looked at WaitReturned and before it takes c.mu is missed.)
ConnectedIsWatched == core.state = "connected" => core.runtime \in watching \/ missed

\* Connects, handovers, failures and Close leave the core with one packet stack and with a session
\* that is watched (core.go, reconnect.go, production_http3.go).
CoreIsConsistent == OneStack /\ ConnectedIsWatched
=============================================================================
