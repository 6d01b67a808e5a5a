---------------------------- MODULE CarrierServers ----------------------------
(***************************************************************************)
(* How the server admits carriers: the WebRTC signaling server             *)
(* (internal/carrier/webrtc), the HTTP/3 WebTransport server               *)
(* (internal/carrier/http3wt), the HTTPS WebSocket acceptor                *)
(* (internal/carrier/httpsws), and the accept loop and the shutdown of     *)
(* internal/app/server.go that drain them.                                 *)
(*                                                                         *)
(* A behaviour exercises one of the three.  A carrier has a transport (a   *)
(* peer connection, a WebTransport session or a WebSocket), a wrapper (the *)
(* Conn) and an owner.  Where a Go select has several cases ready, each of *)
(* them is a disjunct.                                                     *)
(***************************************************************************)
EXTENDS Integers, FiniteSets, SequencesExt

CONSTANTS Requests, \* requests that reach the server
          MaxPeers, \* MaxPeers, MaxSessions or Backlog of the carrier server
          MaxServed \* capacity of the sessions channel of the accept loop

VARIABLES front,     \* "webrtc", "http3" or "https"
          conn,      \* per request
          backlog,   \* the connections channel
          shutdown,  \* "no", "closing", "draining" or "closed"
          snapshot,  \* peers that the WebRTC Close has still to close
          accepting  \* the accept loop runs

serverVars == <<front, conn, backlog, shutdown, snapshot, accepting>>

NoConn == [handler |-> "none", transport |-> "none", held |-> FALSE, wrap |-> "none",
           notifying |-> FALSE, deadline |-> "none", ready |-> FALSE, owner |-> "none"]

ServersInit ==
  /\ front \in {"webrtc", "http3", "https"}
  /\ conn = [c \in Requests |-> NoConn]
  /\ backlog = <<>>
  /\ shutdown = "no"
  /\ snapshot = {}
  /\ accepting = TRUE

done == shutdown # "no"
Held == {c \in Requests : conn[c].held}

\* The handler answers an error and ends.
Refused(c) == [conn[c] EXCEPT !.handler = "ended"]

\* release runs once: the slot is given back and the peer forgotten.
Released(k) == [k EXCEPT !.held = FALSE]

\* Conn.finish, Conn.Close: the transport is closed and the slot released.
Finish(k) == [Released(k) EXCEPT !.transport = "closed", !.wrap = "finished"]

\* The transport is closed under its Conn, which learns of it and is finished
\* by a goroutine of its own (abort, context.AfterFunc).
TransportClosed(k) ==
  [k EXCEPT !.transport = "closed",
            !.wrap = IF @ \in {"created", "opened"} THEN "finishing" ELSE @]

FinishConn(c) ==
  /\ conn[c].wrap = "finishing"
  /\ conn' = [conn EXCEPT ![c] = Finish(@)]
  /\ UNCHANGED <<front, backlog, shutdown, snapshot, accepting>>

\* A select between a place in the backlog, done, and default: the connection
\* is queued, or else closed.
Push(c, queued, refused) ==
  \/ /\ Len(backlog) < MaxPeers
     /\ conn' = [conn EXCEPT ![c] = [queued EXCEPT !.owner = "queue"]]
     /\ backlog' = Append(backlog, c)
  \/ /\ done \/ Len(backlog) >= MaxPeers
     /\ conn' = [conn EXCEPT ![c] = refused]
     /\ UNCHANGED backlog

----------------------------------------------------------------------------
(* WebRTC.                                                                 *)

acquireSlot(c) ==
  /\ front = "webrtc"
  /\ conn[c].handler = "none"
  /\ conn' = [conn EXCEPT ![c] =
       IF done \/ Cardinality(Held) >= MaxPeers THEN Refused(c)
       ELSE [@ EXCEPT !.handler = "slot", !.held = TRUE]]
  /\ UNCHANGED <<front, backlog, shutdown, snapshot, accepting>>

\* Mutant of Registrable: the peer is registered without a look at closed.
RegistrableAlways(c) == TRUE

Registrable(c) == ~done

\* NewPeerConnection may fail; registerPeer refuses a closed server.
registerPeer(c) ==
  /\ front = "webrtc"
  /\ conn[c].handler = "slot"
  /\ \/ /\ Registrable(c)
        /\ conn' = [conn EXCEPT ![c].handler = "registered", ![c].transport = "open"]
     \/ conn' = [conn EXCEPT ![c] = Released(Refused(c))]
  /\ UNCHANGED <<front, backlog, shutdown, snapshot, accepting>>

\* The reliable channel arrives: newConn wraps the peer.
OnDataChannel(c) ==
  /\ front = "webrtc"
  /\ conn[c].transport = "open"
  /\ conn[c].wrap = "none"
  /\ conn' = [conn EXCEPT ![c].wrap = "created"]
  /\ UNCHANGED <<front, backlog, shutdown, snapshot, accepting>>

OnOpen(c) ==
  /\ front = "webrtc"
  /\ conn[c].wrap = "created"
  /\ conn' = [conn EXCEPT ![c].wrap = "opened", ![c].notifying = TRUE]
  /\ UNCHANGED <<front, backlog, shutdown, snapshot, accepting>>

\* notifyOpen, when the datagram channel is open or the grace is over: it may
\* queue a Conn that is being finished, and returns if it sees it finished.
notifyOpen(c) ==
  /\ front = "webrtc"
  /\ conn[c].notifying
  /\ LET notified == [conn[c] EXCEPT !.notifying = FALSE] IN
     \/ Push(c, [notified EXCEPT !.ready = TRUE],
                IF notified.wrap = "opened" THEN [notified EXCEPT !.wrap = "finishing"]
                ELSE notified)
     \/ /\ notified.wrap = "finished"
        /\ conn' = [conn EXCEPT ![c] = notified]
        /\ UNCHANGED backlog
  /\ UNCHANGED <<front, shutdown, snapshot, accepting>>

\* The peer fails or is closed from outside.  Without a Conn the handler's own
\* callback releases the slot, and a failed peer stays to be closed by the
\* deadline; with one it aborts.
PeerEnds(c) ==
  /\ front = "webrtc"
  /\ conn[c].transport = "open"
  /\ conn' = [conn EXCEPT ![c] =
       IF @.wrap = "none" THEN [Released(@) EXCEPT !.transport = "failed"] ELSE TransportClosed(@)]
  /\ UNCHANGED <<front, backlog, shutdown, snapshot, accepting>>

\* The description cannot be answered, gathering times out or done is closed:
\* the deferred function closes the peer and releases.
HandlerFails(c) ==
  /\ front = "webrtc"
  /\ conn[c].handler = "registered"
  /\ conn' = [conn EXCEPT ![c] = Released(TransportClosed(Refused(c)))]
  /\ UNCHANGED <<front, backlog, shutdown, snapshot, accepting>>

HandsOff(c) ==
  /\ front = "webrtc"
  /\ conn[c].handler = "registered"
  /\ conn' = [conn EXCEPT ![c].handler = "ended", ![c].deadline = "armed"]
  /\ UNCHANGED <<front, backlog, shutdown, snapshot, accepting>>

\* The timer may fire in the moment in which the connection becomes ready.
enforceConnectDeadline(c) ==
  /\ front = "webrtc"
  /\ conn[c].deadline = "armed"
  /\ LET ended == [conn[c] EXCEPT !.deadline = "done"] IN
     \/ /\ conn[c].ready \/ done
        /\ conn' = [conn EXCEPT ![c] = ended]
     \/ conn' = [conn EXCEPT ![c] = Released(TransportClosed(ended))]
  /\ UNCHANGED <<front, backlog, shutdown, snapshot, accepting>>

\* Close, under the lock: the peers still registered are copied.
CloseWebRTC ==
  /\ front = "webrtc"
  /\ shutdown = "no"
  /\ snapshot' = {c \in Held : conn[c].handler # "slot"}
  /\ shutdown' = IF snapshot' = {} THEN "closed" ELSE "closing"
  /\ UNCHANGED <<front, conn, backlog, accepting>>

ClosePeer(c) ==
  /\ c \in snapshot
  /\ snapshot' = snapshot \ {c}
  /\ shutdown' = IF snapshot' = {} THEN "closed" ELSE "closing"
  /\ conn' = [conn EXCEPT ![c] = Released(TransportClosed(@))]
  /\ UNCHANGED <<front, backlog, accepting>>

----------------------------------------------------------------------------
(* HTTP/3.                                                                 *)

acquire(c) ==
  /\ front = "http3"
  /\ conn[c].handler = "none"
  /\ conn' = [conn EXCEPT ![c] =
       IF Cardinality(Held) >= MaxPeers THEN Refused(c)
       ELSE [@ EXCEPT !.handler = "upgrading", !.held = TRUE]]
  /\ UNCHANGED <<front, backlog, shutdown, snapshot, accepting>>

\* Upgrade fails once the transport is closed, and may fail before.
Upgrade(c) ==
  /\ front = "http3"
  /\ conn[c].handler = "upgrading"
  /\ \/ /\ shutdown \in {"no", "closing"}
        /\ conn' = [conn EXCEPT ![c].handler = "awaiting", ![c].transport = "open"]
     \/ conn' = [conn EXCEPT ![c] = Released(Refused(c))]
  /\ UNCHANGED <<front, backlog, shutdown, snapshot, accepting>>

\* The first stream and its preface arrive and the session is wrapped, or they
\* do not and the session is closed.
AcceptStream(c) ==
  /\ front = "http3"
  /\ conn[c].handler = "awaiting"
  /\ \/ conn' = [conn EXCEPT ![c].handler = "pushing",
                             ![c].wrap = IF conn[c].transport = "open" THEN "created" ELSE "finishing"]
     \/ conn' = [conn EXCEPT ![c] = Released(TransportClosed(Refused(c)))]
  /\ UNCHANGED <<front, backlog, shutdown, snapshot, accepting>>

QueueSession(c) ==
  /\ front = "http3"
  /\ conn[c].handler = "pushing"
  /\ LET wrapped == conn[c].wrap IN
     Push(c, [Refused(c) EXCEPT !.wrap = IF wrapped = "created" THEN "opened" ELSE wrapped],
             Finish(Refused(c)))
  /\ UNCHANGED <<front, shutdown, snapshot, accepting>>

\* The session ends: context.AfterFunc will close the Conn.
WebTransportEnds(c) ==
  /\ front = "http3"
  /\ conn[c].transport = "open"
  /\ conn' = [conn EXCEPT ![c] = TransportClosed(@)]
  /\ UNCHANGED <<front, backlog, shutdown, snapshot, accepting>>

CloseHTTP3 ==
  /\ front = "http3"
  /\ shutdown = "no"
  /\ shutdown' = "closing"
  /\ UNCHANGED <<front, conn, backlog, snapshot, accepting>>

\* transport.Close ends every session.
TransportCloses ==
  /\ front = "http3"
  /\ shutdown = "closing"
  /\ shutdown' = "draining"
  /\ conn' = [c \in Requests |->
       IF conn[c].transport = "open" THEN TransportClosed(conn[c]) ELSE conn[c]]
  /\ UNCHANGED <<front, backlog, snapshot, accepting>>

Drain ==
  /\ front = "http3"
  /\ shutdown = "draining"
  /\ IF backlog = <<>>
     THEN shutdown' = "closed" /\ UNCHANGED <<conn, backlog>>
     ELSE /\ conn' = [conn EXCEPT ![Head(backlog)] = [Finish(@) EXCEPT !.owner = "ended"]]
          /\ backlog' = Tail(backlog)
          /\ UNCHANGED shutdown
  /\ UNCHANGED <<front, snapshot, accepting>>

----------------------------------------------------------------------------
(* HTTPS.                                                                  *)

\* The handler reads closed, then accepts the WebSocket without the lock.
AcceptWebsocket(c) ==
  /\ front = "https"
  /\ conn[c].handler = "none"
  /\ conn' = [conn EXCEPT ![c] =
       IF done THEN Refused(c)
       ELSE [@ EXCEPT !.handler = "upgrading"]]
  /\ UNCHANGED <<front, backlog, shutdown, snapshot, accepting>>

WebsocketFails(c) ==
  /\ front = "https"
  /\ conn[c].handler = "upgrading"
  /\ conn' = [conn EXCEPT ![c] = Refused(c)]
  /\ UNCHANGED <<front, backlog, shutdown, snapshot, accepting>>

\* Under the lock a closed acceptor, or a full backlog, closes the WebSocket.
QueueWebsocket(c) ==
  /\ front = "https"
  /\ conn[c].handler = "upgrading"
  /\ LET wrapped == [Refused(c) EXCEPT !.transport = "open", !.wrap = "opened"] IN
     IF done \/ Len(backlog) >= MaxPeers
     THEN conn' = [conn EXCEPT ![c] = Finish(wrapped)] /\ UNCHANGED backlog
     ELSE /\ conn' = [conn EXCEPT ![c] = [wrapped EXCEPT !.owner = "queue"]]
          /\ backlog' = Append(backlog, c)
  /\ UNCHANGED <<front, shutdown, snapshot, accepting>>

\* Close holds the lock while it drains the backlog.
CloseHTTPS ==
  /\ front = "https"
  /\ shutdown = "no"
  /\ shutdown' = "closed"
  /\ conn' = [c \in Requests |-> IF c \in ToSet(backlog)
                                 THEN [Finish(conn[c]) EXCEPT !.owner = "ended"] ELSE conn[c]]
  /\ backlog' = <<>>
  /\ UNCHANGED <<front, snapshot, accepting>>

----------------------------------------------------------------------------
(* The accept loop.                                                        *)

\* An Accept that waits may still take a connection when done is closed; the
\* next one returns an error.  Above MaxSessions the connection is closed.
AcceptLoop ==
  /\ accepting
  /\ backlog # <<>>
  /\ LET c == Head(backlog)
         served == {d \in Requests : conn[d].owner = "serving"} IN
     conn' = [conn EXCEPT ![c] =
       IF Cardinality(served) < MaxServed THEN [@ EXCEPT !.owner = "serving"]
       ELSE [Finish(@) EXCEPT !.owner = "ended"]]
  /\ backlog' = Tail(backlog)
  /\ accepting' = ~done
  /\ UNCHANGED <<front, shutdown, snapshot>>

AcceptLoopEnds ==
  /\ accepting
  /\ done
  /\ accepting' = FALSE
  /\ UNCHANGED <<front, conn, backlog, shutdown, snapshot>>

\* serveAuthenticatedCarrier ends: the session, or the failed authentication,
\* has closed the carrier.
ServeEnds(c) ==
  /\ conn[c].owner = "serving"
  /\ conn' = [conn EXCEPT ![c] = [Finish(@) EXCEPT !.owner = "ended"]]
  /\ UNCHANGED <<front, backlog, shutdown, snapshot, accepting>>

\* The credentials cannot be reloaded: it returns and closes nothing.
ReloadFails(c) ==
  /\ conn[c].owner = "serving"
  /\ conn' = [conn EXCEPT ![c].owner = "abandoned"]
  /\ UNCHANGED <<front, backlog, shutdown, snapshot, accepting>>

ServersNext ==
  \/ \E c \in Requests :
       \/ FinishConn(c) \/ acquireSlot(c) \/ registerPeer(c) \/ OnDataChannel(c) \/ OnOpen(c)
       \/ notifyOpen(c) \/ PeerEnds(c) \/ HandlerFails(c) \/ HandsOff(c)
       \/ enforceConnectDeadline(c) \/ ClosePeer(c)
       \/ acquire(c) \/ Upgrade(c) \/ AcceptStream(c) \/ QueueSession(c) \/ WebTransportEnds(c)
       \/ AcceptWebsocket(c) \/ WebsocketFails(c) \/ QueueWebsocket(c)
       \/ ServeEnds(c) \/ ReloadFails(c)
  \/ CloseWebRTC \/ CloseHTTP3 \/ TransportCloses \/ Drain \/ CloseHTTPS
  \/ AcceptLoop \/ AcceptLoopEnds

----------------------------------------------------------------------------
(* Properties.                                                             *)

Open == {c \in Requests : conn[c].transport = "open"}
Running(c) == conn[c].handler \notin {"none", "ended"}

\* A slot outlives neither its transport nor the work that gives it back, and
\* an open peer or session holds one, so that MaxPeers bounds the open ones
\* (releaseSlot, release and their sync.Once).
SlotsFollowTransports ==
  front # "https" =>
    /\ \A c \in Held : c \in Open \/ Running(c) \/ conn[c].wrap = "finishing"
    /\ Open \subseteq Held

\* Whatever is open is somebody's to close: its handler's, its deadline's, the
\* backlog's, the accept loop's, or that of the Close in progress.  The one
\* exception is a carrier whose credentials could not be reloaded, which only
\* its own end, or the end of the server, closes (app/server.go:254).
OpenIsOwned ==
  \A c \in Open :
    \/ Running(c)
    \/ conn[c].deadline = "armed"
    \/ conn[c].notifying \/ conn[c].wrap = "finishing"
    \/ conn[c].owner \in {"queue", "serving", "abandoned"}
    \/ c \in snapshot

\* Once Close has returned and the goroutines that were in flight have ended,
\* nothing is open, however a request crossed it; only an abandoned WebSocket
\* is out of its reach (Server.Close, Acceptor.Close).
CloseLeavesNothing ==
  (/\ shutdown = "closed"
   /\ ~accepting
   /\ \A c \in Requests : /\ ~Running(c) /\ ~conn[c].notifying
                           /\ conn[c].owner # "serving" /\ conn[c].wrap # "finishing")
  => \A c \in Open : front = "https" /\ conn[c].owner = "abandoned"

CarriersAreOwned == SlotsFollowTransports /\ OpenIsOwned /\ CloseLeavesNothing
=============================================================================
