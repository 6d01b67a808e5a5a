----------------------------- MODULE SocksServer -----------------------------
(***************************************************************************)
(* The local SOCKS5 server of the desktop client (internal/socks5).        *)
(*                                                                         *)
(* Serve accepts loopback connections, each served by a goroutine within a *)
(* semaphore.  A CONNECT is relayed to an upstream stream; a UDP ASSOCIATE *)
(* runs three goroutines that end each other by closing what they read.    *)
(* A cancelled context closes the listener, the connections and their      *)
(* upstreams through context.AfterFunc, at any moment after it.            *)
(***************************************************************************)
EXTENDS Integers, FiniteSets

CONSTANTS SocksClients,   \* connections to the listener
          MaxConnections, \* capacity of the semaphore
          Ports,          \* source ports of UDP datagrams on the loopback
          MaxDatagrams    \* bound on the datagrams from the clients

VARIABLES serve,    \* "accepting", "holding", "waiting" or "returned"
          holding,  \* the connection that waits for the semaphore
          cancelled,
          socks     \* per connection

socksVars == <<serve, holding, cancelled, socks>>

Relays == {"control", "up", "down"}
NoClient == [stage |-> "none", tcp |-> "none", upstream |-> "none", socket |-> "none",
             relays |-> [g \in Relays |-> "none"], results |-> 0, drained |-> 0,
             hint |-> 0, client |-> 0, forwarded |-> {}, replied |-> {}, datagrams |-> 0]

SocksInit ==
  /\ serve = "accepting"
  /\ holding = "none"
  /\ cancelled = FALSE
  /\ socks = [c \in SocksClients |-> NoClient]

Served == {c \in SocksClients : socks[c].stage \notin {"none", "held", "ended"}}

----------------------------------------------------------------------------
(* Serve.                                                                  *)

\* A connection is accepted and held until the select decides.
AcceptSocks(c) ==
  /\ serve = "accepting"
  /\ socks[c].stage = "none"
  /\ socks' = [socks EXCEPT ![c].tcp = "open", ![c].stage = "held"]
  /\ serve' = "holding"
  /\ holding' = c
  /\ UNCHANGED cancelled

\* The semaphore has room, or the context has ended.
Admit ==
  /\ serve = "holding"
  /\ \/ /\ Cardinality(Served) < MaxConnections
        /\ socks' = [socks EXCEPT ![holding].stage = "handshake"]
        /\ serve' = "accepting"
     \/ /\ cancelled
        /\ socks' = [socks EXCEPT ![holding].stage = "ended", ![holding].tcp = "closed"]
        /\ serve' = "waiting"
  /\ holding' = "none"
  /\ UNCHANGED cancelled

\* Accept fails, of itself or because the listener is closed: the deferred
\* function cancels what is served.
AcceptFails ==
  /\ serve = "accepting"
  /\ serve' = "waiting"
  /\ cancelled' = TRUE
  /\ UNCHANGED <<holding, socks>>

ServeReturns ==
  /\ serve = "waiting"
  /\ Served = {}
  /\ serve' = "returned"
  /\ UNCHANGED <<holding, cancelled, socks>>

ContextEnds ==
  /\ ~cancelled
  /\ cancelled' = TRUE
  /\ UNCHANGED <<serve, holding, socks>>

----------------------------------------------------------------------------
(* serveConn.                                                              *)

Shut(resource) == IF resource = "open" THEN "closed" ELSE resource

\* Mutant of Ended: the association is left to the end of the session.
EndedKeepsUpstream(k) == [k EXCEPT !.stage = "ended", !.tcp = "closed", !.socket = Shut(@)]

\* serveConn returns: the deferred calls close everything.
Ended(k) ==
  [k EXCEPT !.stage = "ended", !.tcp = "closed", !.upstream = Shut(@), !.socket = Shut(@)]

Fails(c) == socks' = [socks EXCEPT ![c] = Ended(@)] /\ UNCHANGED <<serve, holding, cancelled>>

\* The functions registered with context.AfterFunc.
ContextCloses(c) ==
  /\ cancelled
  /\ socks[c].stage \in {"connecting", "replying", "relaying", "associating", "binding", "udp", "handshake"}
  /\ socks[c].tcp = "open" \/ (socks[c].upstream = "open" /\ socks[c].stage \in {"replying", "relaying"})
  /\ socks' = [socks EXCEPT ![c].tcp = "closed",
                            ![c].upstream = IF socks[c].stage \in {"replying", "relaying"} THEN Shut(@) ELSE @]
  /\ UNCHANGED <<serve, holding, cancelled>>

\* The handshake asks for a connection or an association; the method, the
\* request or the deadline may end it, and so may a connection that is closed.
Handshake(c, hint) ==
  /\ socks[c].stage = "handshake"
  /\ socks[c].tcp = "open"
  /\ \/ socks' = [socks EXCEPT ![c].stage = "connecting"]
     \/ socks' = [socks EXCEPT ![c].stage = "associating", ![c].hint = hint]
  /\ UNCHANGED <<serve, holding, cancelled>>

HandshakeFails(c) == socks[c].stage = "handshake" /\ Fails(c)

\* Connect or AssociateUDP returns an upstream, or an error that is replied.
Opens(c, from, to) ==
  /\ socks[c].stage = from
  /\ socks' = [socks EXCEPT ![c].stage = to, ![c].upstream = "open"]
  /\ UNCHANGED <<serve, holding, cancelled>>
ConnectReturns(c) == Opens(c, "connecting", "replying")
AssociateReturns(c) == Opens(c, "associating", "binding")
OpenFails(c) == socks[c].stage \in {"connecting", "associating"} /\ Fails(c)

\* The success is replied, unless the connection is gone.
ReplySucceeds(c) ==
  /\ socks[c].stage = "replying"
  /\ socks[c].tcp = "open"
  /\ socks' = [socks EXCEPT ![c].stage = "relaying"]
  /\ UNCHANGED <<serve, holding, cancelled>>

\* The reply fails, or the relay of a connection ends.
RelayEnds(c) == socks[c].stage \in {"replying", "relaying"} /\ Fails(c)

----------------------------------------------------------------------------
(* serveUDPAssociate.                                                      *)

\* ListenUDP and the reply succeed: the three goroutines start.
Bind(c) ==
  /\ socks[c].stage = "binding"
  /\ socks[c].tcp = "open"
  /\ socks' = [socks EXCEPT ![c].stage = "udp", ![c].socket = "open",
                            ![c].relays = [g \in Relays |-> "running"]]
  /\ UNCHANGED <<serve, holding, cancelled>>
BindFails(c) == socks[c].stage = "binding" /\ Fails(c)

\* tracker.Accept: the hinted port, and then the port of the first datagram.
Accepts(k, port) == (k.hint # 0 => port = k.hint) /\ k.client \in {0, port}

\* An accepted datagram is forwarded if it can be decoded.
relaySOCKSUDPToAssociation(c, port, decoded) ==
  /\ socks[c].relays["up"] = "running"
  /\ socks[c].socket = "open"
  /\ socks[c].datagrams < MaxDatagrams
  /\ LET k == [socks[c] EXCEPT !.datagrams = @ + 1] IN
     socks' = [socks EXCEPT ![c] =
       IF ~Accepts(k, port) THEN k
       ELSE [k EXCEPT !.client = port, !.forwarded = IF decoded THEN @ \cup {port} ELSE @]]
  /\ UNCHANGED <<serve, holding, cancelled>>

\* A datagram before the client is known is dropped.
relayAssociationToSOCKSUDP(c) ==
  /\ socks[c].relays["down"] = "running"
  /\ socks[c].upstream = "open"
  /\ socks[c].client # 0
  /\ socks' = [socks EXCEPT ![c].replied = @ \cup {socks[c].client}]
  /\ UNCHANGED <<serve, holding, cancelled>>

\* A goroutine ends, by an error of what it reads or writes or because that
\* is closed, and sends its result; the channel has room for all three.
RelaySends(c, g) ==
  /\ socks[c].relays[g] = "running"
  /\ socks' = [socks EXCEPT ![c].relays[g] = "ended", ![c].results = @ + 1]
  /\ UNCHANGED <<serve, holding, cancelled>>

\* The first result, or the end of the context, closes everything.
AssociationStops(c) ==
  /\ socks[c].stage = "udp"
  /\ \/ socks[c].results > 0 /\ socks' = [socks EXCEPT ![c] =
            [@ EXCEPT !.stage = "draining", !.results = @ - 1, !.tcp = "closed",
                      !.upstream = "closed", !.socket = "closed"]]
     \/ cancelled /\ socks' = [socks EXCEPT ![c] =
            [@ EXCEPT !.stage = "draining", !.tcp = "closed",
                      !.upstream = "closed", !.socket = "closed"]]
  /\ UNCHANGED <<serve, holding, cancelled>>

\* Two more results are awaited before the call returns.
AwaitRelays(c) ==
  /\ socks[c].stage = "draining"
  /\ IF socks[c].drained = 2
     THEN socks' = [socks EXCEPT ![c] = Ended(@)]
     ELSE /\ socks[c].results > 0
          /\ socks' = [socks EXCEPT ![c].results = @ - 1, ![c].drained = @ + 1]
  /\ UNCHANGED <<serve, holding, cancelled>>

SocksNext ==
  \/ Admit \/ AcceptFails \/ ServeReturns \/ ContextEnds
  \/ \E c \in SocksClients :
       \/ AcceptSocks(c) \/ ContextCloses(c) \/ HandshakeFails(c)
       \/ \E hint \in {0} \cup Ports : Handshake(c, hint)
       \/ ConnectReturns(c) \/ AssociateReturns(c) \/ OpenFails(c) \/ ReplySucceeds(c) \/ RelayEnds(c)
       \/ Bind(c) \/ BindFails(c) \/ relayAssociationToSOCKSUDP(c)
       \/ \E port \in Ports, decoded \in BOOLEAN : relaySOCKSUDPToAssociation(c, port, decoded)
       \/ \E g \in Relays : RelaySends(c, g)
       \/ AssociationStops(c) \/ AwaitRelays(c)

----------------------------------------------------------------------------
(* Properties.                                                             *)

\* What a connection opened is closed when its goroutine returns, and Serve
\* returns only when every accepted connection is closed, on whichever of its
\* paths (Serve's wait, serveConn's deferred calls).
ReturnsWithNothingOpen ==
  /\ \A c \in SocksClients : socks[c].stage = "ended" =>
       "open" \notin {socks[c].tcp, socks[c].upstream, socks[c].socket}
  /\ serve = "returned" => \A c \in SocksClients : socks[c].tcp # "open"

\* The semaphore bounds what is served, and a goroutine that waits for two
\* results always has them to come: each relay sends exactly one
\* (serveUDPAssociate's results channel).
ResultsAreEnough ==
  /\ Cardinality(Served) <= MaxConnections
  /\ \A c \in SocksClients : socks[c].stage \in {"udp", "draining"} =>
       LET running == {g \in Relays : socks[c].relays[g] = "running"} IN
       socks[c].results + Cardinality(running) >= 2 - socks[c].drained

\* An association serves one local port, the hinted one if there is a hint:
\* nobody else's datagrams are forwarded and nobody else gets the answers
\* (udpClientTracker).
OneLocalClient ==
  \A c \in SocksClients :
    LET served == socks[c].forwarded \cup socks[c].replied IN
    /\ Cardinality(served) <= 1
    /\ socks[c].hint # 0 => served \subseteq {socks[c].hint}

SocksIsSound == ReturnsWithNothingOpen /\ ResultsAreEnough /\ OneLocalClient
=============================================================================
