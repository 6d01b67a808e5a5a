------------------------------ MODULE UdpRelay ------------------------------
(***************************************************************************)
(* What the server does with the datagrams of one UDP association.  The    *)
(* direct relay (relayUDPAssociation) sends them from one socket and lets  *)
(* replies back from the addresses it has written to, within the           *)
(* amplification allowance; the routed one (relayRoutedUDPAssociation)     *)
(* opens one stream per target through a router and joins its workers when *)
(* it ends.  Each datagram first passes the limiter's token buckets.       *)
(***************************************************************************)
EXTENDS Integers, FiniteSets

CONSTANTS
    Targets,          \* logical targets a client may name
    MaxTargets,       \* maxUDPAssociationTargets
    PacketRate, TargetRate,   \* burst of the limiter's buckets
    Mtu,              \* antiAmplificationMTU, in units of payload
    MaxDatagrams,     \* bound: datagrams the client sends
    MaxRefills        \* bound: times the buckets fill up again

Modes   == {"direct", "routed"}
Sizes   == 0 .. 1               \* client payloads
Replies == 0 .. Mtu + 4         \* target payloads
NoTarget == "none"

\* The limits and the MTU are counts.
ASSUME UdpBounds == MaxTargets \in Nat /\ Mtu \in Nat

VARIABLES
    mode,      \* which of the two relays serves the association
    peer,    \* the client reader: pc, the datagram in hand, how many were read
    tokens,    \* the limiter: packets and targets left, refills used
    allowed,   \* direct: the addresses written to, with bytes sent and `replied`
    seen,      \* direct: seenTargets
    replies,   \* history, direct: bytes relayed back before the first reply is in
    routes,    \* routed: routes that are in the map
    links,     \* routed: the streams opened, open or closed, with live workers
    main,      \* the relay's own goroutine: run, cleanup, wait, done
    late       \* routed: streams entered after cleanup has walked the map

udpVars == <<mode, peer, tokens, allowed, seen, replies, routes, links, main, late>>

UdpInit ==
    /\ mode \in Modes
    /\ peer = [pc |-> "read", target |-> NoTarget, size |-> 0, count |-> 0]
    /\ tokens = [packets |-> PacketRate, targets |-> TargetRate, refills |-> 0]
    /\ allowed = <<>> /\ seen = {} /\ replies = [t \in Targets |-> {}]
    /\ routes = {} /\ links = [t \in Targets |-> {}]
    /\ main = "run" /\ late = {}

Aborted   == main # "run"
NextDatagram(c)  == [c EXCEPT !.pc = "read", !.target = NoTarget, !.size = 0]

---------------------------------------------------------------------------
(* ResourceLimiter.AllowUDPPacket: every bucket has enough, or none pays.  *)

AllowUDPPacket(new) == tokens.packets >= 1 /\ (new => tokens.targets >= 1)

Debit(new) == [tokens EXCEPT !.packets = @ - 1, !.targets = IF new THEN @ - 1 ELSE @]

\* tokenBucket.refill after a second or more.
refill ==
    /\ tokens.refills < MaxRefills
    /\ tokens' = [packets |-> PacketRate, targets |-> TargetRate, refills |-> tokens.refills + 1]
    /\ UNCHANGED <<mode, peer, allowed, seen, replies, routes, links, main, late>>

---------------------------------------------------------------------------
\* The association gives the reader a datagram, or ends: closed by the peer,
\* an error, or aborted by the relay's own goroutine.
ReadClient(t, n) ==
    /\ peer.pc = "read" /\ ~Aborted /\ peer.count < MaxDatagrams
    /\ peer' = [pc |-> "got", target |-> t, size |-> n, count |-> peer.count + 1]
    /\ UNCHANGED <<mode, tokens, allowed, seen, replies, routes, links, main, late>>

ClientEnds ==
    /\ peer.pc = "read"
    /\ peer' = [peer EXCEPT !.pc = "done"]
    /\ UNCHANGED <<mode, tokens, allowed, seen, replies, routes, links, main, late>>

---------------------------------------------------------------------------
(* relayUDPAssociation. *)

\* seenTargets, the limiter, the resolver and the address table, in this
\* order; a refusal answers with an error record and reads on.
Admit(resolves) ==
    LET t == peer.target  new == t \notin seen IN
    /\ mode = "direct" /\ peer.pc = "got"
    /\ IF new /\ Cardinality(seen) >= MaxTargets
       THEN peer' = NextDatagram(peer) /\ UNCHANGED <<tokens, seen, allowed>>
       ELSE IF ~AllowUDPPacket(new)
       THEN peer' = NextDatagram(peer) /\ UNCHANGED <<tokens, seen, allowed>>
       ELSE /\ tokens' = Debit(new)
            /\ seen' = seen \cup {t}
            /\ IF resolves /\ (t \in DOMAIN allowed \/ Cardinality(DOMAIN allowed) < MaxTargets)
               THEN /\ allowed' = IF t \in DOMAIN allowed
                                  THEN [allowed EXCEPT ![t].bytes = @ + peer.size]
                                  ELSE [a \in DOMAIN allowed \cup {t} |->
                                          IF a = t THEN [bytes |-> peer.size, replied |-> FALSE]
                                                   ELSE allowed[a]]
                    /\ peer' = [peer EXCEPT !.pc = "write"]
               ELSE peer' = NextDatagram(peer) /\ UNCHANGED allowed
    /\ UNCHANGED <<mode, replies, routes, links, main, late>>

\* WriteTo: an error, or the socket the main goroutine closed, ends the reader.
WriteTo(ok) ==
    /\ mode = "direct" /\ peer.pc = "write"
    /\ peer' = IF ok /\ ~Aborted THEN NextDatagram(peer) ELSE [peer EXCEPT !.pc = "done"]
    /\ UNCHANGED <<mode, tokens, allowed, seen, replies, routes, links, main, late>>

\* Contains and AllowReply: any amount once a reply has been let through; the first one at
\* most the MTU and three times what the client sent to this address.
AllowReply(a, n) ==
    /\ a \in DOMAIN allowed
    /\ allowed[a].replied \/ n <= Mtu + 3 * allowed[a].bytes

Reply(a, n) ==
    /\ mode = "direct" /\ main = "run"
    /\ AllowReply(a, n)
    /\ replies' = IF allowed[a].replied THEN replies
                  ELSE [replies EXCEPT ![a] = @ \cup {<<n, allowed[a].bytes>>}]
    /\ allowed' = [allowed EXCEPT ![a].replied = TRUE]
    /\ UNCHANGED <<mode, peer, tokens, seen, routes, links, main, late>>

---------------------------------------------------------------------------
(* relayRoutedUDPAssociation. *)

\* The reader looks the target up, pays, and checks the number of routes.
Lookup ==
    LET t == peer.target  new == t \notin routes IN
    /\ mode = "routed" /\ peer.pc = "got"
    /\ IF ~AllowUDPPacket(new)
       THEN peer' = NextDatagram(peer) /\ UNCHANGED tokens
       ELSE /\ tokens' = Debit(new)
            /\ peer' = IF ~new THEN [peer EXCEPT !.pc = "forward"]
                         ELSE IF Cardinality(routes) >= MaxTargets THEN NextDatagram(peer)
                         ELSE [peer EXCEPT !.pc = "route"]
    /\ UNCHANGED <<mode, allowed, seen, replies, routes, links, main, late>>

\* RouteUDP or the local terminal stream: an error record, or an open stream.
RouteUDP(ok) ==
    /\ mode = "routed" /\ peer.pc = "route"
    /\ IF ok THEN /\ peer' = [peer EXCEPT !.pc = "insert"]
                  /\ links' = [links EXCEPT ![peer.target] = {"open"}]
             ELSE peer' = NextDatagram(peer) /\ UNCHANGED links
    /\ UNCHANGED <<mode, tokens, allowed, seen, replies, routes, main, late>>

\* The route enters the map under the lock, and its worker starts.
Insert ==
    /\ mode = "routed" /\ peer.pc = "insert"
    /\ routes' = routes \cup {peer.target}
    /\ links' = [links EXCEPT ![peer.target] = @ \cup {"worker"}]
    /\ late' = IF main \in {"run", "cleanup"} THEN late ELSE late \cup {peer.target}
    /\ peer' = [peer EXCEPT !.pc = "forward"]
    /\ UNCHANGED <<mode, tokens, allowed, seen, replies, main>>

\* route.association.WriteDatagram: a closed stream ends the reader.
Forward ==
    /\ mode = "routed" /\ peer.pc = "forward"
    /\ peer' = IF "open" \in links[peer.target] THEN NextDatagram(peer)
                                                   ELSE [peer EXCEPT !.pc = "done"]
    /\ UNCHANGED <<mode, tokens, allowed, seen, replies, routes, links, main, late>>

\* A worker ends when its stream does, or when writing back to the aborted
\* association fails; the peer of a stream may close it.
WorkerEnds(t) ==
    /\ "worker" \in links[t] /\ ("open" \notin links[t] \/ Aborted)
    /\ links' = [links EXCEPT ![t] = @ \ {"worker"}]
    /\ UNCHANGED <<mode, peer, tokens, allowed, seen, replies, routes, main, late>>

PeerCloses(t) ==
    /\ "open" \in links[t]
    /\ links' = [links EXCEPT ![t] = @ \ {"open"}]
    /\ UNCHANGED <<mode, peer, tokens, allowed, seen, replies, routes, main, late>>

---------------------------------------------------------------------------
\* The relay stops: a result, the idle timer, or the session's context.
RelayStops ==
    /\ main = "run"
    /\ main' = "cleanup"
    /\ UNCHANGED <<mode, peer, tokens, allowed, seen, replies, routes, links, late>>

\* cancel and Abort have run; the map is walked under its lock.  The direct
\* relay has closed its socket and waits for the second result.
cleanup ==
    /\ main = "cleanup"
    /\ links' = [t \in Targets |-> IF t \in routes THEN links[t] \ {"open"} ELSE links[t]]
    /\ main' = "wait"
    /\ UNCHANGED <<mode, peer, tokens, allowed, seen, replies, routes, late>>

\* Mutant of workersWait: the relay returns without the client reader's result.
workersWaitOnly ==
    /\ main = "wait"
    /\ \A t \in Targets : "worker" \notin links[t]
    /\ main' = "done"
    /\ UNCHANGED <<mode, peer, tokens, allowed, seen, replies, routes, links, late>>

workersWait ==
    /\ main = "wait" /\ peer.pc = "done"
    /\ \A t \in Targets : "worker" \notin links[t]
    /\ main' = "done"
    /\ UNCHANGED <<mode, peer, tokens, allowed, seen, replies, routes, links, late>>

UdpNext ==
    \/ refill \/ ClientEnds \/ Lookup \/ Insert \/ Forward
    \/ \E t \in Targets : WorkerEnds(t) \/ PeerCloses(t)
    \/ \E t \in Targets, n \in Sizes : ReadClient(t, n)
    \/ \E ok \in BOOLEAN : Admit(ok) \/ WriteTo(ok) \/ RouteUDP(ok)
    \/ \E t \in Targets, n \in Replies : Reply(t, n)
    \/ RelayStops \/ cleanup \/ workersWait

UdpSpec == UdpInit /\ [][UdpNext]_udpVars

---------------------------------------------------------------------------
\* A target sees no more of its replies relayed before its first accepted one
\* than the allowance for what the client had by then sent to it, and replies
\* come only from addresses the relay has admitted (allowedUDPAddresses).
RepliesWithinAllowance ==
    \A t \in Targets :
       /\ Cardinality(replies[t]) <= 1
       /\ \A r \in replies[t] : t \in seen /\ r[1] <= Mtu + 3 * r[2]
                                           /\ r[2] <= allowed[t].bytes

\* When relayRoutedUDPAssociation returns it has joined every worker and
\* closed every stream it opened, but for a route entered after cleanup had
\* walked the map (`late`); and it never holds more routes than the limit.
RoutesAreJoined ==
    /\ Cardinality(routes) <= MaxTargets
    /\ main = "done" => \A t \in Targets \ late : links[t] = {}

\* The association relays what it may and ends with what it opened.
UdpRelayIsSound == RepliesWithinAllowance /\ RoutesAreJoined
=============================================================================
