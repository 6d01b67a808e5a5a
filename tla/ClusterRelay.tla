---------------------------- MODULE ClusterRelay ----------------------------
(***************************************************************************)
(* The data plane between the nodes of a cluster: internal/clusterrelay    *)
(* (runtime.go, peers.go, state_cache.go) with the relay and route rules   *)
(* of internal/cluster and the wiring of internal/app/cluster_relay.go.    *)
(*                                                                         *)
(* A flow enters at some node, which resolves the user's route from the    *)
(* cluster state - the master from its own store, an edge from a cache it  *)
(* refreshes from the master - and opens the next node over one pooled     *)
(* NP/2 session per peer.  The next node handles the relay request inside  *)
(* the caller's Mux.Open, so an open is a stack of calls, one frame per    *)
(* node; a frame whose Open fails evicts its session and tries once more.  *)
(* Nodes form the star that enrolment builds: each edge is configured with *)
(* the master only, the master with every edge.                            *)
(*                                                                         *)
(* Both kinds of node have a LoadState in production, so nobody sends the  *)
(* "resolve" request of runtime.go and its branch of HandleRelay is left   *)
(* out.  Targets, users and matching are reduced to what the resolution of *)
(* one user's flow yields under each published policy.                     *)
(***************************************************************************)
EXTENDS Integers, FiniteSets, SequencesExt

CONSTANTS Edges,         \* identifiers of the edge nodes
          Policies,      \* what the master may publish for the user
          Hints,         \* client route requests, AutoHint and NoHint included
          MaxRevisions,  \* bound on published revisions
          MaxRelayed,    \* bound on flows
          MaxPeerings,   \* bound on sessions ever connected
          Ttl,           \* defaultStateCacheTTL, in ticks
          MaxStale,      \* defaultStateMaximumStaleness, in ticks
          MaxClock        \* bound on ticks

VARIABLES published, \* sequence of [policy, at]: the master's revisions
          cache,     \* per edge: [rev, at] of the cached state, rev 0 for none
          pool,      \* per node and peer: the pooled session, 0 for none
          muxes,     \* per session: none, up, broken or closed
          halted,    \* nodes whose pool is closed
          relayed,   \* per flow: its program counter and stack of opens
          clock        \* time

relayVars == <<published, cache, pool, muxes, halted, relayed, clock>>

TheMaster == "master"
AllNodes == Edges \cup {TheMaster}
Peerings == 1..MaxPeerings
Relayed == 1..MaxRelayed
MaxRouteHops == 3
NoHint == [kind |-> "none", path |-> <<>>]
AutoHint == [kind |-> "auto", path |-> <<>>]
CurrentState == [kind |-> "current", path |-> <<>>]
Invalid == [kind |-> "invalid", path |-> <<>>]

\* The cache refreshes before it would be too old to serve, and routes name
\* nodes of the cluster.
ASSUME RelayBounds ==
  /\ {MaxRevisions, MaxRelayed, MaxPeerings, Ttl, MaxStale, MaxClock} \subseteq Nat
  /\ Ttl <= MaxStale
  /\ \A p \in Policies : p.action.path \in Seq(AllNodes)
  /\ \A h \in Hints : h.path \in Seq(AllNodes)

NoRelay == [pc |-> "idle", stack |-> <<>>, from |-> TheMaster, exit |-> TheMaster, rev |-> 0,
            action |-> CurrentState]

RelayInit ==
  /\ \E p \in Policies : published = <<[policy |-> p, at |-> 0]>>
  /\ cache = [e \in Edges |-> [rev |-> 0, at |-> 0]]
  /\ pool = [n \in AllNodes |-> [m \in AllNodes |-> 0]]
  /\ muxes = [s \in Peerings |-> "none"]
  /\ halted = {}
  /\ relayed = [f \in Relayed |-> NoRelay]
  /\ clock = 0

\* The star of enrolment: the peers a node is configured with.
PeersOf(n) == IF n = TheMaster THEN Edges ELSE {TheMaster}

----------------------------------------------------------------------------
(* Policy: relay.go and client_route.go of internal/cluster.               *)

Permitted(policy, path) == Range(path) \subseteq policy.nodes

ResolveRouteForUser(policy) ==
  IF ~policy.granted THEN CurrentState
  ELSE IF Permitted(policy, policy.action.path) THEN policy.action ELSE Invalid

ResolveClientRouteForUser(policy, hint) ==
  IF ~policy.client THEN Invalid
  ELSE IF policy.granted /\ policy.mandatory THEN policy.action
  ELSE IF hint = AutoHint THEN ResolveRouteForUser(policy)
  ELSE IF Permitted(policy, hint.path) THEN hint ELSE Invalid

Resolve(policy, hint) ==
  IF hint = NoHint THEN ResolveRouteForUser(policy)
                   ELSE ResolveClientRouteForUser(policy, hint)

\* Where applyAction sends a path at node n: edges detour over the master.
Onward(n, path) == IF path # <<>> /\ Head(path) = n THEN Tail(path) ELSE path

RelayRequest(n, path, visited) ==
  IF n = TheMaster \/ Head(path) = TheMaster
  THEN [node |-> n, to |-> Head(path), visited |-> visited, remaining |-> Tail(path),
        attempt |-> 1, session |-> 0]
  ELSE [node |-> n, to |-> TheMaster, visited |-> visited, remaining |-> path,
        attempt |-> 1, session |-> 0]

Hops(request) == Len(request.remaining) + 1

ValidateRelayRequest(request, n) ==
  /\ Len(request.visited) <= MaxRouteHops
  /\ Hops(request) <= MaxRouteHops
  /\ n \notin Range(request.visited \o request.remaining)
  /\ IsInjective(request.visited \o request.remaining)

----------------------------------------------------------------------------
(* The pool: peers.go.                                                     *)

Unconnected == {s \in Peerings : muxes[s] = "none"}
Fresh == Min(Unconnected)

Works(s) == IF s = 0 THEN FALSE ELSE muxes[s] = "up"

\* Mutant of Evicted: whatever session is pooled by now is forgotten.
EvictedAny(n, m, s) == [pool EXCEPT ![n][m] = 0]

Evicted(n, m, s) == IF pool[n][m] = s THEN [pool EXCEPT ![n][m] = 0] ELSE pool

\* A control request of n to m answered over the pool: the pooled session if
\* it works, else a new one in its place.
Reach(n, m) ==
  \/ /\ Works(pool[n][m])
     /\ UNCHANGED <<pool, muxes>>
  \/ /\ ~Works(pool[n][m])
     /\ Unconnected # {} /\ n \notin halted
     /\ pool' = [pool EXCEPT ![n][m] = Fresh]
     /\ muxes' = [s \in Peerings |->
                    IF s = Fresh THEN "up"
                    ELSE IF s = pool[n][m] THEN "closed" ELSE muxes[s]]

\* A control request that fails on both attempts leaves no session behind.
Unreached(n, m) ==
  /\ pool' = [pool EXCEPT ![n][m] = 0]
  /\ muxes' = [s \in Peerings |-> IF s = pool[n][m] THEN "closed" ELSE muxes[s]]

\* FetchCatalog, GeoData and SyncCredential: requests whose answers the data
\* plane does not use.
PoolRequest(n, m) ==
  /\ m \in PeersOf(n)
  /\ pool[n][m] # 0
  /\ Unreached(n, m)
  /\ UNCHANGED <<published, cache, halted, relayed, clock>>

SessionBreaks(s) ==
  /\ muxes[s] = "up"
  /\ muxes' = [muxes EXCEPT ![s] = "broken"]
  /\ UNCHANGED <<published, cache, pool, halted, relayed, clock>>

ClosePool(n) ==
  /\ n \notin halted
  /\ halted' = halted \cup {n}
  /\ muxes' = [s \in Peerings |-> IF s \in Range(pool[n]) THEN "closed" ELSE muxes[s]]
  /\ pool' = [pool EXCEPT ![n] = [m \in AllNodes |-> 0]]
  /\ UNCHANGED <<published, cache, relayed, clock>>

----------------------------------------------------------------------------
(* Cluster state: the master's store and the edges' cache.                 *)

Publish(p) ==
  /\ Len(published) < MaxRevisions
  /\ published' = Append(published, [policy |-> p, at |-> clock])
  /\ UNCHANGED <<cache, pool, muxes, halted, relayed, clock>>

ClockTicks ==
  /\ clock < MaxClock
  /\ clock' = clock + 1
  /\ UNCHANGED <<published, cache, pool, muxes, halted, relayed>>

accepts(e, rev) ==
  /\ rev >= cache[e].rev
  /\ e \in published[rev].policy.enabled

\* Mutant of Servable: any cached state will do while the master is away.
ServableForever(e) == cache[e].rev # 0

\* Whether the cached state may stand in for a fetch that failed.
Servable(e) == cache[e].rev # 0 /\ clock - cache[e].at <= MaxStale

\* The state a flow at node n is resolved with; rev 0 is an error.
LoadState(n, rev) ==
  \/ /\ n = TheMaster
     /\ rev = Len(published)
     /\ UNCHANGED <<cache, pool, muxes>>
  \/ /\ n # TheMaster
     /\ cache[n].rev # 0 /\ clock - cache[n].at < Ttl
     /\ rev = cache[n].rev
     /\ UNCHANGED <<cache, pool, muxes>>
  \/ /\ n # TheMaster
     /\ cache[n].rev = 0 \/ clock - cache[n].at >= Ttl
     /\ \/ /\ Reach(n, TheMaster)
           /\ IF accepts(n, Len(published))
              THEN /\ rev = Len(published)
                   /\ cache' = [cache EXCEPT ![n] = [rev |-> rev, at |-> clock]]
              ELSE rev = 0 /\ UNCHANGED cache
        \/ /\ Unreached(n, TheMaster)
           /\ rev = IF Servable(n) THEN cache[n].rev ELSE 0
           /\ UNCHANGED cache

----------------------------------------------------------------------------
(* A flow.                                                                 *)

Top(f) == Last(relayed[f].stack)
Set(f, record) == relayed' = [relayed EXCEPT ![f] = record]
SetTop(f, pc, frame) ==
  Set(f, [relayed[f] EXCEPT !.pc = pc, !.stack = Append(Front(@), frame)])

\* Open returns an error: the flow fails, or the caller's own Open is refused.
OpenFails(f) ==
  IF Len(relayed[f].stack) <= 1 THEN Set(f, NoRelay)
  ELSE Set(f, [relayed[f] EXCEPT !.pc = "refused", !.stack = Front(@)])

applyAction(f, n, rev, action) ==
  LET path  == Onward(n, action.path)
      start == [NoRelay EXCEPT !.from = n, !.rev = rev, !.action = action]
  IN  IF action.kind \in {"block", "invalid"} THEN Set(f, NoRelay)
      ELSE IF path = <<>> THEN Set(f, [start EXCEPT !.pc = "up", !.exit = n])
      ELSE IF Hops(RelayRequest(n, path, <<n>>)) > MaxRouteHops THEN Set(f, NoRelay)
      ELSE Set(f, [start EXCEPT !.pc = "session", !.stack = <<RelayRequest(n, path, <<n>>)>>])

\* route and routeClient.
RouteFlow(f, n, hint) ==
  /\ relayed[f].pc = "idle"
  /\ n \notin halted
  /\ \E rev \in 0..MaxRevisions :
       /\ LoadState(n, rev)
       /\ IF rev = 0 THEN Set(f, NoRelay)
          ELSE applyAction(f, n, rev, Resolve(published[rev].policy, hint))
  /\ UNCHANGED <<published, halted, clock>>

PooledSession(f) ==
  LET t == Top(f) IN
  /\ relayed[f].pc = "session"
  /\ \/ /\ t.node \notin halted /\ pool[t.node][t.to] # 0
        /\ SetTop(f, "open", [t EXCEPT !.session = pool[t.node][t.to]])
     \/ /\ t.node \notin halted /\ pool[t.node][t.to] = 0 /\ t.to \in PeersOf(t.node)
        /\ SetTop(f, "connecting", t)
     \/ /\ t.node \in halted \/ t.to \notin PeersOf(t.node)
        /\ OpenFails(f)
  /\ UNCHANGED <<published, cache, pool, muxes, halted, clock>>

Connected(f) ==
  LET t == Top(f) IN
  /\ relayed[f].pc = "connecting"
  /\ \/ UNCHANGED <<pool, muxes>> /\ OpenFails(f)
     \/ /\ Unconnected # {}
        /\ \/ /\ t.node \in halted
              /\ muxes' = [muxes EXCEPT ![Fresh] = "closed"]
              /\ UNCHANGED pool
              /\ OpenFails(f)
           \/ /\ t.node \notin halted /\ pool[t.node][t.to] # 0
              /\ muxes' = [muxes EXCEPT ![Fresh] = "closed"]
              /\ UNCHANGED pool
              /\ SetTop(f, "open", [t EXCEPT !.session = pool[t.node][t.to]])
           \/ /\ t.node \notin halted /\ pool[t.node][t.to] = 0
              /\ muxes' = [muxes EXCEPT ![Fresh] = "up"]
              /\ pool' = [pool EXCEPT ![t.node][t.to] = Fresh]
              /\ SetTop(f, "open", [t EXCEPT !.session = Fresh])
  /\ UNCHANGED <<published, cache, halted, clock>>

\* Mux.Open and the peer's HandleRelay: refuse, dial the target, or go on.
HandleRelay(f) ==
  LET t == Top(f)
      visited == Append(t.visited, t.to) IN
  /\ relayed[f].pc = "open"
  /\ \/ /\ muxes[t.session] # "up" \/ ~ValidateRelayRequest(t, t.to)
        /\ Set(f, [relayed[f] EXCEPT !.pc = "refused"])
     \/ /\ muxes[t.session] = "up" /\ ValidateRelayRequest(t, t.to)
        /\ t.remaining = <<>>
        /\ \E pc \in {"up", "refused"} :
             Set(f, [relayed[f] EXCEPT !.pc = pc,
                       !.exit = IF pc = "up" THEN t.to ELSE @])
     \/ /\ muxes[t.session] = "up" /\ ValidateRelayRequest(t, t.to)
        /\ t.remaining # <<>>
        /\ Set(f, [relayed[f] EXCEPT !.pc = "session",
                     !.stack = Append(@, [node |-> t.to, to |-> Head(t.remaining),
                                          visited |-> visited, remaining |-> Tail(t.remaining),
                                          attempt |-> 1, session |-> 0])])
  /\ UNCHANGED <<published, cache, pool, muxes, halted, clock>>

\* Open's second half after an error: evict the session, try again once.
evict(f) ==
  LET t == Top(f) IN
  /\ relayed[f].pc = "refused"
  /\ pool' = Evicted(t.node, t.to, t.session)
  /\ muxes' = [muxes EXCEPT ![t.session] = "closed"]
  /\ IF t.attempt = 1
     THEN SetTop(f, "session", [t EXCEPT !.attempt = 2, !.session = 0])
     ELSE OpenFails(f)
  /\ UNCHANGED <<published, cache, halted, clock>>

\* A session under a flow has gone: an established flow ends, a pending open
\* above it is abandoned and the caller sees its Open fail.
SessionLost(f) ==
  LET lost == {i \in 1..Len(relayed[f].stack) :
                 LET s == relayed[f].stack[i].session IN s # 0 /\ muxes[s] # "up"} IN
  /\ lost # {}
  /\ \/ /\ relayed[f].pc = "up"
        /\ Set(f, NoRelay)
     \/ /\ relayed[f].pc # "up"
        /\ Min(lost) < Len(relayed[f].stack)
        /\ Set(f, [relayed[f] EXCEPT !.pc = "refused",
                     !.stack = SubSeq(@, 1, Min(lost))])
  /\ UNCHANGED <<published, cache, pool, muxes, halted, clock>>

RelayedEnds(f) ==
  /\ relayed[f].pc = "up"
  /\ Set(f, NoRelay)
  /\ UNCHANGED <<published, cache, pool, muxes, halted, clock>>

RelaySteps(f) ==
  \/ \E n \in AllNodes, hint \in Hints : RouteFlow(f, n, hint)
  \/ PooledSession(f)
  \/ Connected(f)
  \/ HandleRelay(f)
  \/ evict(f)
  \/ SessionLost(f)
  \/ RelayedEnds(f)

RelayNext ==
  \/ \E f \in Relayed : RelaySteps(f)
  \/ \E n, m \in AllNodes : PoolRequest(n, m)
  \/ \E s \in Peerings : SessionBreaks(s)
  \/ \E n \in AllNodes : ClosePool(n)
  \/ \E p \in Policies : Publish(p)
  \/ ClockTicks

RelaySpec == RelayInit /\ [][RelayNext]_relayVars

----------------------------------------------------------------------------
(* Properties.                                                             *)

\* A flow that is up has travelled a path without a repeated node, of at most
\* MaxRouteHops hops, and ended at the node its resolved action names last
\* (the entry node when it names none): the loop and hop checks of
\* ValidateRelayRequest with the detour of applyAction never deliver a flow
\* somewhere else.
RelayEndsAtExit ==
  \A f \in Relayed : relayed[f].pc = "up" =>
    LET r     == relayed[f]
        nodes == [i \in 1..Len(r.stack) |-> r.stack[i].node]
        wanted == IF r.action.path = <<>> THEN r.from ELSE Last(r.action.path)
    IN  /\ r.exit = wanted
        /\ IsInjective(Append(nodes, r.exit))
        /\ Len(nodes) <= MaxRouteHops

\* A flow is never routed by a revision that was superseded longer than the
\* cache's staleness limit before: a change the master publishes reaches every
\* edge within that time, whatever requests to the master fail (StateCache.Load).
PolicyBoundedStale ==
  [][\A f \in Relayed :
       LET r == relayed'[f] IN
       relayed[f].pc = "idle" /\ r.pc # "idle" /\ r.rev < Len(published) =>
         /\ r.from # TheMaster
         /\ published[r.rev + 1].at >= clock - MaxStale]_relayVars

\* No session leaks: every session whose multiplexer is still open is the one
\* pooled for its peer or is held by an open in progress, however connects,
\* evictions and the closing of the pool interleave (PeerPool.session, evict,
\* Close).
SessionsAreHeld ==
  \A s \in Peerings : muxes[s] \in {"up", "broken"} =>
    \E n \in AllNodes \ halted, m \in AllNodes : pool[n][m] = s

\* Flows end where their route says and pools keep every session they opened.
RelaysAreSound == RelayEndsAtExit /\ SessionsAreHeld
=============================================================================
