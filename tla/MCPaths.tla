------------------------------- MODULE MCPaths -------------------------------
(***************************************************************************)
(* The components through which a client's traffic finds its path, one at  *)
(* a time: the race for a carrier and the servers that admit it, the hub   *)
(* of carriers on the server, the router of flows over them on the client, *)
(* the flows of the tunnel and the local SOCKS5 server.  A behaviour       *)
(* exercises the component its initial state names and leaves the others   *)
(* untouched, so the reachable states are the union of theirs.             *)
(***************************************************************************)
EXTENDS Constellation, FlowRouter, CarrierRace, CarrierServers, TunFlow, SocksServer

VARIABLE exercised

MCInit ==
    /\ exercised \in {"hub", "router", "race", "servers", "tunnel", "socks"}
    /\ Init /\ FlowRouterInit /\ TunInit /\ SocksInit
    /\ RaceInit /\ (http3Configured \/ exercised = "race")
    /\ ServersInit /\ (front = "webrtc" \/ exercised = "servers")

\* The hub is closed around two sessions; three share it while it is open, and
\* the third attaches to a constellation.
MCHub == Next /\ (closed' => h'[3].pc = "none") /\ h'[3].kind # "create"

\* Two flows at a time; a third once the others have ended with the worker
\* not having come to both.
MCRouter ==
    /\ FlowRouterNext
    /\ opened' > 2 => opened > 2 \/ (queue # <<>> /\ \A f \in 1 .. 2 : flow[f].closed)

\* A second race starts when the first is over, with what it left in the cache.
MCRace ==
    /\ RaceNext
    /\ race'["r2"].phase = "racing" =>
         race["r1"].phase \in {"returned", "failed"}

\* Either several queries, or at most one and a flow.
MCTunnel ==
    /\ TunNext
    /\ tun' # tun => told.sent <= 1 /\ writes = {}
    /\ told'.sent > 1 => \A f \in TunFlows : tun[f].phase = "idle"

\* The second client holds the semaphore or waits for it, with a CONNECT.
MCSocks == SocksNext /\ socks'["s2"].stage # "associating"

\* The records of a response: an address, a chain of CNAMEs in reverse order
\* with an address at each end, a CNAME without lifetime and an unrelated
\* record, and the address of another name.
Record(o, k, v, t) == [owner |-> o, kind |-> k, value |-> v, ttl |-> t]
MCAnswers ==
    { <<Record("q", "A", "a1", 1)>>,
      <<Record("c", "A", "a1", 2), Record("d", "A", "a2", 2),
        Record("c", "CNAME", "d", 1), Record("q", "CNAME", "c", 2)>>,
      <<Record("q", "CNAME", "c", 0), Record("c", "A", "a1", 2),
        Record("q", "A", "a2", 2), Record("x", "A", "a1", 2)>>,
      <<Record("r", "A", "a1", 1)>> }

MCNext ==
    /\ UNCHANGED exercised
    /\ \/ exercised = "hub" /\ MCHub
          /\ UNCHANGED <<routerVars, raceVars, serverVars, tunVars, socksVars>>
       \/ exercised = "router" /\ MCRouter
          /\ UNCHANGED <<vars, raceVars, serverVars, tunVars, socksVars>>
       \/ exercised = "race" /\ MCRace
          /\ UNCHANGED <<vars, routerVars, serverVars, tunVars, socksVars>>
       \/ exercised = "servers" /\ ServersNext
          /\ UNCHANGED <<vars, routerVars, raceVars, tunVars, socksVars>>
       \/ exercised = "tunnel" /\ MCTunnel
          /\ UNCHANGED <<vars, routerVars, raceVars, serverVars, socksVars>>
       \/ exercised = "socks" /\ MCSocks
          /\ UNCHANGED <<vars, routerVars, raceVars, serverVars, tunVars>>

MCSpec ==
    MCInit /\ [][MCNext]_<<exercised, vars, routerVars, raceVars, serverVars, tunVars, socksVars>>
=============================================================================
