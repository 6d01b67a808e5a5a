------------------------------ MODULE MCServer ------------------------------
(***************************************************************************)
(* The parts of a server process and of the sessions it serves, one at a   *)
(* time: a behaviour exercises the component its initial state names and   *)
(* leaves the others untouched, so the reachable states are the union of   *)
(* their state spaces.  The proxy is exercised twice, with two streams of  *)
(* any kind and with a flow that is resumed twice; so is the relay, with   *)
(* two flows under one policy, and with one flow over two sessions while   *)
(* the policy changes, time passes and pools close.                        *)
(***************************************************************************)
EXTENDS Journal, SecureSession, DatagramPath, ProxyServer, UdpRelay, ClusterRelay

VARIABLE exercised

\* Three-byte journal, payloads of up to three bytes.
MCPayloads == UNION {[1 .. n -> Byte] : n \in 0 .. 3}

\* The server knows credential a, b, both or none under the client's secret.
MCCredentials ==
    {[a |-> "x", b |-> NoSet], [a |-> "y", b |-> "x"], [a |-> "x", b |-> "x"], [a |-> "y", b |-> NoSet]}

\* Both sessions belong to one user, so that the limits per user bite.
MCOwner == [s \in CarrierSessions |-> "a"]

Path(p) == [kind |-> "path", path |-> p]

\* An optional route through one edge, and a mandatory chain one of whose edges is disabled.
MCPolicies ==
    {[action |-> Path(<<"e1">>), mandatory |-> FALSE, granted |-> TRUE, nodes |-> {TheMaster, "e1"},
      client |-> TRUE, enabled |-> Edges],
     [action |-> Path(<<"e2", "e1">>), mandatory |-> TRUE, granted |-> TRUE, nodes |-> {"e1"},
      client |-> TRUE, enabled |-> {"e1"}]}
MCHints == {NoHint, AutoHint, Path(<<"e1">>)}

MCInit ==
    /\ exercised \in {"journal", "secure", "datagrams", "streams", "flows", "udp", "relays", "policy"}
    /\ NewJournal /\ PathInit /\ ProxyInit
    /\ SecureInit /\ (exercised # "secure" => conf = CHOOSE c \in Configurations : TRUE)
    /\ UdpInit /\ (exercised # "udp" => mode = CHOOSE m \in Modes : TRUE)
    /\ RelayInit /\ (exercised \notin {"relays", "policy"}
                        => published[1].policy = CHOOSE p \in Policies : TRUE)

MCProxy ==
    /\ ProxyNext
    /\ req'[1].session # "s2"
    /\ exercised = "streams" => req'[3] = NoRequest
    /\ exercised = "flows" =>
         /\ req'[1].kind = "new"
         /\ \A i \in {2, 3} : req'[i] = NoRequest \/ req'[i].kind = "resume"

MCRelay ==
    /\ RelayNext
    /\ IF exercised = "relays" THEN UNCHANGED <<published, clock, halted>>
       ELSE /\ relayed'[2] = NoRelay /\ muxes'[3] = "none"
            /\ halted' = {} \/ UNCHANGED <<published, clock>>

MCNext ==
    /\ UNCHANGED exercised
    /\ \/ /\ exercised = "journal" /\ Next
          /\ UNCHANGED <<secureVars, pathVars, proxyVars, udpVars, relayVars>>
       \/ /\ exercised = "secure" /\ SecureNext
          /\ UNCHANGED <<vars, pathVars, proxyVars, udpVars, relayVars>>
       \/ /\ exercised = "datagrams" /\ PathNext
          /\ UNCHANGED <<vars, secureVars, proxyVars, udpVars, relayVars>>
       \/ /\ exercised \in {"streams", "flows"} /\ MCProxy
          /\ UNCHANGED <<vars, secureVars, pathVars, udpVars, relayVars>>
       \/ /\ exercised = "udp" /\ UdpNext
          /\ UNCHANGED <<vars, secureVars, pathVars, proxyVars, relayVars>>
       \/ /\ exercised \in {"relays", "policy"} /\ MCRelay
          /\ UNCHANGED <<vars, secureVars, pathVars, proxyVars, udpVars>>

MCSpec ==
    MCInit /\ [][MCNext]_<<exercised, vars, secureVars, pathVars, proxyVars, udpVars, relayVars>>
=============================================================================
