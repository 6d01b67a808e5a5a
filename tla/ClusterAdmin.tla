---------------------------- MODULE ClusterAdmin ----------------------------
(***************************************************************************)
(* The cluster as neprotoctl administers it on the master: the revisioned  *)
(* state file (nodes, routes, the access of each user), the peer files the *)
(* master keeps for every enrolled edge, and the user credentials that     *)
(* are pushed to the edges (internal/admin/cluster.go and cluster_peer.go, *)
(* internal/cluster/store.go, cmd/neprotoctl/cluster_tui_operations.go and *)
(* web_api_cluster_actions.go, web_api_route_actions.go).                  *)
(*                                                                         *)
(* The control API ("api") and the console ("tui") are two processes; each *)
(* runs one operation at a time.  A call to an edge may fail, before or    *)
(* after the edge acted on it; so may a write of the state file.           *)
(***************************************************************************)
EXTENDS Integers, SequencesExt

CONSTANTS
  EdgeIds, ClusterUsers,
  RouteNodes,     \* the sets of edges a new route may name
  MaxOperations, MaxFailed

VARIABLES
  cstate,   \* the state file: [rev, order, on, shown, route, access]
  peered,   \* edges with the peer files on the master
  held,     \* the users whose credential each edge holds
  work,     \* the operation each process is running
  limit,    \* [operations, failed, conflicts]
  behind,   \* <<edge, user>> whose last synchronisation failed or never came
  clashed,  \* one process wrote over what the other changed
  shifted   \* a rollback failed itself, or used a list filtered in place

clusterVars == <<cstate, peered, held, work, limit, behind, clashed, shifted>>

Processes == {"api", "tui"}
Master == "m"
NoAccess == [there |-> FALSE, nodes |-> <<>>, routed |-> FALSE]
NoRoute == [there |-> FALSE, nodes |-> <<>>, on |-> FALSE]

EmptyState == [rev |-> 1, order |-> <<>>, on |-> {}, shown |-> {},
               route |-> NoRoute, access |-> [u \in ClusterUsers |-> NoAccess]]

NoWork == [op |-> "none", user |-> CHOOSE u \in ClusterUsers : TRUE,
           edge |-> CHOOSE e \in EdgeIds : TRUE, pc |-> "idle", read |-> 0,
           edit |-> "none", base |-> 0, next |-> EmptyState, want |-> NoAccess,
           after |-> "end", fail |-> "end", before |-> <<>>, alias |-> FALSE, assigned |-> <<>>,
           todo |-> <<>>]

\* Some edges are enrolled, and one user has access to all of them.
ClusterInit ==
  \E n \in 1..Cardinality(EdgeIds) :
    LET u == CHOOSE v \in ClusterUsers : TRUE
        enrolled == SubSeq(SetToSeq(EdgeIds), 1, n)
        access == [there |-> TRUE, nodes |-> <<Master>> \o enrolled, routed |-> FALSE] IN
    /\ cstate = [EmptyState EXCEPT !.order = enrolled, !.on = ToSet(enrolled),
                                   !.access[u] = access]
    /\ peered = ToSet(enrolled)
    /\ held = [e \in EdgeIds |-> IF e \in ToSet(enrolled) THEN {u} ELSE {}]
    /\ work = [p \in Processes |-> NoWork]
    /\ limit = [operations |-> 0, failed |-> 0, conflicts |-> 0]
    /\ behind = {}
    /\ clashed = FALSE
    /\ shifted = FALSE

-----------------------------------------------------------------------------
(* Changes of the state, as the mutations passed to mutateCluster make     *)
(* them; each takes what the operation had read before.                    *)

EdgesOf(s) == ToSet(s.order)

ValidateState(s) ==
  /\ ToSet(s.route.nodes) \subseteq EdgesOf(s) \cup {Master}
  /\ \A u \in ClusterUsers :
       /\ ToSet(s.access[u].nodes) \subseteq EdgesOf(s) \cup {Master}
       /\ s.access[u].routed => s.route.there

UpsertClusterNode(s, w) ==
  [s EXCEPT !.order = IF w.edge \in EdgesOf(s) THEN @ ELSE Append(@, w.edge),
            !.on = IF w.edge \in w.next.on THEN @ \cup {w.edge} ELSE @ \ {w.edge},
            !.shown = IF w.edge \in w.next.shown THEN @ \cup {w.edge}
                                                 ELSE @ \ {w.edge}]

\* Refused for a node that a route names.
RemoveClusterNode(s, w) ==
  [s EXCEPT !.order = SelectSeq(@, LAMBDA e : e # w.edge),
            !.on = @ \ {w.edge}, !.shown = @ \ {w.edge},
            !.access = [u \in ClusterUsers |->
               [@[u] EXCEPT !.nodes = SelectSeq(@, LAMBDA e : e # w.edge)]]]

UpsertClusterRoute(s, w) == [s EXCEPT !.route = w.next.route]

RemoveClusterRoute(s) ==
  [s EXCEPT !.route = NoRoute,
            !.access = [u \in ClusterUsers |-> [@[u] EXCEPT !.routed = FALSE]]]

SetClusterUserAccess(s, w) == [s EXCEPT !.access[w.user] = w.want]

RemoveClusterUserAccess(s, w) == [s EXCEPT !.access[w.user] = NoAccess]

\* Whether the mutation accepts the state it finds.
Allowed(s, w) ==
  CASE w.edit = "dropNode" ->
         w.edge \in EdgesOf(s) /\ w.edge \notin ToSet(s.route.nodes)
    [] w.edit = "dropRoute" -> s.route.there
    [] w.edit = "dropAccess" -> s.access[w.user].there
    [] OTHER -> TRUE

Mutated(s, w) ==
  CASE w.edit = "putNode" -> UpsertClusterNode(s, w)
    [] w.edit = "dropNode" -> RemoveClusterNode(s, w)
    [] w.edit = "putRoute" -> UpsertClusterRoute(s, w)
    [] w.edit = "dropRoute" -> RemoveClusterRoute(s)
    [] w.edit = "putAccess" -> SetClusterUserAccess(s, w)
    [] w.edit = "dropAccess" -> RemoveClusterUserAccess(s, w)

-----------------------------------------------------------------------------
InStep(p, pc) == work[p].pc = pc
Jump(p, pc) == work' = [work EXCEPT ![p].pc = pc]
Quit(p) == work' = [work EXCEPT ![p] = NoWork]
JumpOrQuit(p, pc) == IF pc = "end" THEN Quit(p) ELSE Jump(p, pc)

Failing ==
  /\ limit.failed < MaxFailed
  /\ limit' = [limit EXCEPT !.failed = @ + 1]

Edges == <<peered, held, behind>>

\* The operation goes on with mutateCluster and continues at after, or at fail.
Edit(p, w, edit, after, fail) ==
  work' = [work EXCEPT ![p] = [w EXCEPT !.pc = "mutate", !.edit = edit,
                                        !.after = after, !.fail = fail]]

\* mutateCluster loads the state and changes it in memory.
mutateCluster(p) ==
  /\ InStep(p, "mutate")
  /\ LET w == work[p]
         s == [Mutated(cstate, w) EXCEPT !.rev = cstate.rev + 1] IN
     IF Allowed(cstate, w) /\ ValidateState(s)
       THEN work' = [work EXCEPT ![p].pc = "check", ![p].next = s,
                                 ![p].base = cstate.rev]
       ELSE JumpOrQuit(p, w.fail)
  /\ UNCHANGED <<cstate, Edges, limit, clashed, shifted>>

\* Save compares the revision with the one on disk, writes last-good ...
SaveCheck(p) ==
  /\ InStep(p, "check")
  /\ \/ cstate.rev = work[p].base /\ Jump(p, "write") /\ UNCHANGED limit
     \/ /\ cstate.rev # work[p].base
        /\ limit' = [limit EXCEPT !.conflicts = @ + 1]
        /\ JumpOrQuit(p, work[p].fail)
     \/ Failing /\ JumpOrQuit(p, work[p].fail)
  /\ UNCHANGED <<cstate, Edges, clashed, shifted>>

\* ... and then the state.
Save(p) ==
  /\ InStep(p, "write")
  /\ cstate' = work[p].next
  /\ work' = IF work[p].after = "end" THEN [work EXCEPT ![p] = NoWork]
             ELSE [work EXCEPT ![p].pc = work[p].after, ![p].next = EmptyState,
                               ![p].read = cstate'.rev]
  /\ clashed' = (clashed \/ cstate.rev # work[p].read)
  /\ UNCHANGED <<Edges, limit, shifted>>

-----------------------------------------------------------------------------
(* Credentials of a user on the edges. *)

\* The other process is changing the same user's access or the set of nodes, or
\* has changed the state since this operation read it.
Clashes(p, u) ==
  \/ \E q \in Processes \ {p} :
       \/ work[q].op \in {"create", "enrol", "remove"}
       \/ work[q].op \in {"leave", "join", "node", "assign", "unassign"} /\ work[q].user = u
  \/ work[p] # NoWork /\ cstate.rev # work[p].read

\* syncClusterUserCredentialToNodes: every peer gets the credential or its
\* revocation; an edge whose call failed may have stored it nevertheless.
Sync(p, u, nodes, ok, failed) ==
  \E lost \in SUBSET peered :
    /\ \E stored \in SUBSET lost :
         held' = [e \in EdgeIds |->
           IF e \notin peered \/ e \in lost \ stored THEN held[e]
           ELSE IF e \in nodes THEN held[e] \cup {u} ELSE held[e] \ {u}]
    /\ behind' = {b \in behind : b[2] # u}
                  \cup {<<e, u>> : e \in lost \cup (EdgeIds \ peered)}
    /\ \/ lost = {} /\ JumpOrQuit(p, ok) /\ UNCHANGED limit
       \/ lost # {} /\ Failing /\ JumpOrQuit(p, failed)
    /\ clashed' = (clashed \/ Clashes(p, u))
    /\ UNCHANGED <<cstate, peered>>

OrderedNodes(s, nodes) ==
  SelectSeq(<<Master>> \o s.order, LAMBDA e : e \in nodes)

newDefaultClusterUserAccess(s) ==
  [there |-> TRUE, nodes |-> OrderedNodes(s, s.on \cup {Master}),
   routed |-> s.route.there /\ s.route.on]

\* proposedRouteAssignment adds the master and the nodes of the route.
proposedRouteAssignment(s, u) ==
  LET old == s.access[u].nodes
      new == (ToSet(s.route.nodes) \cup {Master}) \ ToSet(old) IN
  [there |-> TRUE, nodes |-> old \o OrderedNodes(s, new), routed |-> TRUE]

\* The access list without a node, filtered in place: the slice that is kept
\* for the rollback is the same array, so its first entries are overwritten.
Without(nodes, e) == SelectSeq(nodes, LAMBDA n : n # e)

Overwritten(nodes, e) ==
  LET kept == Without(nodes, e) IN
  [i \in 1..Len(nodes) |-> IF i <= Len(kept) THEN kept[i] ELSE nodes[i]]

-----------------------------------------------------------------------------
(* Operations begin by reading the state. *)

Started(p, op, w) ==
  /\ work[p] = NoWork
  /\ limit.operations < MaxOperations
  /\ limit' = [limit EXCEPT !.operations = @ + 1]
  /\ work' = [work EXCEPT ![p] = [w EXCEPT !.op = op, !.read = cstate.rev]]
  /\ UNCHANGED <<cstate, Edges, clashed, shifted>>

At2(pc, edit, after, fail) ==
  [NoWork EXCEPT !.pc = pc, !.edit = edit, !.after = after, !.fail = fail]

enrolClusterNodeDraft(p, e) ==
  /\ e \notin peered
  /\ Started(p, "enrol", [At2("install", "putNode", "end", "unpeer") EXCEPT
                            !.edge = e, !.next.on = {e}])

\* Refused for a node that a route names; the peer files go first.
removeClusterNode(p, e) ==
  /\ e \in EdgesOf(cstate) \ ToSet(cstate.route.nodes)
  /\ Started(p, "remove", [At2("dropPeer", "dropNode", "end", "end") EXCEPT
                             !.edge = e])

PutNode(p, e, on, shown) ==
  Started(p, "flag", [At2("mutate", "putNode", "end", "end") EXCEPT
    !.edge = e, !.next.on = IF on THEN {e} ELSE {},
    !.next.shown = IF shown THEN {e} ELSE {}])

\* Only the control API hides a node before it disables it.
setClusterNodeFlag(p, e) ==
  /\ e \in EdgesOf(cstate)
  /\ LET on == e \in cstate.on
         shown == e \in cstate.shown IN
     \/ /\ on /\ shown => p = "tui"
        /\ PutNode(p, e, ~on, shown)
     \/ /\ on \/ shown
        /\ PutNode(p, e, on, ~shown)

mutateSelectedClusterNode(p, e) == removeClusterNode(p, e) \/ setClusterNodeFlag(p, e)

deleteRoute(p) ==
  /\ cstate.route.there
  /\ Started(p, "unroute", At2("mutate", "dropRoute", "end", "end"))

setRouteEnabled(p) ==
  /\ cstate.route.there
  /\ Started(p, "route", [At2("mutate", "putRoute", "end", "end") EXCEPT
                            !.next.route = [cstate.route EXCEPT !.on = ~@]])

mutateClusterRoute(p) == deleteRoute(p) \/ setRouteEnabled(p)

createClusterRoute(nodes) ==
  [there |-> TRUE, on |-> TRUE, nodes |-> OrderedNodes(cstate, nodes)]

createClusterRouteForUsersSynced(p, nodes) ==
  /\ ~cstate.route.there
  /\ nodes \subseteq EdgesOf(cstate)
  /\ Started(p, "create", [At2("mutate", "putRoute", "assign", "end") EXCEPT
       !.next.route = createClusterRoute(nodes), !.todo = SetToSeq(ClusterUsers)])

toggleUserClusterAccessSynced(p, u) ==
  IF cstate.access[u].there
    THEN Started(p, "leave", [At2("mutate", "dropAccess", "revoke", "end")
                                EXCEPT !.user = u])
    ELSE Started(p, "join", [At2("presync", "putAccess", "end", "resync") EXCEPT
                   !.user = u, !.want = newDefaultClusterUserAccess(cstate)])

toggleClusterNodeForUserSynced(p, e, u) ==
  /\ e \in cstate.on
  /\ LET old == cstate.access[u].nodes
         all == IF Master \in ToSet(old) THEN old ELSE <<Master>> \o old
         adds == e \notin ToSet(all) IN
     Started(p, "node", [At2("presync", "putAccess", "end", "resync") EXCEPT
       !.user = u, !.edge = e,
       !.want = [cstate.access[u] EXCEPT !.there = TRUE,
                   !.nodes = IF adds THEN Append(all, e) ELSE Without(all, e)],
       !.before = IF adds \/ all # old THEN old ELSE Overwritten(old, e),
       !.alias = ~adds /\ all = old /\ Overwritten(old, e) # old])

assignRouteToUserSynced(p, u) ==
  /\ cstate.route.there
  /\ Started(p, "assign", [At2("presync", "putAccess", "end", "resync") EXCEPT
       !.user = u, !.want = proposedRouteAssignment(cstate, u),
       !.before = cstate.access[u].nodes])

\* The control API also takes a route away again.
setRouteForUser(u) ==
  \/ ~cstate.access[u].routed /\ assignRouteToUserSynced("api", u)
  \/ /\ cstate.access[u].routed
     /\ Started("api", "unassign", [At2("presync", "putAccess", "end", "end") EXCEPT
          !.user = u, !.want = [cstate.access[u] EXCEPT !.routed = FALSE]])

-----------------------------------------------------------------------------
(* Enrolment and removal of an edge. *)

\* The remote side is installed over SSH, then the peer files are written;
\* InstallClusterPeer takes its files back when one of them fails.
InstallClusterPeer(p) ==
  /\ InStep(p, "install")
  /\ \/ /\ work[p].edge \notin peered
        /\ peered' = peered \cup {work[p].edge}
        /\ Jump(p, "attest")
        /\ UNCHANGED limit
     \/ work[p].edge \in peered /\ Quit(p) /\ UNCHANGED <<peered, limit>>
     \/ Failing /\ Quit(p) /\ UNCHANGED peered
  /\ UNCHANGED <<cstate, held, behind, clashed, shifted>>

attestInstalledClusterPeer(p) ==
  /\ InStep(p, "attest")
  /\ \/ Jump(p, "mutate") /\ UNCHANGED limit
     \/ Failing /\ Jump(p, "unpeer")
  /\ UNCHANGED <<cstate, Edges, clashed, shifted>>

\* RemoveClusterPeer, at the end of a failed enrolment or first in a removal.
\* What the edge holds stays there.
RemoveClusterPeer(p) ==
  /\ InStep(p, "unpeer") \/ InStep(p, "dropPeer")
  /\ LET e == work[p].edge IN
     \/ /\ e \in peered
        /\ peered' = peered \ {e}
        /\ behind' = behind \cup {<<e, u>> : u \in held[e]}
        /\ IF InStep(p, "unpeer") THEN Quit(p) ELSE Jump(p, "mutate")
        /\ UNCHANGED limit
     \/ e \notin peered /\ Quit(p) /\ UNCHANGED <<peered, behind, limit>>
     \/ Failing /\ Quit(p) /\ UNCHANGED <<peered, behind>>
  /\ UNCHANGED <<cstate, held, clashed, shifted>>

-----------------------------------------------------------------------------
(* Synchronisation around a change of access. *)

Presync(p) ==
  /\ InStep(p, "presync")
  /\ Sync(p, work[p].user, ToSet(work[p].want.nodes), "mutate", work[p].fail)
  /\ UNCHANGED shifted

\* Mutant of Resync: the rollback sends the proposed nodes once more.
ResyncProposed(p) ==
  /\ InStep(p, "resync")
  /\ LET back == IF work[p].op = "create" THEN "unroute" ELSE "end" IN
     Sync(p, work[p].user, ToSet(work[p].want.nodes), back, back)
  /\ shifted' = (shifted \/ work[p].alias)

\* The rollback, with the nodes remembered from before; then the enclosing
\* route creation, if there is one, is undone too.
Resync(p) ==
  /\ InStep(p, "resync")
  /\ LET back == IF work[p].op = "create" THEN "unroute" ELSE "end" IN
     Sync(p, work[p].user, ToSet(work[p].before), back, back)
  /\ shifted' = (shifted \/ work[p].alias)

Revoke(p) ==
  /\ InStep(p, "revoke")
  /\ Sync(p, work[p].user, {}, "end", "end")
  /\ UNCHANGED shifted

-----------------------------------------------------------------------------
(* A new route is assigned to its users one after the other. *)

AssignNext(p) ==
  /\ InStep(p, "assign") \/ InStep(p, "assigned")
  /\ LET w == work[p]
         done == IF w.pc = "assign" THEN w.assigned
                 ELSE Append(w.assigned, [user |-> w.user, nodes |-> w.before])
         left == IF w.pc = "assign" THEN w.todo ELSE Tail(w.todo) IN
     IF left = <<>> THEN Quit(p)
     ELSE work' = [work EXCEPT ![p] = [w EXCEPT
       !.pc = IF cstate.route.there THEN "presync" ELSE "unroute",
       !.edit = "putAccess", !.after = "assigned", !.fail = "resync",
       !.user = Head(left), !.todo = left, !.assigned = done, !.read = cstate.rev,
       !.want = proposedRouteAssignment(cstate, Head(left)),
       !.before = cstate.access[Head(left)].nodes]]
  /\ UNCHANGED <<cstate, Edges, limit, clashed, shifted>>

\* One assignment failed: the route is removed, the users assigned before get
\* their former access and are synchronised again, the last one first.
UndoRoute(p) ==
  /\ InStep(p, "unroute")
  /\ Edit(p, work[p], "dropRoute", "unassign", "unassign")
  /\ UNCHANGED <<cstate, Edges, limit, clashed, shifted>>

UndoAssignment(p) ==
  /\ InStep(p, "unassign")
  /\ LET w == work[p]
         last == Last(w.assigned) IN
     IF w.assigned = <<>> THEN Quit(p)
     ELSE Edit(p, [w EXCEPT !.user = last.user, !.before = last.nodes,
                            !.assigned = Front(@), !.read = cstate.rev,
                            !.want = [there |-> TRUE, routed |-> FALSE,
                                      nodes |-> last.nodes]],
               IF last.nodes = <<>> THEN "dropAccess" ELSE "putAccess",
               "restored", "unrestored")
  /\ UNCHANGED <<cstate, Edges, limit, clashed, shifted>>

ResyncAssigned(p) ==
  /\ InStep(p, "restored") \/ InStep(p, "unrestored")
  /\ Sync(p, work[p].user, ToSet(work[p].before), "unassign", "unassign")
  /\ shifted' = (shifted \/ InStep(p, "unrestored"))

\* syncClusterUsers pushes every user's credential again.
syncClusterUsers(p, u) ==
  /\ work[p] = NoWork
  /\ Sync(p, u, ToSet(cstate.access[u].nodes), "end", "end")
  /\ UNCHANGED shifted

-----------------------------------------------------------------------------
(* The requests of the control API, and the operations of the console.  A  *)
(* request that asks for what is already so changes nothing.               *)

handleClusterNode(e) ==
  \/ mutateSelectedClusterNode("api", e)
  \/ \E u \in ClusterUsers : toggleClusterNodeForUserSynced("api", e, u)

handleRoute ==
  \/ mutateClusterRoute("api")
  \/ \E u \in ClusterUsers : setRouteForUser(u)

createRoute == \E nodes \in RouteNodes : createClusterRouteForUsersSynced("api", nodes)

setUserClusterAccess(u) == toggleUserClusterAccessSynced("api", u)

startClusterEnrolment(e) == enrolClusterNodeDraft("api", e)

Requests ==
  \/ \E e \in EdgeIds : startClusterEnrolment(e) \/ handleClusterNode(e)
  \/ handleRoute \/ createRoute
  \/ \E u \in ClusterUsers : setUserClusterAccess(u) \/ syncClusterUsers("api", u)

executeConstellationOperation ==
  \/ \E e \in EdgeIds : enrolClusterNodeDraft("tui", e) \/ mutateSelectedClusterNode("tui", e)
  \/ mutateClusterRoute("tui")
  \/ \E nodes \in RouteNodes : createClusterRouteForUsersSynced("tui", nodes)
  \/ \E u \in ClusterUsers :
       \/ toggleUserClusterAccessSynced("tui", u) \/ assignRouteToUserSynced("tui", u)
       \/ syncClusterUsers("tui", u)
       \/ \E e \in EdgeIds : toggleClusterNodeForUserSynced("tui", e, u)

WorkSteps(p) ==
  \/ mutateCluster(p) \/ SaveCheck(p) \/ Save(p)
  \/ InstallClusterPeer(p) \/ attestInstalledClusterPeer(p) \/ RemoveClusterPeer(p)
  \/ Presync(p) \/ Resync(p) \/ Revoke(p)
  \/ AssignNext(p) \/ UndoRoute(p)
  \/ UndoAssignment(p) \/ ResyncAssigned(p)

ClusterNext ==
  \/ Requests \/ executeConstellationOperation
  \/ \E p \in Processes : WorkSteps(p)

-----------------------------------------------------------------------------
AtRest == \A p \in Processes : work[p] = NoWork

\* Whenever the processes rest, a peered edge holds a user's credential exactly
\* if the state file lists the edge for that user: whatever failed on the way,
\* the rollback brought every edge it reached back.  Excepted are edges whose
\* last synchronisation failed, operations that clashed, and rollbacks with a
\* list that was filtered in place.
EdgesFollowAccess ==
  AtRest /\ ~clashed /\ ~shifted => \A e \in peered, u \in ClusterUsers :
    <<e, u>> \notin behind =>
      (u \in held[e]) = (e \in ToSet(cstate.access[u].nodes))

\* One failure or revision conflict during an enrolment never leaves a half-enrolled edge: the peer
\* files on the master are there only for nodes of the cluster state.
EnrolmentIsWhole ==
  AtRest /\ ~clashed /\ limit.failed + limit.conflicts <= 1
    => peered \subseteq EdgesOf(cstate)

\* Edges and peer files agree with the state file (syncClusterUserAccess, enrolment).
EdgesFollowState == EdgesFollowAccess /\ EnrolmentIsWhole
=============================================================================
