---------------------------- MODULE WindowsStore ----------------------------
(***************************************************************************)
(* The profile store of the Windows service (internal/windowsclient/       *)
(* store.go) under the requests the named pipe serves (api.go,             *)
(* host_api.go): profiles and the selection, the node list a cluster       *)
(* catalogue brings, the nodes its user removed, the local routes.  Every  *)
(* edit saves the whole state to a file by replacement and undoes itself   *)
(* in memory when that fails.                                              *)
(*                                                                         *)
(* One cluster.  A profile's ID is a function of credential and server     *)
(* identity, so it is named by the node: profiles is a sequence of [node,  *)
(* managed].  The pipe serves its connections concurrently; a catalogue    *)
(* synchronisation fetches and verifies before it takes the store's lock.  *)
(***************************************************************************)
EXTENDS Integers, SequencesExt

CONSTANTS
    Nodes,              \* nodes of the cluster
    LocalRoutes,        \* IDs a local route may have
    MaxRevision,        \* bound: revisions the cluster publishes
    MaxEdits            \* bound: requests that edit the store

Unselected == "none"
Syncs == {1, 2}         \* two pipe connections that synchronise

VARIABLES
    memory,     \* Store.state
    disk,       \* the file
    sync,       \* sync[s]: the revision that request s has verified, with its node list
    published,  \* the catalogue the server hands out now
    edits

storeVars == <<memory, disk, sync, published, edits>>

NoCatalog == [revision |-> 0, servers |-> {}, clientRoutes |-> FALSE]
NoSync == [pc |-> "idle", bootstrap |-> Unselected, catalog |-> NoCatalog]

StoreInit ==
    /\ memory = [selected |-> Unselected, profiles |-> <<>>, suppressed |-> {},
                 catalog |-> NoCatalog, local |-> {}]
    /\ disk = memory
    /\ sync = [s \in Syncs |-> NoSync]
    /\ published = NoCatalog
    /\ edits = 0

Named(profiles) == {profiles[i].node : i \in DOMAIN profiles}
hasProfile(s, n) == n \in Named(s.profiles)
FirstOf(profiles) == IF profiles = <<>> THEN Unselected ELSE profiles[1].node
Without(profiles, Drop(_)) == SelectSeq(profiles, LAMBDA p : ~Drop(p))

\* saveLocked: the file is replaced, or memory goes back to what it was.
Save(next) ==
    /\ edits < MaxEdits /\ edits' = edits + 1
    /\ \/ memory' = next /\ disk' = next
       \/ UNCHANGED <<memory, disk>>

Import(n) ==
    /\ ~hasProfile(memory, n)
    /\ Save([memory EXCEPT !.profiles = Append(@, [node |-> n, managed |-> FALSE]),
                           !.selected = IF @ = Unselected THEN n ELSE @])
    /\ UNCHANGED <<sync, published>>

Select(n) ==
    /\ hasProfile(memory, n)
    /\ Save([memory EXCEPT !.selected = n])
    /\ UNCHANGED <<sync, published>>

\* A removed node of the cluster is suppressed, so that the catalogue does not bring it back.
RemoveProfile(n) ==
    /\ hasProfile(memory, n)
    /\ LET rest == Without(memory.profiles, LAMBDA p : p.node = n)
           managed == [node |-> n, managed |-> TRUE] \in ToSet(memory.profiles)
       IN Save([memory EXCEPT !.profiles = rest,
                              !.suppressed = IF managed THEN @ \cup {n} ELSE @,
                              !.selected = IF @ = n THEN FirstOf(rest) ELSE @])
    /\ UNCHANGED <<sync, published>>

\* Mutation: a catalogue brings suppressed nodes back.
WithCatalogAll(c) ==
    LET imported == Without(memory.profiles, LAMBDA p : p.managed)
        added == c.servers \ Named(imported)
        retained == imported \o SetToSeq({[node |-> n, managed |-> TRUE] : n \in added})
    IN [memory EXCEPT !.profiles = retained,
                      !.selected = IF @ \in Named(retained) THEN @ ELSE FirstOf(retained),
                      !.catalog = c]

\* The cluster's own profiles are replaced by the new list; imported ones keep their origin.
WithCatalog(c) ==
    LET imported == Without(memory.profiles, LAMBDA p : p.managed)
        added == {n \in c.servers \ memory.suppressed : n \notin Named(imported)}
        retained == imported \o SetToSeq({[node |-> n, managed |-> TRUE] : n \in added})
    IN [memory EXCEPT !.profiles = retained,
                      !.selected = IF @ \in Named(retained) THEN @ ELSE FirstOf(retained),
                      !.catalog = c]

ApplyCatalog(s) ==
    /\ sync[s].pc = "verified"
    /\ sync' = [sync EXCEPT ![s] = NoSync]
    /\ IF hasProfile(memory, sync[s].bootstrap)
       THEN Save(WithCatalog(sync[s].catalog)) ELSE UNCHANGED <<memory, disk, edits>>
    /\ UNCHANGED <<published>>

\* The signature and the dates are taken to be right; a revision older than minimum is refused.
VerifyCatalog(catalog, minimum) ==
    catalog.revision > 0 /\ catalog.servers # {} /\ catalog.revision >= minimum

\* SyncCatalog while connected: the answer is verified against the revision the store holds now;
\* the cluster never hands out an older revision than before.
SyncCatalog(s) ==
    /\ sync[s].pc = "idle" /\ memory.selected # Unselected
    /\ VerifyCatalog(published, memory.catalog.revision)
    /\ sync' = [sync EXCEPT ![s] = [pc |-> "verified", bootstrap |-> memory.selected,
                                    catalog |-> published]]
    /\ UNCHANGED <<memory, disk, published, edits>>

\* Local routes need a catalogue whose permissions allow them.
UpsertLocalRoute(r) ==
    /\ memory.selected # Unselected /\ memory.catalog.clientRoutes
    /\ Save([memory EXCEPT !.local = @ \cup {r}])
    /\ UNCHANGED <<sync, published>>

RemoveLocalRoute(r) ==
    /\ memory.selected # Unselected /\ memory.catalog.clientRoutes /\ r \in memory.local
    /\ Save([memory EXCEPT !.local = @ \ {r}])
    /\ UNCHANGED <<sync, published>>

\* The requests that reach the store.  The controller lets profile edits through while the tunnel
\* is down and synchronisations while it is up; it checks before the store's lock, so that any
\* order of them is possible.
Handle ==
    \/ \E n \in Nodes : Import(n) \/ Select(n) \/ RemoveProfile(n)
    \/ \E s \in Syncs : SyncCatalog(s) \/ ApplyCatalog(s)
    \/ \E r \in LocalRoutes : UpsertLocalRoute(r) \/ RemoveLocalRoute(r)

\* The cluster publishes its next revision; a list that names no server is not built.
PublishCatalog(servers, clientRoutes) ==
    /\ servers # {} /\ published.revision < MaxRevision
    /\ published' = [revision |-> published.revision + 1, servers |-> servers,
                     clientRoutes |-> clientRoutes]
    /\ UNCHANGED <<memory, disk, sync, edits>>

\* The process ends and OpenStore reads the file; requests under way are gone.
OpenStore ==
    /\ memory' = [disk EXCEPT !.selected = IF hasProfile(disk, @) THEN @ ELSE Unselected]
    /\ sync' = [s \in Syncs |-> NoSync]
    /\ UNCHANGED <<disk, published, edits>>

StoreNext ==
    \/ Handle
    \/ \E servers \in SUBSET Nodes, allow \in BOOLEAN : PublishCatalog(servers, allow)
    \/ OpenStore

-----------------------------------------------------------------------------
(* Properties *)

\* A node that its user removed stays away: no later catalogue, restart or failed save brings a
\* managed profile of a suppressed node back; the selection names a profile whenever there is one;
\* and what requests see is what the file holds, so that a restart changes nothing.
RemovedNodesStayAway ==
    /\ \A p \in ToSet(memory.profiles) : p.managed => p.node \notin memory.suppressed
    /\ IF memory.profiles = <<>> THEN memory.selected = Unselected
       ELSE memory.selected \in Named(memory.profiles)
    /\ memory = disk

=============================================================================
