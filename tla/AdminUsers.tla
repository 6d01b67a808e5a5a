----------------------------- MODULE AdminUsers -----------------------------
(***************************************************************************)
(* The users of an installation as the administration programs keep them:  *)
(* index.json beside one secret file per user in users/active, the archive *)
(* of older secrets in users/revoked, and the copies that cluster nodes    *)
(* hold (internal/admin/manager.go, neprotoctl's user commands).           *)
(*                                                                         *)
(* Two programs may work at once, the control API or the command line      *)
(* ("web") and the console ("tui"); nothing excludes one from the other.   *)
(* A command is a sequence of file operations; each may fail (Faults), and *)
(* a program may be killed between any two of them (Crash).  The node's    *)
(* own service reads users/active for every new session.                   *)
(***************************************************************************)
EXTENDS Integers, FiniteSets

CONSTANTS
  Ids,          \* credential identifiers
  First,        \* the users the installation starts with
  PeerSecrets,  \* secrets of cluster peers in users/active; 0: no cluster
  MaxCommands, MaxFaults, MaxCrashes

VARIABLES
  index,     \* index.json: the status of each user, and how often written
  live,      \* users/active: the secret of each user, 0 when there is none
  archive,   \* users/revoked: the older secrets of each user
  stray,     \* temporary entries <<program, kind>> in those directories
  staged,    \* <<program, user, secret>> in that program's ".delete" directory
  cmd,       \* the command each program is running
  node,      \* [access, edge]: users with cluster access, secrets on the edge
  sessions,  \* users with a running session on this node
  spent,     \* [commands, faults, crashes, ids]: ids are random, never reused
  told,      \* <<kind, user>> commands reported as done
  stale      \* what the operations below may rely on was overtaken

adminVars == <<index, live, archive, stray, staged, cmd, node, sessions,
               spent, told, stale>>

Programs == {"web", "tui"}
Statuses == {"none", "active", "revoked"}
Secrets == 1..2
Kinds == {"add", "rotate", "revoke", "delete", "policy"}

NoIndex == [users |-> [i \in Ids |-> "none"], writes |-> 0]

NoCmd == [kind |-> "none", id |-> CHOOSE i \in Ids : TRUE, pc |-> "idle",
          index |-> NoIndex, sent |-> 0, ok |-> TRUE]

AdminInit ==
  /\ index = [NoIndex EXCEPT !.users =
                [i \in Ids |-> IF i \in First THEN "active" ELSE "none"]]
  /\ live = [i \in Ids |-> IF i \in First THEN 1 ELSE 0]
  /\ archive = [i \in Ids |-> {}]
  /\ stray = {}
  /\ staged = {}
  /\ cmd = [p \in Programs |-> NoCmd]
  /\ node \in [access : SUBSET First, edge : {[i \in Ids |-> 0]}]
  /\ sessions = {}
  /\ spent = [commands |-> 0, faults |-> 0, crashes |-> 0, ids |-> First]
  /\ told = {}
  /\ stale = FALSE

-----------------------------------------------------------------------------
(* Steps of a command. *)

At(p, kinds, pc) == cmd[p].kind \in kinds /\ cmd[p].pc = pc

Goto(p, pc) == cmd' = [cmd EXCEPT ![p].pc = pc]

\* The command returns an error.
Ends(p) == cmd' = [cmd EXCEPT ![p] = NoCmd]

\* A file operation fails.
Fault ==
  /\ spent.faults < MaxFaults
  /\ spent' = [spent EXCEPT !.faults = @ + 1]

Files == <<live, archive, stray, staged>>
Elsewhere == <<node, sessions, told>>

\* Each operation begins by reading the index and refusing what its status of
\* the user does not allow.
loadIndex(p, k, i) ==
  /\ cmd[p] = NoCmd
  /\ spent.commands < MaxCommands
  /\ CASE k = "add" -> i \notin spent.ids
       [] k \in {"rotate", "revoke"} -> index.users[i] = "active"
       [] k = "delete" -> index.users[i] = "revoked"
       [] OTHER -> index.users[i] # "none"
  /\ spent' = [spent EXCEPT !.commands = @ + 1, !.ids = @ \cup {i}]
  /\ cmd' = [cmd EXCEPT ![p] = [kind |-> k, id |-> i, pc |-> "loaded",
                                index |-> index, sent |-> 0, ok |-> TRUE]]
  /\ UNCHANGED <<index, Files, Elsewhere, stale>>

\* The index a command writes: what it read, with its own change.
Edited(c) ==
  CASE c.kind = "add" -> [c.index.users EXCEPT ![c.id] = "active"]
    [] c.kind = "revoke" -> [c.index.users EXCEPT ![c.id] = "revoked"]
    [] c.kind = "delete" -> [c.index.users EXCEPT ![c.id] = "none"]
    [] OTHER -> c.index.users

\* The index was written by another program since this command read it.
Overtaken(p) == index.writes # cmd[p].index.writes

AfterSave(c) ==
  CASE c.kind \in {"rotate", "revoke"} -> "sync"
    [] c.kind = "delete" -> "access"
    [] c.kind = "add" -> "restart"
    [] OTHER -> "done"

-----------------------------------------------------------------------------
(* The file operations of AddUser, RotateUser, RevokeUser and DeleteUser   *)
(* before the index is written.                                            *)

\* Another program is in the middle of changing the files of the same user.
Contended(p) ==
  \E q \in Programs \ {p} : /\ cmd[q].id = cmd[p].id
                            /\ cmd[q].pc \in {"activate", "save", "access"}

AddUser(p) ==
  /\ At(p, {"add"}, "loaded")
  /\ LET i == cmd[p].id IN
     \/ /\ live' = [live EXCEPT ![i] = 1]
        /\ Goto(p, "save")
        /\ UNCHANGED spent
     \/ Fault /\ Ends(p) /\ UNCHANGED live
  /\ UNCHANGED <<index, archive, stray, staged, Elsewhere, stale>>

\* The new secret is written beside the old one.
writeTemporary(p) ==
  /\ At(p, {"rotate"}, "loaded")
  /\ \/ /\ live[cmd[p].id] # 0
        /\ stray' = stray \cup {<<p, "rotate">>}
        /\ Goto(p, "archive")
        /\ UNCHANGED spent
     \/ live[cmd[p].id] = 0 /\ Ends(p) /\ UNCHANGED <<stray, spent>>
     \/ Fault /\ Ends(p) /\ UNCHANGED stray
  /\ UNCHANGED <<index, live, archive, staged, Elsewhere, stale>>

archiveOld(p) ==
  /\ At(p, {"rotate"}, "archive")
  /\ LET i == cmd[p].id IN
     \/ /\ live[i] # 0
        /\ archive' = [archive EXCEPT ![i] = @ \cup {live[i]}]
        /\ live' = [live EXCEPT ![i] = 0]
        /\ cmd' = [cmd EXCEPT ![p].pc = "activate", ![p].sent = live[i]]
        /\ UNCHANGED <<stray, spent>>
     \/ /\ live[i] = 0
        /\ stray' = stray \ {<<p, "rotate">>}
        /\ Ends(p)
        /\ UNCHANGED <<live, archive, spent>>
     \/ /\ Fault
        /\ stray' = stray \ {<<p, "rotate">>}
        /\ Ends(p)
        /\ UNCHANGED <<live, archive>>
  /\ stale' = (stale \/ Contended(p))
  /\ UNCHANGED <<index, staged, Elsewhere>>

\* The rename of an archived secret back to users/active; nothing is reported
\* when it fails too.
PutBack(p, i, secret) ==
  \/ /\ secret \in archive[i]
     /\ archive' = [archive EXCEPT ![i] = @ \ {secret}]
     /\ live' = [live EXCEPT ![i] = secret]
     /\ stale' = (stale \/ Overtaken(p) \/ Contended(p))
  \/ /\ secret \notin archive[i] \/ spent.faults + 1 < MaxFaults
     /\ archive' = archive
     /\ live' = [live EXCEPT ![i] = 0]
     /\ stale' = TRUE

\* The smallest secret that differs from the one being replaced.
newSecret(old) == CHOOSE s \in Secrets : s # old

activate(p) ==
  /\ At(p, {"rotate"}, "activate")
  /\ LET i == cmd[p].id IN
     \/ /\ live' = [live EXCEPT ![i] = newSecret(cmd[p].sent)]
        /\ stale' = (stale \/ Contended(p))
        /\ Goto(p, "save")
        /\ UNCHANGED <<archive, spent>>
     \/ Fault /\ PutBack(p, i, cmd[p].sent) /\ Ends(p)
  /\ stray' = stray \ {<<p, "rotate">>}
  /\ UNCHANGED <<index, staged, Elsewhere>>

\* The last credential of the directory is not revoked.  Secrets of cluster
\* peers count.
LastActive(i) ==
  /\ {j \in Ids : live[j] # 0} = {i}
  /\ PeerSecrets = 0

RevokeUser(p) ==
  /\ At(p, {"revoke"}, "loaded")
  /\ LET i == cmd[p].id IN
     \/ /\ live[i] # 0 /\ ~LastActive(i)
        /\ archive' = [archive EXCEPT ![i] = @ \cup {live[i]}]
        /\ live' = [live EXCEPT ![i] = 0]
        /\ cmd' = [cmd EXCEPT ![p].pc = "save", ![p].sent = live[i]]
        /\ UNCHANGED spent
     \/ /\ live[i] = 0 \/ LastActive(i)
        /\ Ends(p) /\ UNCHANGED <<live, archive, spent>>
     \/ Fault /\ Ends(p) /\ UNCHANGED <<live, archive>>
  /\ stale' = (stale \/ Contended(p))
  /\ UNCHANGED <<index, stray, staged, Elsewhere>>

\* The user's archived secrets move to a ".delete" directory.
DeleteUser(p) ==
  /\ At(p, {"delete"}, "loaded")
  /\ LET i == cmd[p].id IN
     \/ /\ stray' = stray \cup {<<p, "delete">>}
        /\ staged' = staged \cup {<<p, i, s>> : s \in archive[i]}
        /\ archive' = [archive EXCEPT ![i] = {}]
        /\ Goto(p, "save")
        /\ UNCHANGED spent
     \/ Fault /\ Ends(p) /\ UNCHANGED <<stray, staged, archive>>
  /\ stale' = (stale \/ Contended(p))
  /\ UNCHANGED <<index, live, Elsewhere>>

policy(p) ==
  /\ At(p, {"policy"}, "loaded")
  /\ Goto(p, "save")
  /\ UNCHANGED <<index, Files, Elsewhere, spent, stale>>

-----------------------------------------------------------------------------
(* The index is written; a failure undoes the file operations. *)

Staged(p) == {e \in staged : e[1] = p}

EmptyStaged(p) ==
  /\ staged' = staged \ Staged(p)
  /\ stray' = stray \ {<<p, "delete">>}

\* The directory is removed also when the secrets could not be moved back.
rollbackFiles(p) ==
  /\ \/ archive' = [archive EXCEPT ![cmd[p].id] = @ \cup {e[3] : e \in Staged(p)}]
     \/ /\ spent.faults + 1 < MaxFaults /\ archive' = archive /\ stale'
  /\ EmptyStaged(p)

\* Mutant of Undo: the file operations stay when the index cannot be written.
UndoNothing(p) == UNCHANGED <<Files, stale>>

Undo(p) ==
  LET i == cmd[p].id IN
  CASE cmd[p].kind = "add" -> /\ live' = [live EXCEPT ![i] = 0]
                              /\ UNCHANGED <<archive, stray, staged, stale>>
    [] cmd[p].kind \in {"rotate", "revoke"} ->
          PutBack(p, i, cmd[p].sent) /\ UNCHANGED <<stray, staged>>
    [] cmd[p].kind = "delete" -> /\ stale' \in {stale, TRUE}
                                 /\ rollbackFiles(p)
                                 /\ UNCHANGED live
    [] OTHER -> UNCHANGED <<Files, stale>>

saveIndex(p) ==
  /\ At(p, Kinds, "save")
  /\ \/ /\ index' = [users |-> Edited(cmd[p]), writes |-> index.writes + 1]
        /\ stale' = (stale \/ Overtaken(p))
        /\ cmd' = [cmd EXCEPT ![p].pc = AfterSave(cmd[p]),
                              ![p].index.writes = index.writes + 1]
        /\ UNCHANGED <<Files, spent>>
     \/ Fault /\ Undo(p) /\ Ends(p) /\ UNCHANGED index
  /\ UNCHANGED Elsewhere

\* DeleteUser goes on to the cluster's access list; a failure there puts the
\* index it had read, and the secrets, back.
EraseClusterAccess(p) ==
  /\ At(p, {"delete"}, "access")
  /\ \/ /\ node' = [node EXCEPT !.access = @ \ {cmd[p].id}]
        /\ Goto(p, "erase")
        /\ UNCHANGED <<index, Files, spent, stale>>
     \/ /\ Fault
        /\ \/ /\ index' = [users |-> cmd[p].index.users, writes |-> index.writes + 1]
              /\ stale' \in {stale \/ Overtaken(p), TRUE}
           \/ spent.faults + 1 < MaxFaults /\ index' = index /\ stale' = TRUE
        /\ rollbackFiles(p)
        /\ Ends(p)
        /\ UNCHANGED <<live, node>>
  /\ UNCHANGED <<sessions, told>>

Erase(p) ==
  /\ At(p, {"delete"}, "erase")
  /\ \/ /\ EmptyStaged(p)
        /\ Goto(p, "sync")
        /\ UNCHANGED spent
     \/ Fault /\ Ends(p) /\ UNCHANGED <<staged, stray>>
  /\ UNCHANGED <<index, live, archive, Elsewhere, stale>>

-----------------------------------------------------------------------------
(* The tail of a command: the cluster node, then the service. *)

\* The secret the cluster node is to hold: none without access to it.
Request(i) == IF i \in node.access THEN live[i] ELSE 0

syncClusterUserCredential(p) ==
  /\ At(p, Kinds, "sync")
  /\ IF PeerSecrets = 0
       THEN Goto(p, "restart")
       ELSE cmd' = [cmd EXCEPT ![p].pc = "send", ![p].sent = Request(cmd[p].id)]
  /\ UNCHANGED <<index, Files, Elsewhere, spent, stale>>

\* The acknowledgement may be lost after the node has stored the change.  The
\* console restarts the service even then, the other programs do not.
SyncCredential(p) ==
  /\ At(p, Kinds, "send")
  /\ LET i == cmd[p].id IN
     /\ node' \in {node, [node EXCEPT !.edge[i] = cmd[p].sent]}
     /\ stale' = (stale \/ cmd[p].sent # Request(i))
     /\ \/ /\ node' = [node EXCEPT !.edge[i] = cmd[p].sent]
           /\ Goto(p, "restart")
           /\ UNCHANGED spent
        \/ /\ Fault
           /\ IF p = "tui"
                THEN cmd' = [cmd EXCEPT ![p].pc = "restart", ![p].ok = FALSE]
                ELSE Ends(p)
  /\ UNCHANGED <<index, Files, sessions, told>>

restartAfterCredentialChange(p) ==
  /\ At(p, Kinds, "restart")
  /\ \/ /\ sessions' = {}
        /\ Goto(p, "done")
        /\ UNCHANGED spent
     \/ Fault /\ Ends(p) /\ UNCHANGED sessions
  /\ UNCHANGED <<index, Files, node, told, stale>>

Report(p) ==
  /\ At(p, Kinds, "done")
  /\ told' = IF cmd[p].ok THEN told \cup {<<cmd[p].kind, cmd[p].id>>} ELSE told
  /\ Ends(p)
  /\ UNCHANGED <<index, Files, node, sessions, spent, stale>>

-----------------------------------------------------------------------------
(* Around the commands. *)

\* The service accepts a session of a user whose secret it finds.
serveAuthenticatedCarrier(i) ==
  /\ live[i] # 0
  /\ sessions' = sessions \cup {i}
  /\ UNCHANGED <<index, Files, cmd, node, spent, told, stale>>

\* The program is killed: what it has written stays, its temporary entries
\* have no owner from then on.
Orphan(e, p) == IF e[1] = p THEN [e EXCEPT ![1] = "dead"] ELSE e

Crash(p) ==
  /\ cmd[p] # NoCmd
  /\ spent.crashes < MaxCrashes
  /\ spent' = [spent EXCEPT !.crashes = @ + 1]
  /\ Ends(p)
  /\ staged' = {Orphan(e, p) : e \in staged}
  /\ stray' = {Orphan(e, p) : e \in stray}
  /\ UNCHANGED <<index, live, archive, Elsewhere, stale>>

-----------------------------------------------------------------------------
(* The requests of the control API, and the operations of the console.     *)

createUser(i) == loadIndex("web", "add", i)

setUserPolicy(i) == loadIndex("web", "policy", i)

mutateUser(i) == \E k \in {"rotate", "revoke"} : loadIndex("web", k, i)

deleteUser(i) == loadIndex("web", "delete", i)

handleUser(i) == setUserPolicy(i) \/ mutateUser(i) \/ deleteUser(i)

ConsoleOperation(i) == \E k \in Kinds \ {"policy"} : loadIndex("tui", k, i)

RotateUser(p) == writeTemporary(p) \/ archiveOld(p) \/ activate(p)

syncUserCredential(p) == syncClusterUserCredential(p) \/ SyncCredential(p)

userCommand(p) ==
  \/ AddUser(p) \/ RotateUser(p) \/ RevokeUser(p) \/ DeleteUser(p) \/ policy(p)
  \/ saveIndex(p) \/ EraseClusterAccess(p) \/ Erase(p)
  \/ syncUserCredential(p) \/ restartAfterCredentialChange(p) \/ Report(p)

AdminNext ==
  \/ \E i \in Ids : createUser(i) \/ handleUser(i) \/ ConsoleOperation(i)
  \/ \E p \in Programs : userCommand(p) \/ Crash(p)
  \/ \E i \in Ids : serveAuthenticatedCarrier(i)

-----------------------------------------------------------------------------
Idle == \A p \in Programs : cmd[p] = NoCmd

\* When no command is running the index and the secret files agree: exactly the
\* users the index calls active have a secret in users/active.  Every failure
\* path of the commands restores that, also when two programs worked at once;
\* only a killed program, an undo that failed itself and an index written over
\* one that changed meanwhile are excepted.
SecretsFollowIndex ==
  Idle /\ ~stale /\ spent.crashes = 0
    => \A i \in Ids : (index.users[i] = "active") = (live[i] # 0)

\* A user of the index never loses the last copy of the secret, wherever a
\* program is killed and whichever operations fail: it is in users/active, in
\* the archive or in the directory of a deletion under way.
SecretsSurvive ==
  ~stale => \A i \in Ids : index.users[i] # "none" =>
     \/ live[i] # 0
     \/ archive[i] # {}
     \/ \E e \in staged : e[2] = i

\* A revocation or deletion reported as done is effective: the user has no
\* secret here, none on the cluster node, no session that began before, and
\* after a deletion no archived secret and no cluster access.
RevokedStaysOut ==
  ~stale /\ spent.crashes = 0 => \A i \in Ids :
    /\ <<"revoke", i>> \in told =>
         live[i] = 0 /\ node.edge[i] = 0 /\ i \notin sessions
    /\ <<"delete", i>> \in told =>
         archive[i] = {} /\ i \notin node.access /\ index.users[i] = "none"

\* Index and secrets agree at rest, no secret a user needs is lost on the way,
\* and none outlives its revocation.
SecretsAreKept == SecretsFollowIndex /\ SecretsSurvive /\ RevokedStaysOut
=============================================================================
