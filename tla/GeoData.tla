------------------------------ MODULE GeoData -------------------------------
(***************************************************************************)
(* Updating the GeoIP and GeoSite databases: the updater and the           *)
(* reloadable matcher of internal/geodata/updater.go, the cluster-wide     *)
(* operation of cmd/neprotoctl/geodata.go and the edge's handler in        *)
(* internal/app/cluster_relay.go.                                          *)
(*                                                                         *)
(* Three programs run the operation: the panel and the timer on the        *)
(* master, and an edge's own timer.  Each takes the orchestration lock of  *)
(* its node, updates its own directory and restarts its service; the       *)
(* master's then ask each edge, whose service updates the same directory   *)
(* the edge's timer does and reloads its matcher.  An update stages both   *)
(* files, replaces them one by one and puts back the first when the second *)
(* fails.  A file is the number of the release it was verified with; what  *)
(* upstream serves between two checksums is refused by the download.       *)
(***************************************************************************)
EXTENDS Integers, FiniteSets

CONSTANTS MaxReleases,  \* bound on upstream releases
          MaxUpdates,   \* bound on operations started
          MaxGeoFaults  \* bound on local failures (rename, restart, reload)

VARIABLES release,   \* the latest upstream release
          databases, \* per node: the two active files
          matcher,   \* per node: the pair the running service matches with
          updating,  \* per node: the directory lock .update.lock
          guard,     \* per node: the orchestration lock file, none, new or aged
          update,    \* per updater: its program counter, staged pair and old pair
          geo        \* counts of updates and faults; whether an update was cut short;
                     \* the nodes where a fault happened

geoVars == <<release, databases, matcher, updating, guard, update, geo>>

GeoNodes == {"master", "edge"}
GeoPrograms == {"panel", "timer", "edgetimer"}
Handler == "handler"
Updaters == GeoPrograms \cup {Handler}
NodeOf(u) == IF u \in {"panel", "timer"} THEN "master" ELSE "edge"

Pair(n) == [geoip |-> n, geosite |-> n]
NoUpdate == [pc |-> "idle", staged |-> Pair(1), old |-> Pair(1), ok |-> FALSE]

GeoInit ==
  /\ release = 1
  /\ databases = [n \in GeoNodes |-> Pair(1)]
  /\ matcher = [n \in GeoNodes |-> Pair(1)]
  /\ updating = [n \in GeoNodes |-> FALSE]
  /\ guard = [n \in GeoNodes |-> "none"]
  /\ update = [u \in Updaters |-> NoUpdate]
  /\ geo = [updates |-> 0, faults |-> 0, cut |-> FALSE, broken |-> {}]

ToStage(u, pc) == update' = [update EXCEPT ![u].pc = pc]
AtStage(u, pc) == update[u].pc = pc
GeoFault(u) ==
  /\ geo.faults < MaxGeoFaults
  /\ geo' = [geo EXCEPT !.faults = @ + 1, !.broken = @ \cup {NodeOf(u)}]

NewRelease ==
  /\ release < MaxReleases
  /\ release' = release + 1
  /\ UNCHANGED <<databases, matcher, updating, guard, update, geo>>

----------------------------------------------------------------------------
(* The operation: runGeoDataOperation.                                     *)

acquireGeoDataOrchestrationLock(p) ==
  /\ AtStage(p, "idle")
  /\ geo.updates < MaxUpdates
  /\ guard[NodeOf(p)] # "new"
  /\ guard' = [guard EXCEPT ![NodeOf(p)] = "new"]
  /\ geo' = [geo EXCEPT !.updates = @ + 1]
  /\ ToStage(p, "local")
  /\ UNCHANGED <<release, databases, matcher, updating>>

\* More than thirty minutes pass while an operation runs.
GuardAges(n) ==
  /\ guard[n] = "new"
  /\ guard' = [guard EXCEPT ![n] = "aged"]
  /\ UNCHANGED <<release, databases, matcher, updating, update, geo>>

\* The deferred release removes the path, whoever created the file.
FinishUpdate(p) ==
  /\ AtStage(p, "done")
  /\ guard' = [guard EXCEPT ![NodeOf(p)] = "none"]
  /\ update' = [update EXCEPT ![p] = NoUpdate]
  /\ UNCHANGED <<release, databases, matcher, updating, geo>>

\* Asking the edge; an answer, an error or a timeout ends the wait.
AskEdge(p) ==
  /\ AtStage(p, "peers")
  /\ \/ /\ AtStage(Handler, "idle")
        /\ update' = [update EXCEPT ![p].pc = "asked", ![Handler].pc = "local"]
     \/ ToStage(p, "restart")
  /\ UNCHANGED <<release, databases, matcher, updating, guard, geo>>

Answered(p) ==
  /\ AtStage(p, "asked")
  /\ ToStage(p, "restart")
  /\ UNCHANGED <<release, databases, matcher, updating, guard, geo>>

\* restart-np2 loads the directory anew, if the local update succeeded.  On
\* the edge it ends the service's own handler wherever it is: an update cut
\* short leaves its directory lock, and maybe its first file, behind.
RestartService(p) ==
  LET n   == NodeOf(p)
      cut == n = "edge" /\ update[Handler].pc \in {"download", "geoip", "geosite", "undo"}
  IN
  /\ AtStage(p, "restart")
  /\ \/ /\ update[p].ok
        /\ matcher' = [matcher EXCEPT ![n] = databases[n]]
        /\ geo' = [geo EXCEPT !.cut = @ \/ cut]
        /\ update' = [update EXCEPT ![p].pc = "done",
                        ![Handler] = IF n = "edge" THEN NoUpdate ELSE @]
     \/ /\ ~update[p].ok
        /\ ToStage(p, "done")
        /\ UNCHANGED <<matcher, geo>>
     \/ /\ update[p].ok
        /\ GeoFault(p)
        /\ ToStage(p, "done")
        /\ UNCHANGED matcher
  /\ UNCHANGED <<release, databases, updating, guard>>

----------------------------------------------------------------------------
(* One directory: Update and activatePair.                                 *)

\* After Update: the program asks the peers or restarts, the handler reloads.
Returned(u, ok) ==
  [NoUpdate EXCEPT !.ok = ok,
     !.pc = IF u = Handler THEN "answer"
            ELSE IF NodeOf(u) = "master" THEN "peers" ELSE "restart"]

Lock(u) ==
  /\ AtStage(u, "local")
  /\ \/ /\ ~updating[NodeOf(u)]
        /\ updating' = [updating EXCEPT ![NodeOf(u)] = TRUE]
        /\ ToStage(u, "download")
     \/ /\ updating[NodeOf(u)]
        /\ UNCHANGED updating
        /\ update' = [update EXCEPT ![u] = Returned(u, FALSE)]
  /\ UNCHANGED <<release, databases, matcher, guard, geo>>

\* downloadVerified of both sources, Load of the staged pair and the copies
\* of the current files; any failure returns with nothing activated.
Download(u) ==
  /\ AtStage(u, "download")
  /\ \/ /\ update' = [update EXCEPT ![u].pc = "geoip", ![u].staged = Pair(release),
                                    ![u].old = databases[NodeOf(u)]]
        /\ UNCHANGED updating
     \/ /\ update' = [update EXCEPT ![u] = Returned(u, FALSE)]
        /\ updating' = [updating EXCEPT ![NodeOf(u)] = FALSE]
  /\ UNCHANGED <<release, databases, matcher, guard, geo>>

\* replaceFile of the first, then of the second.
ActivateGeoIP(u) ==
  /\ AtStage(u, "geoip")
  /\ \/ /\ databases' = [databases EXCEPT ![NodeOf(u)].geoip = update[u].staged.geoip]
        /\ ToStage(u, "geosite")
        /\ UNCHANGED <<updating, geo>>
     \/ /\ GeoFault(u)
        /\ update' = [update EXCEPT ![u] = Returned(u, FALSE)]
        /\ updating' = [updating EXCEPT ![NodeOf(u)] = FALSE]
        /\ UNCHANGED databases
  /\ UNCHANGED <<release, matcher, guard>>

ActivateGeoSite(u) ==
  /\ AtStage(u, "geosite")
  /\ \/ /\ databases' = [databases EXCEPT ![NodeOf(u)].geosite = update[u].staged.geosite]
        /\ update' = [update EXCEPT ![u] = Returned(u, TRUE)]
        /\ updating' = [updating EXCEPT ![NodeOf(u)] = FALSE]
        /\ UNCHANGED geo
     \/ /\ GeoFault(u)
        /\ ToStage(u, "undo")
        /\ UNCHANGED <<databases, updating>>
  /\ UNCHANGED <<release, matcher, guard>>

\* Mutant of UndoGeoIP: the first file is not put back.
UndoGeoIPNot(u) ==
  /\ AtStage(u, "undo")
  /\ update' = [update EXCEPT ![u] = Returned(u, FALSE)]
  /\ updating' = [updating EXCEPT ![NodeOf(u)] = FALSE]
  /\ UNCHANGED <<release, databases, matcher, guard, geo>>

UndoGeoIP(u) ==
  /\ AtStage(u, "undo")
  /\ databases' = [databases EXCEPT ![NodeOf(u)].geoip = update[u].old.geoip]
  /\ update' = [update EXCEPT ![u] = Returned(u, FALSE)]
  /\ updating' = [updating EXCEPT ![NodeOf(u)] = FALSE]
  /\ UNCHANGED <<release, matcher, guard, geo>>

\* The handler reloads after a successful update, or answers with the error.
AnswerFailed ==
  /\ AtStage(Handler, "answer") /\ ~update[Handler].ok
  /\ update' = [update EXCEPT ![Handler] = NoUpdate]
  /\ UNCHANGED <<release, databases, matcher, updating, guard, geo>>

\* Reload reads the two files one after the other, outside the lock.
ReloadGeoIP ==
  /\ AtStage(Handler, "answer") /\ update[Handler].ok
  /\ \/ /\ update' = [update EXCEPT ![Handler].pc = "reloading",
                        ![Handler].staged = databases["edge"]]
        /\ UNCHANGED geo
     \/ /\ GeoFault(Handler)
        /\ update' = [update EXCEPT ![Handler] = NoUpdate]
  /\ UNCHANGED <<release, databases, matcher, updating, guard>>

ReloadGeoSite ==
  /\ AtStage(Handler, "reloading")
  /\ matcher' = [matcher EXCEPT !["edge"] =
                   [geoip |-> update[Handler].staged.geoip,
                    geosite |-> databases["edge"].geosite]]
  /\ update' = [update EXCEPT ![Handler] = NoUpdate]
  /\ UNCHANGED <<release, databases, updating, guard, geo>>

UpdateSteps(u) ==
  Lock(u) \/ Download(u) \/ ActivateGeoIP(u) \/ ActivateGeoSite(u) \/ UndoGeoIP(u)

GeoNext ==
  \/ NewRelease
  \/ \E n \in GeoNodes : GuardAges(n)
  \/ \E p \in GeoPrograms : acquireGeoDataOrchestrationLock(p) \/ FinishUpdate(p) \/ RestartService(p)
  \/ \E p \in {"panel", "timer"} : AskEdge(p) \/ Answered(p)
  \/ \E u \in Updaters : UpdateSteps(u)
  \/ AnswerFailed \/ ReloadGeoIP \/ ReloadGeoSite

GeoSpec == GeoInit /\ [][GeoNext]_geoVars

----------------------------------------------------------------------------
(* Properties.                                                             *)

Activating(n) ==
  \E u \in Updaters : NodeOf(u) = n /\ update[u].pc \in {"geosite", "undo"}

\* Whatever fails - a download, the first file, the second - a directory that
\* no update is activating holds two files of one verified pair: activatePair
\* puts the first file back, and the directory lock keeps a second update out
\* meanwhile.  (Not after a restart has cut an update of the service short.)
PairIsWhole ==
  \A n \in GeoNodes :
    ~Activating(n) /\ ~(n = "edge" /\ geo.cut) => databases[n].geoip = databases[n].geosite

Resting(n) ==
  /\ \A u \in Updaters : NodeOf(u) = n => update[u].pc = "idle"
  /\ n \notin geo.broken /\ ~(n = "edge" /\ geo.cut)

\* A node at rest matches with the files on its disk: the edge's reload, which
\* reads them after the directory lock is released, and the restart that
\* follows its timer's own update never leave the service with the files of an
\* update that another has replaced meanwhile.
MatcherFollowsFiles ==
  \A n \in GeoNodes : Resting(n) => matcher[n] = databases[n]

\* The files of a node are one pair, and the one its service matches with.
DatabasesAreWhole == PairIsWhole /\ MatcherFollowsFiles
=============================================================================
