------------------------------- MODULE Updater -------------------------------
(***************************************************************************)
(* The unified self-update of a node.  The web application drops a request *)
(* marker; systemd starts the updater, once for a request ("apply") and    *)
(* once in a while for the timer ("check"); the two exclude each other     *)
(* with a lock file, report their stage in a status file, and an apply     *)
(* runs the installer of the release, which replaces the parts of the node *)
(* one after the other.  A process may be killed between any two steps;    *)
(* the files stay as they are.                                             *)
(*                                                                         *)
(* A release is a number.  Time is abstracted to what the code compares:   *)
(* a lock whose timestamp is older than staleLockAge is "stale", an active *)
(* status older than the web application's limit is "old".                 *)
(***************************************************************************)
EXTENDS Naturals, Sequences

CONSTANTS
    MaxVersion,  \* the newest release ever published
    MaxChecks,   \* how often the six-hour timer fires
    MaxFaults    \* how many updater processes are killed or cannot write their lock

ASSUME UpdaterBounds == MaxVersion \in Nat \ {0} /\ MaxChecks \in Nat /\ MaxFaults \in Nat

VARIABLES
    inbox,      \* the apply marker exists
    web,        \* where a start request is: "idle", or "clear" once it saw no active update
    lock,       \* updater.lock: NoLock, or who created it and what it holds
    status,     \* status.json
    proc,       \* the two updater processes
    installed,  \* the version of every part of the node; a web directory moved away is 0
    previous,   \* the version in .web.previous, 0 when there is none
    secret,     \* web-admin.secret
    latest,     \* the newest published release
    stolen,     \* history: a process cleared a lock that was no longer the stale one it had read
    checks, faults

vars == <<inbox, web, lock, status, proc, installed, previous, secret, latest, stolen, checks, faults>>
files == <<installed, previous, secret>>

Units == {"check", "apply"}
Nobody == "nobody"
NoLock == [by |-> Nobody, stamp |-> "none"]

\* What the installer replaces, in the order of the script.  "service" is the
\* version the restarted services run.
Parts == {"server", "updater", "web", "service"}
\* Mutation: the updater is replaced before the server.
InstallStepsUpdaterFirst == <<"backup", "updater", "server", "away", "web", "service">>

InstallSteps == <<"backup", "server", "updater", "away", "web", "service">>
Secrets == {"original", "other"}

Active == {"checking", "downloading", "verifying", "extracting", "backing_up", "installing",
           "restarting"}
Locking == {"create", "stamp", "read", "remove"}
Codes == {"none", "check_failed", "storage_failed", "download_failed", "verification_failed",
          "extraction_failed", "configuration_failed", "credential_recovery_failed",
          "installation_failed"}

ProgressForStage ==
    [idle |-> 0, checking |-> 5, downloading |-> 15, verifying |-> 45, extracting |-> 55,
     backing_up |-> 65, installing |-> 75, restarting |-> 95, succeeded |-> 100, failed |-> 0]

\* engine.latest: a release is available when it is newer than the running binary.
Available(p) == proc[p].tag > proc[p].cur

NextStage == [downloading |-> "verifying", verifying |-> "extracting", extracting |-> "backing_up"]

\* The memory of a process that does not run.  What it captured is kept for the
\* statement of SecretRestored.
Off(captured) == [pc |-> "off", cur |-> 1, tag |-> 0, step |-> 0, failed |-> FALSE,
                  captured |-> captured, backup |-> "original"]

Init ==
    /\ inbox = FALSE
    /\ web = "idle"
    /\ lock = NoLock
    /\ status = [state |-> "idle", cur |-> 1, available |-> FALSE, progress |-> 0,
                 code |-> "none", by |-> "check", old |-> FALSE]
    /\ proc = [p \in Units |-> Off("original")]
    /\ installed = [x \in Parts |-> 1]
    /\ previous = 0
    /\ secret = "original"
    /\ latest = 1
    /\ stolen = FALSE
    /\ checks = 0 /\ faults = 0
-----------------------------------------------------------------------------
(* The web application. *)

\* Mutation: only a check expires.
ShownStateChecksOnly == IF status.state = "checking" /\ status.old THEN "failed" ELSE status.state

\* readUpdateStatus with expireStaleUpdateStatus: an active state that is too
\* old is shown as failed.
ShownState == IF status.state \in Active /\ status.old THEN "failed" ELSE status.state

\* POST start, up to the check of the state.
WebRead ==
    /\ web = "idle" /\ ShownState \notin Active
    /\ web' = "clear"
    /\ UNCHANGED <<inbox, lock, status, proc, files, latest, stolen, checks, faults>>

\* requestUpdateAction creates the marker; a marker that exists is left alone.
WebCreate ==
    /\ web = "clear"
    /\ web' = "idle" /\ inbox' = TRUE
    /\ UNCHANGED <<lock, status, proc, files, latest, stolen, checks, faults>>

\* A status grows old once its writer has left the stage, for every operation
\* has a deadline shorter than the limit; only the apply's own release lookup
\* may outlast the limit for "checking".
StatusExpires ==
    /\ status.state \in Active /\ ~status.old
    /\ \/ proc[status.by].pc # status.state
       \/ status.state = "checking" /\ status.by = "apply"
    /\ status' = [status EXCEPT !.old = TRUE]
    /\ UNCHANGED <<inbox, web, lock, proc, files, latest, stolen, checks, faults>>
-----------------------------------------------------------------------------
(* systemd starts the two units, never twice at the same time. *)

Started(p) ==
    proc' = [proc EXCEPT ![p].pc = "create", ![p].cur = installed["updater"]]

StartApply ==
    /\ inbox /\ proc["apply"].pc = "off"
    /\ Started("apply")
    /\ UNCHANGED <<inbox, web, lock, status, files, latest, stolen, checks, faults>>

StartCheck ==
    /\ proc["check"].pc = "off" /\ checks < MaxChecks
    /\ checks' = checks + 1
    /\ Started("check")
    /\ UNCHANGED <<inbox, web, lock, status, files, latest, stolen, faults>>

\* Killed, by the unit's start timeout or otherwise: no deferred call runs, and
\* nobody owns the lock file any more.
Kill(p) ==
    /\ proc[p].pc # "off" /\ faults < MaxFaults
    /\ faults' = faults + 1
    /\ proc' = [proc EXCEPT ![p] = Off(@.captured)]
    /\ lock' = IF lock.by = p THEN [lock EXCEPT !.by = Nobody] ELSE lock
    /\ UNCHANGED <<inbox, web, status, files, latest, stolen, checks>>
-----------------------------------------------------------------------------
(* acquireLockWithWait: create, or read, clear and try again. *)

Goto(p, pc) == proc' = [proc EXCEPT ![p].pc = pc]
Exit(p) == proc' = [proc EXCEPT ![p] = Off(@.captured)]

Create(p) ==
    /\ proc[p].pc = "create"
    /\ IF lock = NoLock
       THEN Goto(p, "stamp") /\ lock' = [by |-> p, stamp |-> "empty"]
       ELSE Goto(p, "read") /\ UNCHANGED lock
    /\ UNCHANGED <<inbox, web, status, files, latest, stolen, checks, faults>>

\* The timestamp goes to the file this process created, which may have lost its
\* name.  A failed write removes whatever has the name now.
Stamp(p) ==
    /\ proc[p].pc = "stamp"
    /\ \/ /\ Goto(p, "run") /\ UNCHANGED faults
          /\ lock' = IF lock.by = p THEN [lock EXCEPT !.stamp = "fresh"] ELSE lock
       \/ /\ faults < MaxFaults /\ faults' = faults + 1
          /\ Exit(p) /\ lock' = NoLock
    /\ UNCHANGED <<inbox, web, status, files, latest, stolen, checks>>

\* Mutation: the timestamp is parsed with its newline, so no lock is ever stale.
ReadLockUntrimmed(p) ==
    /\ proc[p].pc = "read"
    /\ \/ Exit(p)
       \/ lock # NoLock /\ p = "apply" /\ Goto(p, "create")
    /\ UNCHANGED <<inbox, web, lock, status, files, latest, stolen, checks, faults>>

\* An empty lock has no timestamp and is never stale.  Only an apply waits.
ReadLock(p) ==
    /\ proc[p].pc = "read"
    /\ \/ lock = NoLock /\ Exit(p)
       \/ lock.stamp = "stale" /\ Goto(p, "remove")
       \/ lock.stamp \in {"empty", "fresh"} /\ Exit(p)
       \/ lock.stamp \in {"empty", "fresh"} /\ p = "apply" /\ Goto(p, "create")
    /\ UNCHANGED <<inbox, web, lock, status, files, latest, stolen, checks, faults>>

\* The stale file is removed by name, whatever has the name by now.
RemoveStale(p) ==
    /\ proc[p].pc = "remove"
    /\ IF lock = NoLock THEN Exit(p) ELSE Goto(p, "create")
    /\ lock' = NoLock
    /\ stolen' = (stolen \/ lock.stamp \in {"empty", "fresh"})
    /\ UNCHANGED <<inbox, web, status, files, latest, checks, faults>>

\* Mutation: staleLockAge is shorter than an update may take.
LockAgesEarly ==
    /\ lock.stamp = "fresh"
    /\ lock' = [lock EXCEPT !.stamp = "stale"]
    /\ UNCHANGED <<inbox, web, status, proc, files, latest, stolen, checks, faults>>

\* staleLockAge is longer than any unit may run, so a lock ages only when the
\* process that created it is gone.
LockAges ==
    /\ lock.stamp = "fresh" /\ lock.by = Nobody
    /\ lock' = [lock EXCEPT !.stamp = "stale"]
    /\ UNCHANGED <<inbox, web, status, proc, files, latest, stolen, checks, faults>>
-----------------------------------------------------------------------------
(* The engine. *)

\* persist: the status file is replaced atomically.
Persist(p, state, cur, available, progress, code) ==
    status' = [state |-> state, cur |-> cur, available |-> available, progress |-> progress,
               code |-> code, by |-> p, old |-> FALSE]

\* The deferred release removes the lock by name.
Return(p) == Exit(p) /\ lock' = NoLock

\* fail keeps the progress of the stage that failed.  If even this status
\* cannot be written, the old one stays.
Fail(p, stage, code) ==
    /\ \/ Persist(p, "failed", proc[p].cur, Available(p), ProgressForStage[stage], code)
       \/ UNCHANGED status
    /\ Return(p)

\* Enter the next stage: its status is on disk before its work starts.
Enter(p, stage) ==
    \/ /\ Persist(p, stage, proc[p].cur, Available(p), ProgressForStage[stage], "none")
       /\ Goto(p, stage) /\ UNCHANGED lock
    \/ UNCHANGED status /\ Return(p)

\* run, for an apply: the request is consumed only under the lock.
Consume ==
    /\ proc["apply"].pc = "run"
    /\ inbox' = FALSE
    /\ Goto("apply", "begin")
    /\ UNCHANGED <<web, lock, status, files, latest, stolen, checks, faults>>

Begin(p) ==
    /\ proc[p].pc = IF p = "apply" THEN "begin" ELSE "run"
    /\ Enter(p, "checking")
    /\ UNCHANGED <<inbox, web, files, latest, stolen, checks, faults>>

\* engine.latest, the answer of the release service.
Lookup(p) ==
    /\ proc[p].pc = "checking"
    /\ \/ Fail(p, "checking", "check_failed")
       \/ proc' = [proc EXCEPT ![p].pc = "looked", ![p].tag = latest] /\ UNCHANGED <<lock, status>>
    /\ UNCHANGED <<inbox, web, files, latest, stolen, checks, faults>>

\* A check, and an apply that finds nothing newer, report an idle node.
ReportIdle(p) ==
    /\ proc[p].pc = "looked" /\ (p = "check" \/ ~Available(p))
    /\ \/ Persist(p, "idle", proc[p].cur, Available(p), ProgressForStage["idle"], "none")
       \/ UNCHANGED status
    /\ Return(p)
    /\ UNCHANGED <<inbox, web, files, latest, stolen, checks, faults>>

StartDownload ==
    /\ proc["apply"].pc = "looked" /\ Available("apply")
    /\ Enter("apply", "downloading") \/ Fail("apply", "checking", "storage_failed")
    /\ UNCHANGED <<inbox, web, files, latest, stolen, checks, faults>>

\* What can go wrong with the work of a stage.
StageErrors ==
    [downloading |-> {"download_failed", "verification_failed"},
     verifying   |-> {"verification_failed"},
     extracting  |-> {"extraction_failed"},
     backing_up  |-> {"configuration_failed"}]

\* Download, digest, extraction and preparation: each either fails or is
\* followed by the next stage.  The last one captures the administrator secret.
Stage ==
    LET p == "apply"
        s == proc[p].pc
    IN /\ s \in DOMAIN StageErrors
       /\ \/ \E code \in StageErrors[s] : Fail(p, s, code)
          \/ s # "backing_up" /\ Enter(p, NextStage[s])
          \/ /\ s = "backing_up"
             /\ \/ /\ Persist(p, "installing", proc[p].cur, TRUE, ProgressForStage["installing"], "none")
                   /\ proc' = [proc EXCEPT ![p].pc = "installing", ![p].step = 1, ![p].captured = secret]
                   /\ UNCHANGED lock
                \/ UNCHANGED status /\ Return(p)
       /\ UNCHANGED <<inbox, web, files, latest, stolen, checks, faults>>
-----------------------------------------------------------------------------
(* install.sh, run by the apply in its stage "installing". *)

InstallerRuns == proc["apply"].pc = "installing" /\ proc["apply"].step \in 1..Len(InstallSteps)
\* Mutation: the exit status of the installer is lost.
InstallerEndsQuietly(failed) == proc' = [proc EXCEPT !["apply"].step = 0, !["apply"].failed = FALSE]

InstallerEnds(failed) == proc' = [proc EXCEPT !["apply"].step = 0, !["apply"].failed = failed]

\* One replacement.  The web directory is moved aside before the staged one
\* is moved in.
Replace(part, tag) ==
    /\ previous' = CASE part = "away" -> installed["web"] [] part = "web" -> 0 [] OTHER -> previous
    /\ installed' = CASE part = "away" -> [installed EXCEPT !["web"] = 0]
                      [] part = "backup" -> installed
                      [] OTHER -> [installed EXCEPT ![part] = tag]

InstallStep ==
    LET a == proc["apply"]
        part == InstallSteps[a.step]
    IN /\ InstallerRuns
       /\ Replace(part, a.tag)
       /\ proc' = [proc EXCEPT !["apply"].step = a.step + 1,
                               !["apply"].backup = IF part = "backup" THEN secret ELSE @]
       /\ UNCHANGED <<inbox, web, lock, status, secret, latest, stolen, checks, faults>>

\* restore_admin_secret_if_needed in the EXIT trap; without a backup yet it does
\* nothing.  Its own failure makes the installer fail.
TrapRestore(a, ok) ==
    secret' = IF ok /\ (a.step > 1) THEN a.backup ELSE secret

\* A step dies.  A failed activation moves the previous web directory back.
InstallerDies ==
    LET a == proc["apply"]
    IN /\ InstallerRuns
       /\ IF InstallSteps[a.step] = "web" /\ previous # 0
          THEN installed' = [installed EXCEPT !["web"] = previous] /\ previous' = 0
          ELSE UNCHANGED <<installed, previous>>
       /\ \E ok \in BOOLEAN : TrapRestore(a, ok)
       /\ InstallerEnds(TRUE)
       /\ UNCHANGED <<inbox, web, lock, status, latest, stolen, checks, faults>>

InstallerCompletes ==
    LET a == proc["apply"]
    IN /\ a.pc = "installing" /\ a.step = Len(InstallSteps) + 1
       /\ \E ok \in BOOLEAN : TrapRestore(a, ok) /\ InstallerEnds(a.backup # secret /\ ~ok)
       /\ UNCHANGED <<inbox, web, lock, status, installed, previous, latest, stolen, checks, faults>>

\* The unexpected change of the secret that both guards are there for.
SecretChanges ==
    /\ InstallerRuns /\ secret' = "other"
    /\ UNCHANGED <<inbox, web, lock, status, proc, installed, previous, latest, stolen, checks, faults>>

\* The installer has returned: restoreIfChanged first, then its own outcome.
restoreIfChanged(p) == secret' = proc[p].captured

InstallerReturned ==
    LET p == "apply"
    IN /\ proc[p].pc = "installing" /\ proc[p].step = 0
       /\ \/ /\ secret # proc[p].captured
             /\ Fail(p, "installing", "credential_recovery_failed")
             /\ UNCHANGED secret
          \/ /\ restoreIfChanged(p)
             /\ IF proc[p].failed THEN Fail(p, "installing", "installation_failed")
                                  ELSE Enter(p, "restarting")
       /\ UNCHANGED <<inbox, web, installed, previous, latest, stolen, checks, faults>>

Succeed ==
    LET p == "apply"
    IN /\ proc[p].pc = "restarting"
       /\ \/ Persist(p, "succeeded", proc[p].tag, FALSE, ProgressForStage["succeeded"], "none")
          \/ UNCHANGED status
       /\ Return(p)
       /\ UNCHANGED <<inbox, web, files, latest, stolen, checks, faults>>
-----------------------------------------------------------------------------
Publish ==
    /\ latest < MaxVersion
    /\ latest' = latest + 1
    /\ UNCHANGED <<inbox, web, lock, status, proc, files, stolen, checks, faults>>

UnitStep(p) ==
    \/ Create(p) \/ Stamp(p) \/ ReadLock(p) \/ RemoveStale(p)
    \/ Begin(p) \/ Lookup(p) \/ ReportIdle(p)

ApplyStep ==
    \/ Consume \/ StartDownload \/ Stage
    \/ InstallStep \/ InstallerDies \/ InstallerCompletes \/ InstallerReturned \/ Succeed

Next ==
    \/ WebRead \/ WebCreate \/ StatusExpires
    \/ StartApply \/ StartCheck \/ LockAges
    \/ \E p \in Units : UnitStep(p) \/ Kill(p)
    \/ ApplyStep \/ SecretChanges \/ Publish

\* systemd starts what is requested, a process that runs goes on (every
\* network operation has a deadline), and time passes.
Fairness ==
    /\ WF_vars(StartApply) /\ WF_vars(LockAges) /\ WF_vars(StatusExpires)
    /\ \A p \in Units : WF_vars(UnitStep(p))
    /\ WF_vars(ApplyStep)

Spec == Init /\ [][Next]_vars /\ Fairness
-----------------------------------------------------------------------------
(* Properties. *)

Holding(p) == proc[p].pc \notin Locking \cup {"off"}

Locks == [by : Units \cup {Nobody}, stamp : {"none", "empty", "fresh", "stale"}]
Statuses == [state : DOMAIN ProgressForStage, cur : 1..MaxVersion, available : BOOLEAN,
             progress : 0..100, code : Codes, by : Units, old : BOOLEAN]
Processes == [pc : {"off", "run", "begin", "looked"} \cup Locking \cup Active,
              cur : 1..MaxVersion, tag : 0..MaxVersion, step : 0..(Len(InstallSteps) + 1),
              failed : BOOLEAN, captured : Secrets, backup : Secrets]

\* The files and the processes have the shapes the code gives them.
TypeOK ==
    /\ inbox \in BOOLEAN /\ stolen \in BOOLEAN
    /\ web \in {"idle", "clear"}
    /\ lock \in Locks /\ status \in Statuses /\ proc \in [Units -> Processes]
    /\ installed \in [Parts -> 0..MaxVersion] /\ previous \in 0..MaxVersion
    /\ secret \in Secrets
    /\ latest \in 1..MaxVersion /\ checks \in 0..MaxChecks /\ faults \in 0..MaxFaults

\* acquireLockWithWait admits one process at a time, through faults, stale
\* locks and late releases, as long as no process has removed by name a lock
\* other than the stale one it had read.
ExclusiveUntilStolen == ~stolen => ~(Holding("check") /\ Holding("apply"))

\* The status file says "succeeded" only when every part of the node has the
\* version it names: no earlier failed, killed or half-finished attempt and no
\* concurrent check leaves a part behind it.
SucceededIsWhole ==
    status.state = "succeeded" => \A x \in Parts : installed[x] = status.cur

\* The updater compares the release with its own version.  When it reports
\* nothing to update, the server binary has at least that version, even after
\* installers that died half way: the script replaces the server first.
UpToDateHasServer ==
    status.state = "idle" /\ ~status.available => installed["server"] >= status.cur

\* When an attempt reports success or a failed installation, the administrator
\* secret is the one the engine captured before it ran the installer,
\* whichever of the two guards had to restore it.
SecretRestored ==
    status.state = "succeeded" \/ status.code = "installation_failed"
        => secret = proc["apply"].captured

\* The node has its web directory, except while the installer exchanges it: an
\* installer that dies puts the previous one back.  Only a process that is
\* killed in between leaves the node without one.
WebDirectoryKept ==
    \/ installed["web"] # 0
    \/ InstallerRuns /\ InstallSteps[proc["apply"].step] = "web" /\ previous # 0
    \/ faults > 0

\* A request for an update is taken up, unless a process died between creating
\* the lock and writing its timestamp: that lock never becomes stale.
RequestTakenUp ==
    inbox ~> (~inbox \/ (lock.by = Nobody /\ lock.stamp = "empty"))

\* Whatever dies, the web application does not show an active update forever.
ShownActivityEnds == ShownState \in Active ~> ShownState \notin Active

\* What an update reports about the node is true of its files: the server, the
\* secret and the web directory (selfupdate/engine.go, install.sh).
NodeIsKept == TypeOK /\ UpToDateHasServer /\ SecretRestored /\ WebDirectoryKept
=============================================================================
