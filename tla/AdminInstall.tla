---------------------------- MODULE AdminInstall ----------------------------
(***************************************************************************)
(* The configuration of an installation and its backups: installation.json,*)
(* server.json and the Caddyfile must name the same domain, the first two  *)
(* the same feature policy.  neprotoctl changes them with SetDomain and    *)
(* SetFeatures, takes a backup before, and restores it when the services   *)
(* refuse the change (internal/admin/manager.go and backup.go,             *)
(* cmd/neprotoctl/operations.go).                                          *)
(*                                                                         *)
(* Each program caches installation.json when it opens the installation    *)
(* (memory) and never reads it again, so a program that stays open works   *)
(* with an outdated cache after the other's change.  Every file is replaced*)
(* by a step of its own, which may fail; a program may be killed between   *)
(* two of them.  One configuration command runs at a time; the other       *)
(* program may add users meanwhile, in one step: AdminUsers has theirs.    *)
(***************************************************************************)
EXTENDS Integers, SequencesExt

CONSTANTS Domains, MaxTasks, MaxFailures, MaxKills

VARIABLES
  files,    \* [inst, server, caddy, users, secrets] on disk
  memory,   \* the installation.json each program has in memory
  backups,  \* the complete backup directories: [manifest, files]
  task,     \* the command being run, and the program running it
  service,  \* the server.json the running service has read
  used,     \* [tasks, failures, kills]
  crossed   \* the programs got in each other's way, or an undo failed itself

installVars == <<files, memory, backups, task, service, used, crossed>>

Tools == {"api", "cli"}
Members == {"u1", "u2"}
FileNames == {"inst", "server", "caddy", "users", "secrets"}
AllFiles == <<"inst", "server", "caddy", "users", "secrets">>

FirstInstallation == [domain |-> "d1", features |-> FALSE]

\* The secret of a cluster peer lies in users/active and has no user.
FirstFiles(peers) ==
  [inst |-> FirstInstallation, server |-> FirstInstallation, caddy |-> "d1",
   users |-> {"u1"}, secrets |-> {"u1"} \cup peers]

NoTask ==
  LET f == FirstFiles({}) IN
  [kind |-> "none", tool |-> "api", want |-> FirstInstallation, pc |-> "idle",
   todo |-> <<>>, copy |-> f, undo |-> f, target |-> f, recovery |-> f,
   then |-> "end", back |-> "end", ok |-> TRUE, before |-> f]

InstallInit ==
  \E peers \in {{}, {"peer"}} :
    LET f == FirstFiles(peers) IN
    /\ files = f
    /\ memory = [t \in Tools |-> f.inst]
    /\ backups = {}
    /\ task = NoTask
    /\ service = f.server
    /\ used = [tasks |-> 0, failures |-> 0, kills |-> 0]
    /\ crossed = FALSE

-----------------------------------------------------------------------------
Doing(t, pc) == task.tool = t /\ task.pc = pc
MoveTo(pc) == task' = [task EXCEPT !.pc = pc]
Finish == task' = NoTask
Busy == task.kind # "none"

\* An operation of the command fails.
Failure ==
  /\ used.failures < MaxFailures
  /\ used' = [used EXCEPT !.failures = @ + 1]

\* validateBackupPath: the three files of a backup name the manifest's domain.
validateBackupPath(b) ==
  /\ b.files.inst.domain = b.manifest
  /\ b.files.server.domain = b.manifest
  /\ b.files.caddy = b.manifest

-----------------------------------------------------------------------------
(* Commands begin. *)

Begin(t, kind, want, pc, then) ==
  /\ ~Busy
  /\ used.tasks < MaxTasks
  /\ used' = [used EXCEPT !.tasks = @ + 1]
  /\ task' = [NoTask EXCEPT !.kind = kind, !.tool = t, !.want = want,
                                   !.pc = pc, !.then = then, !.todo = AllFiles,
                            !.before = files]
  /\ UNCHANGED <<files, memory, backups, service, crossed>>

performDomainSet(t, d) ==
  /\ d # memory[t].domain
  /\ Begin(t, "domain", [memory[t] EXCEPT !.domain = d], "copy", "set")

performFeatureSet(t) ==
  Begin(t, "features", [memory[t] EXCEPT !.features = ~@], "copy", "set")

backupCreate(t) == Begin(t, "create", memory[t], "copy", "end")

-----------------------------------------------------------------------------
(* CreateBackup: file by file, the manifest last. *)

\* The domain in the manifest is the cached one.
Snapshot(t) == [manifest |-> memory[t].domain, files |-> task.copy]

CopyEnds(t) ==
  CASE task.then = "set" ->
         task' = [task EXCEPT !.pc = "set", !.target = Snapshot(t)]
    [] task.then = "restore" ->
         task' = [task EXCEPT !.pc = "restore", !.recovery = Snapshot(t),
                              !.todo = AllFiles]
    [] OTHER -> Finish

\* The incomplete directory is removed; RestoreBackup returns the error.
CopyFails(t) ==
  IF task.then = "restore"
    THEN task' = [task EXCEPT !.pc = task.back, !.ok = FALSE]
    ELSE Finish

CreateBackup(t) ==
  /\ Doing(t, "copy")
  /\ \/ /\ task.todo # <<>>
        /\ LET f == Head(task.todo) IN
             task' = [task EXCEPT !.copy[f] = files[f], !.todo = Tail(@)]
        /\ UNCHANGED <<backups, used, crossed>>
     \/ /\ task.todo = <<>>
        /\ backups' = backups \cup {Snapshot(t)}
        /\ crossed' = (crossed \/ (task.then = "restore" /\ ~validateBackupPath(Snapshot(t))))
        /\ CopyEnds(t)
        /\ UNCHANGED used
     \/ Failure /\ CopyFails(t) /\ UNCHANGED <<backups, crossed>>
  /\ UNCHANGED <<files, memory, service>>

-----------------------------------------------------------------------------
(* SetDomain and SetFeatures. *)

\* replaceServerIdentity and replaceCaddyDomain refuse files that do not have
\* the cached domain, replaceServerFeatures other than the cached features.
replaceServerIdentity(t) == files.server.domain = memory[t].domain
replaceCaddyDomain(t) == files.caddy = memory[t].domain
replaceServerFeatures(t) == files.server.features = memory[t].features

Matches(t) ==
  IF task.kind = "domain" THEN replaceServerIdentity(t) /\ replaceCaddyDomain(t)
                          ELSE replaceServerFeatures(t)

\* What the files become: the cached installation with the change, and the
\* server configuration and Caddyfile on disk with the change.
SetDomain(w) ==
  [files EXCEPT !.inst = w, !.server.domain = w.domain, !.caddy = w.domain]

SetFeatures(w) == [files EXCEPT !.inst = w, !.server.features = w.features]

Changed(t) == IF task.kind = "domain" THEN SetDomain(task.want) ELSE SetFeatures(task.want)

SetFiles(t) ==
  IF task.kind = "domain" THEN <<"inst", "server", "caddy">>
                             ELSE <<"inst", "server">>

SetRead(t) ==
  /\ Doing(t, "set")
  /\ IF Matches(t)
       THEN task' = [task EXCEPT !.pc = "write", !.undo = files,
                                 !.copy = Changed(t), !.todo = SetFiles(t)]
       ELSE Finish
  /\ crossed' = (crossed \/ (Matches(t) /\ memory[t] # files.inst))
  /\ UNCHANGED <<files, memory, backups, service, used>>

\* Mutant of SetUndo: the replacements applied so far stay.
SetUndoNot(t) == UNCHANGED <<files, crossed>>

\* The replacements applied so far are undone in reverse order; an undo that
\* fails as well leaves its file.
SetUndo(t) ==
  LET applied == {f \in FileNames : f \in ToSet(SetFiles(t)) \ ToSet(task.todo)}
  IN \E left \in {{}} \cup {{f} : f \in applied} :
       /\ left # {} => used.failures + 1 < MaxFailures
       /\ files' = [f \in FileNames |->
                      IF f \in applied \ left THEN task.undo[f] ELSE files[f]]
       /\ crossed' = (crossed \/ left # {})

SetWrite(t) ==
  /\ Doing(t, "write")
  /\ \/ /\ task.todo # <<>>
        /\ LET f == Head(task.todo) IN files' = [files EXCEPT ![f] = task.copy[f]]
        /\ task' = [task EXCEPT !.todo = Tail(@)]
        /\ UNCHANGED <<memory, used, crossed>>
     \/ /\ task.todo = <<>>
        /\ memory' = [memory EXCEPT ![t] = task.want]
        /\ MoveTo("rollout")
        /\ UNCHANGED <<files, used, crossed>>
     \/ /\ task.todo # <<>>
        /\ Failure /\ SetUndo(t) /\ Finish
        /\ UNCHANGED memory
  /\ UNCHANGED <<backups, service>>

-----------------------------------------------------------------------------
(* RestoreBackup: a recovery backup is taken first, and restored when the  *)
(* backup could not be.                                                    *)

\* RestoreBackup(b) is called; the command goes on at back.
Restore(t, b, back) ==
  task' = [task EXCEPT !.pc = "validate", !.target = b, !.back = back,
                       !.then = "restore", !.ok = TRUE]

RestoreReturns(t, ok) ==
  task' = [task EXCEPT !.pc = task.back, !.ok = ok]

backupRestore(t, b) ==
  /\ ~Busy
  /\ used.tasks < MaxTasks
  /\ used' = [used EXCEPT !.tasks = @ + 1]
  /\ task' = [NoTask EXCEPT !.kind = "restore", !.tool = t, !.pc = "validate",
                                   !.target = b, !.then = "restore", !.back = "check",
                            !.before = files]
  /\ UNCHANGED <<files, memory, backups, service, crossed>>

RestoreBackup(t) ==
  /\ Doing(t, "validate")
  /\ IF validateBackupPath(task.target)
       THEN task' = [task EXCEPT !.pc = "copy", !.todo = AllFiles]
       ELSE RestoreReturns(t, FALSE)
  /\ UNCHANGED <<files, memory, backups, service, used, crossed>>

\* restoreBackupFiles goes on after a failure: with the recovery backup, if it
\* was restoring the other one.
RestoreFails(t) ==
  IF task.pc = "restore" /\ validateBackupPath(task.recovery)
    THEN task' = [task EXCEPT !.pc = "recover", !.todo = AllFiles]
    ELSE RestoreReturns(t, FALSE)

\* The current secrets are removed one by one, then those of the backup are
\* written: what replaceCredentialDirectory leaves when it fails.
replaceCredentialDirectory(secrets) ==
  {[files EXCEPT !.secrets = s] : s \in SUBSET files.secrets \cup SUBSET secrets}

restoreBackupFiles(t) ==
  /\ task.tool = t /\ task.pc \in {"restore", "recover"}
  /\ LET b == IF task.pc = "restore" THEN task.target ELSE task.recovery
         f == Head(task.todo) IN
     \/ /\ task.todo # <<>>
        /\ files' = [files EXCEPT ![f] = b.files[f]]
        /\ task' = [task EXCEPT !.todo = Tail(@)]
        /\ UNCHANGED <<memory, used, crossed>>
     \/ /\ task.todo # <<>>
        /\ Failure
        /\ \/ files' = files
           \/ f = "secrets" /\ files' \in replaceCredentialDirectory(b.files.secrets)
        /\ RestoreFails(t)
        /\ crossed' = (crossed \/ task.pc = "recover")
        /\ UNCHANGED memory
     \/ /\ task.todo = <<>>
        /\ memory' = [memory EXCEPT ![t] = b.files.inst]
        /\ IF Cardinality(files.secrets) = Cardinality(files.users)
             THEN RestoreReturns(t, task.pc = "restore")
             ELSE RestoreFails(t)
        /\ UNCHANGED <<files, used, crossed>>
  /\ UNCHANGED <<backups, service>>

-----------------------------------------------------------------------------
(* The services take the change up, or the backup is restored. *)

Restarted(t) ==
  \/ service' = files.server /\ UNCHANGED used
  \/ Failure /\ service' \in {service, files.server}

\* ProvisionCertificate, Validate, the restart and PublicProbe, in this order.
rollout(t) ==
  /\ Doing(t, "rollout")
  /\ Restarted(t)
  /\ IF used' = used THEN MoveTo("changed")
                     ELSE Restore(t, task.target, "rolled")
  /\ UNCHANGED <<files, memory, backups, crossed>>

\* rollbackDomainChange and rollbackFeatureChange restart whatever the restore
\* returned.
rollbackChange(t) ==
  /\ Doing(t, "rolled")
  /\ Restarted(t)
  /\ IF task.ok /\ used' = used THEN MoveTo("restored") ELSE Finish
  /\ UNCHANGED <<files, memory, backups, crossed>>

\* The tail of backupCommand: what the restored configuration fails at brings
\* the recovery backup back.
checkRestored(t) ==
  /\ Doing(t, "check")
  /\ \/ ~task.ok /\ Finish /\ UNCHANGED <<service, used>>
     \/ /\ task.ok
        /\ Restarted(t)
        /\ IF used' = used THEN MoveTo("changed")
                           ELSE Restore(t, task.recovery, "again")
  /\ UNCHANGED <<files, memory, backups, crossed>>

\* The errors of this restart are ignored, and a certificate or a validation
\* that failed has none.
restartAgain(t) ==
  /\ Doing(t, "again")
  /\ service' \in {service, files.server}
  /\ Finish
  /\ UNCHANGED <<files, memory, backups, used, crossed>>

\* The command prints its success, or that the previous state was restored.
Ended(t) ==
  /\ task.tool = t /\ task.pc \in {"changed", "restored"}
  /\ Finish
  /\ UNCHANGED <<files, memory, backups, service, used, crossed>>

-----------------------------------------------------------------------------
(* Around the commands. *)

\* A program starts, or is started again, and caches installation.json.
Open(t) ==
  /\ task.tool = t => ~Busy
  /\ memory[t] # files.inst
  /\ memory' = [memory EXCEPT ![t] = files.inst]
  /\ UNCHANGED <<files, backups, task, service, used, crossed>>

\* A user is added with either program while the other may be at work.
UserAdded(t, u) ==
  /\ task.tool = t => ~Busy
  /\ u \notin files.users
  /\ files' = [files EXCEPT !.users = @ \cup {u}, !.secrets = @ \cup {u}]
  /\ crossed' = (crossed \/ Busy)
  /\ UNCHANGED <<memory, backups, task, service, used>>

Kill(t) ==
  /\ Busy /\ task.tool = t
  /\ used.kills < MaxKills
  /\ used' = [used EXCEPT !.kills = @ + 1]
  /\ Finish
  /\ memory' = [memory EXCEPT ![t] = files.inst]
  /\ UNCHANGED <<files, backups, service, crossed>>

-----------------------------------------------------------------------------
(* The requests of the control API, and the command line. *)

startDomainChange(d) == performDomainSet("api", d)

setPolicy == performFeatureSet("api")

startBackupRestore(b) == backupRestore("api", b)

domainCommand(d) == performDomainSet("cli", d)

featureCommand == performFeatureSet("cli")

backupCommand == backupCreate("cli") \/ \E b \in backups : backupRestore("cli", b)

Commands ==
  \/ \E d \in Domains : startDomainChange(d) \/ domainCommand(d)
  \/ setPolicy \/ featureCommand
  \/ backupCreate("api") \/ backupCommand
  \/ \E b \in backups : startBackupRestore(b)

TaskSteps(t) ==
  \/ CreateBackup(t) \/ SetRead(t) \/ SetWrite(t) \/ rollout(t)
  \/ RestoreBackup(t) \/ restoreBackupFiles(t) \/ rollbackChange(t)
  \/ checkRestored(t) \/ restartAgain(t) \/ Ended(t)
  \/ Open(t) \/ Kill(t) \/ \E u \in Members : UserAdded(t, u)

InstallNext == Commands \/ \E t \in Tools : TaskSteps(t)

-----------------------------------------------------------------------------
\* When no command is running, the files of the installation agree: one domain
\* in all three, one feature policy in two, and a secret for every user.  It
\* holds wherever a replacement fails, in the change or in the restore.  A
\* change made with an outdated cache, a user added during a command, a kill
\* and an undo that fails itself are excepted.
FilesAgree ==
  ~Busy /\ ~crossed /\ used.kills = 0 =>
    /\ files.inst = files.server
    /\ files.caddy = files.inst.domain
    /\ files.users = files.secrets \ {"peer"}

\* "Previous configuration restored" is true: files, cache and service are as
\* they were before the change began, and this holds for every user too.
RestoredIsPrevious ==
  ~crossed => \A t \in Tools : Doing(t, "restored") =>
    files = task.before /\ memory[t] = files.inst /\ service = files.server

\* The configuration is one configuration, and a restored one is the previous one.
ConfigurationIsWhole == FilesAgree /\ RestoredIsPrevious
=============================================================================
