---------------------------- MODULE UpdaterProofs ----------------------------
(***************************************************************************)
(* Theorems about Updater, for every number of releases, scheduled checks  *)
(* and killed processes.                                                   *)
(***************************************************************************)
EXTENDS Updater, TLAPS

\* A process knows the release it installs, and only the web directory is
\* ever missing.
Known ==
    /\ \A x \in Parts \ {"web"} : installed[x] > 0
    /\ \A p \in Units : proc[p].pc \in {"looked"} \cup (Active \ {"checking"}) => proc[p].tag > 0

\* A lock file has an owner exactly while the process that created it has it
\* and no timestamp is stale while its owner lives.
LockOwned ==
    /\ lock.stamp \in {"none", "stale"} => lock.by = Nobody
    /\ ~stolen => \A p \in Units : Holding(p) \/ proc[p].pc = "stamp" => lock.by = p

\* Every part has the version of the release.
Whole(tag) == \A x \in Parts : installed[x] = tag

\* What the installer has replaced when it is about to take its next step, and
\* what is true when it has returned without an error.
Replaced ==
    LET a == proc["apply"]
    IN /\ a.pc = "installing" =>
            /\ a.step >= 3 => installed["server"] = a.tag
            /\ a.step >= 4 => installed["updater"] = a.tag
            /\ a.step >= 6 => installed["web"] = a.tag
            /\ a.step >= 7 => installed["service"] = a.tag
            /\ a.step = 0 /\ ~a.failed => Whole(a.tag)
       /\ a.pc = "restarting" => Whole(a.tag)

\* While an attempt is past its first status, the file does not say
\* "succeeded".
Reported ==
    /\ proc["apply"].pc \in {"looked"} \cup Active => status.state # "succeeded"
    /\ SucceededIsWhole

IInv == TypeOK /\ Known /\ LockOwned /\ Replaced /\ Reported
-----------------------------------------------------------------------------
\* The script has six steps.
LEMMA SixSteps == Len(InstallSteps) = 6
  BY DEF InstallSteps

\* ProgressForStage gives a percentage for every state.
LEMMA ProgressInRange ==
    ASSUME NEW s \in DOMAIN ProgressForStage
    PROVE  ProgressForStage[s] \in 0..100
  BY DEF ProgressForStage

\* Every state the engine reports has a progress.
LEMMA StatesKnown ==
    Active \cup {"idle", "failed", "succeeded"} \subseteq DOMAIN ProgressForStage
  BY DEF ProgressForStage, Active

\* The initial state satisfies the invariant.
LEMMA InitInvariant == Init => IInv
  <1> SUFFICES ASSUME Init PROVE IInv
    OBVIOUS
  <1> USE UpdaterBounds DEF Init
  <1>1. TypeOK
    <2>1. lock \in Locks
      BY DEF NoLock, Locks
    <2>2. status \in Statuses
      BY StatesKnown DEF Statuses, Codes, Units
    <2>3. proc \in [Units -> Processes]
      BY SixSteps DEF Processes, Off, Secrets
    <2>4. inbox \in BOOLEAN /\ stolen \in BOOLEAN
      BY Zenon
    <2>5. /\ web \in {"idle", "clear"} /\ secret \in Secrets
          /\ installed \in [Parts -> 0..MaxVersion] /\ previous \in 0..MaxVersion
          /\ latest \in 1..MaxVersion /\ checks \in 0..MaxChecks /\ faults \in 0..MaxFaults
      BY DEF Secrets
    <2> QED
      BY <2>1, <2>2, <2>3, <2>4, <2>5 DEF TypeOK
  <1>2. Known
    BY DEF Known, Off, Active
  <1>3. LockOwned
    BY DEF LockOwned, NoLock, Off, Holding
  <1>4. Replaced
    BY DEF Replaced, Off, Units
  <1>5. Reported
    BY DEF Reported, SucceededIsWhole
  <1> QED
    BY <1>1, <1>2, <1>3, <1>4, <1>5 DEF IInv
-----------------------------------------------------------------------------
(* What the building blocks of the actions do to a process and to the files. *)

Points == {"off", "run", "begin", "looked"} \cup Locking \cup Active

\* Only the program point of p moves.
Moved(p, c) ==
    /\ proc' \in [Units -> Processes]
    /\ proc'[p].pc = c
    /\ proc'[p].tag = proc[p].tag /\ proc'[p].cur = proc[p].cur
    /\ proc'[p].step = proc[p].step /\ proc'[p].failed = proc[p].failed
    /\ proc'[p].captured = proc[p].captured
    /\ \A q \in Units \ {p} : proc'[q] = proc[q]

\* p is gone.
Gone(p) ==
    /\ proc' \in [Units -> Processes]
    /\ proc'[p].pc = "off" /\ proc'[p].cur = 1 /\ proc'[p].captured = proc[p].captured
    /\ \A q \in Units \ {p} : proc'[q] = proc[q]

\* Goto moves a process.
LEMMA GotoMoves ==
    ASSUME TypeOK, NEW p \in Units, NEW c \in Points, Goto(p, c)
    PROVE  Moved(p, c)
  BY DEF TypeOK, Goto, Moved, Processes, Points

\* A process that exits, or is killed, leaves nothing behind.
LEMMA ExitGone ==
    ASSUME TypeOK, NEW p \in Units, Exit(p)
    PROVE  Gone(p)
  BY SixSteps, UpdaterBounds DEF TypeOK, Exit, Off, Gone, Processes, Secrets

\* A status written with proper fields is a status.
LEMMA PersistTyped ==
    ASSUME NEW p \in Units, NEW state \in DOMAIN ProgressForStage, NEW cur \in 1..MaxVersion,
           NEW available \in BOOLEAN, NEW s \in DOMAIN ProgressForStage, NEW code \in Codes,
           Persist(p, state, cur, available, ProgressForStage[s], code)
    PROVE  status' \in Statuses /\ status'.state = state /\ status'.cur = cur /\ status'.code = code
  BY ProgressInRange DEF Persist, Statuses

\* fail reports a failure, or nothing, and releases the lock.
LEMMA FailReports ==
    ASSUME TypeOK, NEW p \in Units, NEW s \in Active, NEW code \in Codes, Fail(p, s, code)
    PROVE  /\ Gone(p) /\ lock' = NoLock
           /\ \/ status' = status
              \/ status' \in Statuses /\ status'.state = "failed" /\ status'.code = code
  <1>1. Gone(p) /\ lock' = NoLock
    BY ExitGone DEF Fail, Return
  <1>2. ASSUME Persist(p, "failed", proc[p].cur, Available(p), ProgressForStage[s], code)
        PROVE  status' \in Statuses /\ status'.state = "failed" /\ status'.code = code
    <2>1. proc[p].cur \in 1..MaxVersion
      BY DEF TypeOK, Processes
    <2>2. Available(p) \in BOOLEAN
      BY DEF Available
    <2> HIDE DEF Available
    <2> QED
      BY <1>2, <2>1, <2>2, StatesKnown, PersistTyped
  <1> QED
    BY <1>1, <1>2 DEF Fail

\* Entering a stage reports it first; when that fails the lock is released.
LEMMA EnterReports ==
    ASSUME TypeOK, NEW p \in Units, NEW s \in Active, Enter(p, s)
    PROVE  \/ /\ Moved(p, s) /\ lock' = lock
              /\ status' \in Statuses /\ status'.state = s /\ status'.code = "none"
           \/ Gone(p) /\ lock' = NoLock /\ status' = status
  <1>1. ASSUME Persist(p, s, proc[p].cur, Available(p), ProgressForStage[s], "none")
        PROVE  status' \in Statuses /\ status'.state = s /\ status'.code = "none"
    <2>1. proc[p].cur \in 1..MaxVersion
      BY DEF TypeOK, Processes
    <2>2. Available(p) \in BOOLEAN
      BY DEF Available
    <2>3. "none" \in Codes
      BY DEF Codes
    <2> HIDE DEF Available
    <2> QED
      BY <1>1, <2>1, <2>2, <2>3, StatesKnown, PersistTyped
  <1>2. s \in Points
    BY DEF Points
  <1> QED
    BY <1>1, <1>2, GotoMoves, ExitGone DEF Enter, Return
-----------------------------------------------------------------------------
(* Every step preserves the invariant. *)

\* The script ends, with an exit status.
LEMMA ScriptEnds ==
    ASSUME TypeOK, NEW f \in BOOLEAN,
           proc' = [proc EXCEPT !["apply"].step = 0, !["apply"].failed = f]
    PROVE  proc' \in [Units -> Processes]
  <1>1. 0 \in 0..(Len(InstallSteps) + 1)
    BY SixSteps
  <1> QED
    BY <1>1 DEF TypeOK, Processes, Units

\* The script goes on, and may take its backup.
LEMMA ScriptGoesOn ==
    ASSUME TypeOK, NEW n \in 0..(Len(InstallSteps) + 1), NEW b \in Secrets,
           proc' = [proc EXCEPT !["apply"].step = n, !["apply"].backup = b]
    PROVE  proc' \in [Units -> Processes]
  BY DEF TypeOK, Processes, Units

\* A unit that systemd starts is at its first step.
LEMMA StartedRuns ==
    ASSUME TypeOK, NEW p \in Units, installed["updater"] \in 1..MaxVersion, Started(p)
    PROVE  /\ proc' \in [Units -> Processes] /\ proc'[p].pc = "create"
           /\ \A q \in Units \ {p} : proc'[q] = proc[q]
  <1> DEFINE v == installed["updater"]
  <1>1. proc' = [proc EXCEPT ![p].pc = "create", ![p].cur = v] /\ v \in 1..MaxVersion
    BY DEF Started
  <1> HIDE DEF v
  <1> QED
    BY <1>1 DEF TypeOK, Processes, Locking

\* A step that leaves the lock, the processes, the parts and what the status
\* says of them alone disturbs nothing.
LEMMA QuietStep ==
    ASSUME Known, LockOwned, Replaced, Reported, UNCHANGED <<lock, proc, installed, stolen>>,
           status'.state = status.state, status'.cur = status.cur
    PROVE  Known' /\ LockOwned' /\ Replaced' /\ Reported'
  <1>1. Known' /\ LockOwned'
    BY DEF Known, LockOwned, Holding
  <1>2. Replaced' /\ Reported'
    BY DEF Replaced, Whole, Reported, SucceededIsWhole
  <1> QED
    BY <1>1, <1>2

\* Every step of the web application, of systemd, of an updater process or of
\* the installer preserves the invariant.
LEMMA StepInvariant == IInv /\ [Next]_vars => IInv'
  <1> SUFFICES ASSUME IInv, [Next]_vars PROVE IInv'
    OBVIOUS
  <1> USE UpdaterBounds, SixSteps
  <1>t. TypeOK
    BY DEF IInv
  <1>k. Known
    BY DEF IInv
  <1>l. LockOwned
    BY DEF IInv
  <1>r. Replaced
    BY DEF IInv
  <1>s. Reported
    BY DEF IInv
  <1>u. "apply" \in Units /\ "check" \in Units
    BY DEF Units
  <1>1. CASE UNCHANGED vars
    <2>1. TypeOK'
      BY <1>1, <1>t DEF TypeOK, vars
    <2> QED
      BY <1>1, <2>1, QuietStep DEF IInv, vars
  <1>2. CASE WebRead
    <2>1. TypeOK'
      BY <1>2, <1>t DEF TypeOK, WebRead, files
    <2> QED
      BY <1>2, <2>1, QuietStep DEF IInv, WebRead, files
  <1>3. CASE WebCreate
    <2>1. TypeOK'
      BY <1>3, <1>t DEF TypeOK, WebCreate, files
    <2> QED
      BY <1>3, <2>1, QuietStep DEF IInv, WebCreate, files
  <1>4. CASE StatusExpires
    <2>1. status' \in Statuses /\ status'.state = status.state /\ status'.cur = status.cur
      BY <1>4, <1>t DEF StatusExpires, TypeOK, Statuses
    <2>2. TypeOK'
      BY <1>4, <1>t, <2>1 DEF TypeOK, StatusExpires, files
    <2> QED
      BY <1>4, <2>1, <2>2, QuietStep DEF IInv, StatusExpires, files
  <1>5. CASE Publish
    <2>1. TypeOK'
      BY <1>5, <1>t DEF TypeOK, Publish, files
    <2> QED
      BY <1>5, <2>1, QuietStep DEF IInv, Publish, files
  <1>6. CASE SecretChanges
    <2>1. TypeOK'
      BY <1>6, <1>t DEF TypeOK, SecretChanges, Secrets
    <2> QED
      BY <1>6, <2>1, QuietStep DEF IInv, SecretChanges
  <1>7. CASE StartApply
    <2>1. installed["updater"] \in 1..MaxVersion
      BY <1>t, <1>k DEF TypeOK, Known, Parts
    <2>2. /\ proc' \in [Units -> Processes] /\ proc'["apply"].pc = "create"
          /\ \A q \in Units \ {"apply"} : proc'[q] = proc[q]
      BY <1>7, <1>t, <1>u, <2>1, StartedRuns DEF StartApply
    <2>3. TypeOK'
      BY <1>7, <1>t, <2>2 DEF TypeOK, StartApply, files
    <2>4. Known'
      BY <1>7, <1>k, <2>2 DEF Known, Active, StartApply, files
    <2>5. LockOwned'
      BY <1>7, <1>l, <2>2 DEF LockOwned, Holding, Locking, StartApply
    <2>6. Replaced'
      BY <2>2 DEF Replaced
    <2>7. Reported'
      BY <1>7, <1>s, <2>2 DEF Reported, SucceededIsWhole, Active, StartApply, files
    <2> QED
      BY <2>3, <2>4, <2>5, <2>6, <2>7 DEF IInv
  <1>8. CASE StartCheck
    <2>1. installed["updater"] \in 1..MaxVersion
      BY <1>t, <1>k DEF TypeOK, Known, Parts
    <2>2. /\ proc' \in [Units -> Processes] /\ proc'["check"].pc = "create"
          /\ \A q \in Units \ {"check"} : proc'[q] = proc[q]
      BY <1>8, <1>t, <1>u, <2>1, StartedRuns DEF StartCheck
    <2>3. TypeOK'
      BY <1>8, <1>t, <2>2 DEF TypeOK, StartCheck, files
    <2>4. Known'
      BY <1>8, <1>k, <2>2 DEF Known, Active, StartCheck, files
    <2>5. LockOwned'
      BY <1>8, <1>l, <2>2 DEF LockOwned, Holding, Locking, StartCheck
    <2>6. Replaced'
      BY <1>8, <1>r, <1>u, <2>2 DEF Replaced, Whole, StartCheck, files
    <2>7. Reported'
      BY <1>8, <1>s, <1>u, <2>2 DEF Reported, SucceededIsWhole, StartCheck, files
    <2> QED
      BY <2>3, <2>4, <2>5, <2>6, <2>7 DEF IInv
  <1>9. ASSUME NEW p \in Units, Kill(p) PROVE IInv'
    <2>1. Gone(p)
      BY <1>9, <1>t, ExitGone DEF Kill, Exit
    <2>2. lock' \in Locks
      BY <1>9, <1>t DEF Kill, TypeOK, Locks
    <2>3. TypeOK'
      BY <1>9, <1>t, <2>1, <2>2 DEF TypeOK, Kill, files, Gone
    <2>4. Known'
      BY <1>9, <1>k, <2>1 DEF Known, Active, Kill, files, Gone
    <2>5. LockOwned'
      BY <1>9, <1>l, <2>1 DEF LockOwned, Holding, Kill, Gone
    <2>6. Replaced'
      BY <1>9, <1>r, <2>1 DEF Replaced, Whole, Kill, files, Gone
    <2>7. Reported'
      BY <1>9, <1>s, <2>1 DEF Reported, SucceededIsWhole, Active, Kill, files, Gone
    <2> QED
      BY <2>3, <2>4, <2>5, <2>6, <2>7 DEF IInv
  <1>10. ASSUME NEW p \in Units, Create(p) PROVE IInv'
    <2>1. Moved(p, "stamp") \/ Moved(p, "read")
      BY <1>10, <1>t, GotoMoves DEF Create, Points, Locking
    <2>2. \/ lock = NoLock /\ lock' = [by |-> p, stamp |-> "empty"] /\ Moved(p, "stamp")
          \/ lock' = lock /\ Moved(p, "read")
      BY <1>10, <1>t, GotoMoves DEF Create, Points, Locking
    <2>3. lock' \in Locks
      BY <1>t, <2>2 DEF TypeOK, Locks
    <2>4. TypeOK'
      BY <1>10, <1>t, <2>1, <2>3 DEF TypeOK, Moved, Create, files
    <2>5. Known'
      BY <1>10, <1>k, <2>1 DEF Known, Active, Moved, Create, files
    <2>6. LockOwned'
      BY <1>10, <1>l, <2>2 DEF LockOwned, Holding, Units, Locking, Nobody, NoLock, Moved, Create
    <2>7. Replaced'
      BY <1>10, <1>r, <1>u, <2>1 DEF Replaced, Whole, Moved, Create, files
    <2>8. Reported'
      BY <1>10, <1>s, <1>u, <2>1 DEF Reported, SucceededIsWhole, Active, Moved, Create, files
    <2> QED
      BY <2>4, <2>5, <2>6, <2>7, <2>8 DEF IInv
  <1>11. ASSUME NEW p \in Units, Stamp(p) PROVE IInv'
    <2>1. \/ Moved(p, "run") /\ lock' = IF lock.by = p THEN [lock EXCEPT !.stamp = "fresh"] ELSE lock
          \/ Gone(p) /\ lock' = NoLock
      BY <1>11, <1>t, GotoMoves, ExitGone DEF Stamp, Points
    <2>2. lock' \in Locks
      BY <1>t, <2>1 DEF TypeOK, Locks, NoLock
    <2>3. faults' \in 0..MaxFaults
      BY <1>11, <1>t DEF Stamp, TypeOK
    <2>4. TypeOK'
      BY <1>11, <1>t, <2>1, <2>2, <2>3 DEF TypeOK, Moved, Gone, Stamp, files
    <2>5. Known'
      BY <1>11, <1>k, <2>1 DEF Known, Active, Moved, Gone, Stamp, files
    <2>6. LockOwned'
      BY <1>11, <1>l, <2>1, <2>2 DEF LockOwned, Holding, NoLock, Moved, Gone, Stamp, Locks
    <2>7. Replaced'
      BY <1>11, <1>r, <1>u, <2>1 DEF Replaced, Whole, Moved, Gone, Stamp, files
    <2>8. Reported'
      BY <1>11, <1>s, <1>u, <2>1 DEF Reported, SucceededIsWhole, Active, Moved, Gone, Stamp, files
    <2> QED
      BY <2>4, <2>5, <2>6, <2>7, <2>8 DEF IInv
  <1>12. ASSUME NEW p \in Units, ReadLock(p) PROVE IInv'
    <2>1. Gone(p) \/ Moved(p, "remove") \/ Moved(p, "create")
      BY <1>12, <1>t, GotoMoves, ExitGone DEF ReadLock, Points, Locking
    <2>2. TypeOK'
      BY <1>12, <1>t, <2>1 DEF TypeOK, Moved, Gone, ReadLock, files
    <2>3. Known'
      BY <1>12, <1>k, <2>1 DEF Known, Active, Moved, Gone, ReadLock, files
    <2>4. LockOwned'
      BY <1>12, <1>l, <2>1 DEF LockOwned, Holding, Locking, Moved, Gone, ReadLock
    <2>5. Replaced'
      BY <1>12, <1>r, <1>u, <2>1 DEF Replaced, Whole, Moved, Gone, ReadLock, files
    <2>6. Reported'
      BY <1>12, <1>s, <1>u, <2>1
         DEF Reported, SucceededIsWhole, Active, Moved, Gone, ReadLock, files
    <2> QED
      BY <2>2, <2>3, <2>4, <2>5, <2>6 DEF IInv
  <1>13. ASSUME NEW p \in Units, RemoveStale(p) PROVE IInv'
    <2>1. Gone(p) \/ Moved(p, "create")
      BY <1>13, <1>t, GotoMoves, ExitGone DEF RemoveStale, Points, Locking
    <2>2. stolen' \in BOOLEAN
      BY <1>13 DEF RemoveStale
    <2>3. TypeOK'
      BY <1>13, <1>t, <2>1 DEF TypeOK, Moved, Gone, RemoveStale, files, Locks, NoLock
    <2>4. Known'
      BY <1>13, <1>k, <2>1 DEF Known, Active, Moved, Gone, RemoveStale, files
    <2>5. LockOwned'
      BY <1>13, <1>t, <1>l, <1>u, <2>1, <2>2
         DEF LockOwned, Holding, Units, Locking, Nobody, NoLock, Moved, Gone, RemoveStale, files,
         TypeOK, Locks
    <2>6. Replaced'
      BY <1>13, <1>r, <1>u, <2>1 DEF Replaced, Whole, Moved, Gone, RemoveStale, files
    <2>7. Reported'
      BY <1>13, <1>s, <1>u, <2>1
         DEF Reported, SucceededIsWhole, Active, Moved, Gone, RemoveStale, files
    <2> QED
      BY <2>3, <2>4, <2>5, <2>6, <2>7 DEF IInv
  <1>14. CASE LockAges
    <2>1. lock' \in Locks /\ lock'.by = Nobody
      BY <1>14, <1>t DEF LockAges, TypeOK, Locks
    <2>2. TypeOK'
      BY <1>14, <1>t, <2>1 DEF TypeOK, LockAges, files
    <2>3. Known'
      BY <1>14, <1>k DEF Known, LockAges, files
    <2>4. LockOwned'
      BY <1>14, <1>l DEF LockOwned, Holding, LockAges
    <2>5. Replaced'
      BY <1>14, <1>r DEF Replaced, Whole, LockAges, files
    <2>6. Reported'
      BY <1>14, <1>s DEF Reported, SucceededIsWhole, LockAges, files
    <2> QED
      BY <2>2, <2>3, <2>4, <2>5, <2>6 DEF IInv
  <1>15. CASE Consume
    <2>1. Moved("apply", "begin")
      BY <1>15, <1>t, <1>u, GotoMoves DEF Consume, Points
    <2>2. inbox' \in BOOLEAN
      BY <1>15, Zenon DEF Consume
    <2>3. TypeOK'
      BY <1>15, <1>t, <2>1, <2>2 DEF TypeOK, Moved, Consume, files
    <2>4. Known'
      BY <1>15, <1>k, <2>1 DEF Known, Active, Moved, Consume, files
    <2>5. LockOwned'
      BY <1>15, <1>l, <2>1 DEF LockOwned, Holding, Locking, Moved, Consume
    <2>6. Replaced'
      BY <2>1 DEF Replaced, Moved
    <2>7. Reported'
      BY <1>15, <1>s, <2>1 DEF Reported, SucceededIsWhole, Active, Moved, Consume, files
    <2> QED
      BY <2>3, <2>4, <2>5, <2>6, <2>7 DEF IInv
  <1>16. ASSUME NEW p \in Units, Begin(p) PROVE IInv'
    <2>1. \/ /\ Moved(p, "checking") /\ lock' = lock
             /\ status' \in Statuses /\ status'.state = "checking"
          \/ Gone(p) /\ lock' = NoLock /\ status' = status
      BY <1>16, <1>t, EnterReports DEF Begin, Active
    <2>2. TypeOK'
      BY <1>16, <1>t, <2>1 DEF TypeOK, Moved, Gone, Begin, files, Locks, NoLock
    <2>3. Known'
      BY <1>16, <1>k, <2>1 DEF Known, Active, Moved, Gone, Begin, files
    <2>4. LockOwned'
      BY <1>16, <1>l, <2>1 DEF LockOwned, Holding, Locking, NoLock, Moved, Gone, Begin
    <2>5. Replaced'
      BY <1>16, <1>r, <1>u, <2>1 DEF Replaced, Whole, Moved, Gone, Begin, files
    <2>6. Reported'
      BY <1>16, <1>s, <1>u, <2>1 DEF Reported, SucceededIsWhole, Active, Gone, Begin, files
    <2> QED
      BY <2>2, <2>3, <2>4, <2>5, <2>6 DEF IInv
  <1>17. ASSUME NEW p \in Units, Lookup(p) PROVE IInv'
    <2>1. \/ /\ Gone(p) /\ lock' = NoLock
             /\ status' = status \/ (status' \in Statuses /\ status'.state = "failed")
          \/ /\ proc' = [proc EXCEPT ![p].pc = "looked", ![p].tag = latest]
             /\ lock' = lock /\ status' = status
      BY <1>17, <1>t, FailReports DEF Lookup, Active, Codes
    <2>2. proc' \in [Units -> Processes]
      BY <1>t, <2>1 DEF TypeOK, Gone, Processes
    <2>3. TypeOK'
      BY <1>17, <1>t, <2>1, <2>2 DEF TypeOK, Lookup, files, Locks, NoLock
    <2>4. Known'
      BY <1>17, <1>t, <1>k, <2>1 DEF Known, Active, Gone, Lookup, files, TypeOK, Processes
    <2>5. LockOwned'
      BY <1>17, <1>l, <2>1, <2>2 DEF LockOwned, Holding, Locking, NoLock, Gone, Lookup
    <2>6. Replaced'
      BY <1>17, <1>r, <1>u, <2>1, <2>2 DEF Replaced, Whole, Gone, Lookup, files, Processes
    <2>7. Reported'
      BY <1>17, <1>s, <1>u, <2>1, <2>2 DEF Reported, SucceededIsWhole, Active, Gone, Lookup, files
    <2> QED
      BY <2>3, <2>4, <2>5, <2>6, <2>7 DEF IInv
  <1>18. ASSUME NEW p \in Units, ReportIdle(p) PROVE IInv'
    <2>1. Gone(p) /\ lock' = NoLock
      BY <1>18, <1>t, ExitGone DEF ReportIdle, Return
    <2>2. proc[p].cur \in 1..MaxVersion /\ Available(p) \in BOOLEAN
      BY <1>t DEF TypeOK, Processes, Available
    <2>3. status' = status \/ (status' \in Statuses /\ status'.state = "idle")
      BY <1>18, <2>2, StatesKnown, PersistTyped DEF ReportIdle, Codes
    <2>4. TypeOK'
      BY <1>18, <1>t, <2>1, <2>3 DEF TypeOK, Gone, ReportIdle, files, Locks, NoLock
    <2>5. Known'
      BY <1>18, <1>k, <2>1 DEF Known, Active, Gone, ReportIdle, files
    <2>6. LockOwned'
      BY <1>18, <1>l, <2>1 DEF LockOwned, Holding, Locking, NoLock, Gone, ReportIdle
    <2>7. Replaced'
      BY <1>18, <1>r, <1>u, <2>1 DEF Replaced, Whole, Gone, ReportIdle, files
    <2>8. Reported'
      BY <1>18, <1>s, <1>u, <2>1, <2>3 DEF Reported, SucceededIsWhole, Gone, ReportIdle, files
    <2> QED
      BY <2>4, <2>5, <2>6, <2>7, <2>8 DEF IInv
  <1>19. CASE StartDownload
    <2>1. \/ /\ Moved("apply", "downloading") /\ lock' = lock
             /\ status' \in Statuses /\ status'.state = "downloading"
          \/ Gone("apply") /\ lock' = NoLock /\ status' = status
          \/ /\ Gone("apply") /\ lock' = NoLock
             /\ status' = status \/ (status' \in Statuses /\ status'.state = "failed")
      BY <1>19, <1>t, <1>u, EnterReports, FailReports DEF StartDownload, Active, Codes
    <2>2. TypeOK'
      BY <1>19, <1>t, <2>1 DEF TypeOK, Moved, Gone, StartDownload, files, Locks, NoLock
    <2>3. Known'
      BY <1>19, <1>k, <2>1 DEF Known, Active, Moved, Gone, StartDownload, files
    <2>4. LockOwned'
      BY <1>19, <1>l, <1>u, <2>1 DEF LockOwned, Holding, Locking, NoLock, Moved, Gone, StartDownload
    <2>5. Replaced'
      BY <2>1 DEF Replaced, Moved, Gone
    <2>6. Reported'
      BY <1>19, <1>s, <2>1 DEF Reported, SucceededIsWhole, StartDownload
    <2> QED
      BY <2>2, <2>3, <2>4, <2>5, <2>6 DEF IInv
  <1>20. CASE Stage
    <2>1. proc["apply"].pc \in {"downloading", "verifying", "extracting", "backing_up"}
      BY <1>20 DEF Stage, StageErrors
    <2>2. NextStage[proc["apply"].pc] \in Active \/ proc["apply"].pc = "backing_up"
      BY <2>1 DEF NextStage, Active
    <2>3. \/ \E code \in Codes : Fail("apply", proc["apply"].pc, code)
          \/ proc["apply"].pc # "backing_up" /\ Enter("apply", NextStage[proc["apply"].pc])
          \/ /\ Persist("apply", "installing", proc["apply"].cur, TRUE, ProgressForStage["installing"], "none")
             /\ proc' = [proc EXCEPT !["apply"].pc = "installing", !["apply"].step = 1,
                                     !["apply"].captured = secret]
             /\ lock' = lock
          \/ status' = status /\ Return("apply")
      <3>1. StageErrors[proc["apply"].pc] \subseteq Codes
        BY <2>1 DEF StageErrors, Codes
      <3> QED
        BY <1>20, <3>1 DEF Stage
    <2>4. \/ /\ Gone("apply") /\ lock' = NoLock
             /\ status' = status \/ (status' \in Statuses /\ status'.state = "failed")
          \/ \E s \in {"verifying", "extracting", "backing_up"} :
                /\ Moved("apply", s) /\ lock' = lock
                /\ status' \in Statuses /\ status'.state = s
          \/ /\ proc' = [proc EXCEPT !["apply"].pc = "installing", !["apply"].step = 1,
                                     !["apply"].captured = secret]
             /\ lock' = lock /\ status' \in Statuses /\ status'.state = "installing"
      <3>1. CASE \E code \in Codes : Fail("apply", proc["apply"].pc, code)
        BY <1>t, <1>u, <2>1, <3>1, FailReports DEF Active
      <3>2. CASE proc["apply"].pc # "backing_up" /\ Enter("apply", NextStage[proc["apply"].pc])
        <4>1. NextStage[proc["apply"].pc] \in {"verifying", "extracting", "backing_up"}
          BY <2>1, <3>2 DEF NextStage
        <4> QED
          BY <1>t, <1>u, <2>2, <3>2, <4>1, EnterReports
      <3>3. CASE /\ Persist("apply", "installing", proc["apply"].cur, TRUE, ProgressForStage["installing"], "none")
                 /\ proc' = [proc EXCEPT !["apply"].pc = "installing", !["apply"].step = 1,
                                         !["apply"].captured = secret]
                 /\ lock' = lock
        <4>1. proc["apply"].cur \in 1..MaxVersion /\ "installing" \in DOMAIN ProgressForStage /\ "none" \in Codes
          BY <1>t, <1>u, StatesKnown DEF TypeOK, Processes, Active, Codes
        <4> QED
          BY <1>u, <3>3, <4>1, PersistTyped
      <3>4. CASE status' = status /\ Return("apply")
        BY <1>t, <1>u, <3>4, ExitGone DEF Return
      <3> QED
        BY <2>3, <3>1, <3>2, <3>3, <3>4
    <2>5. proc' \in [Units -> Processes]
      BY <1>t, <2>4 DEF TypeOK, Moved, Gone, Processes, Active
    <2>6. UNCHANGED <<inbox, web, installed, previous, secret, latest, stolen, checks, faults>>
      BY <1>20 DEF Stage, files
    <2>7. TypeOK'
      BY <1>t, <2>4, <2>5, <2>6 DEF TypeOK, Locks, NoLock
    <2>8. Known'
      BY <1>k, <2>1, <2>4, <2>5, <2>6 DEF Known, Active, Moved, Gone, Processes
    <2>9. LockOwned'
      BY <1>l, <1>u, <2>1, <2>4, <2>5, <2>6 DEF LockOwned, Holding, Locking, NoLock, Moved, Gone
    <2>10. Replaced'
      BY <1>u, <2>4, <2>5 DEF Replaced, Moved, Gone, Processes
    <2>11. Reported'
      BY <1>s, <2>1, <2>4 DEF Reported, SucceededIsWhole, Active
    <2> QED
      BY <2>7, <2>8, <2>9, <2>10, <2>11 DEF IInv
  <1>21. CASE InstallStep
    <2>1. proc["apply"].step \in 1..6 /\ proc["apply"].pc = "installing"
      BY <1>21 DEF InstallStep, InstallerRuns
    <2>2. /\ proc' \in [Units -> Processes] /\ proc'["apply"].pc = "installing"
          /\ proc'["apply"].step = proc["apply"].step + 1 /\ proc'["apply"].tag = proc["apply"].tag
          /\ proc'["apply"].failed = proc["apply"].failed /\ proc'["check"] = proc["check"]
      <3>1. PICK b \in Secrets :
               proc' = [proc EXCEPT !["apply"].step = proc["apply"].step + 1, !["apply"].backup = b]
        <4>1. proc["apply"].backup \in Secrets /\ secret \in Secrets
          BY <1>t, <1>u DEF TypeOK, Processes
        <4>2. CASE InstallSteps[proc["apply"].step] = "backup"
          BY <1>21, <4>1, <4>2 DEF InstallStep
        <4>3. CASE InstallSteps[proc["apply"].step] # "backup"
          <5>1. proc' = [proc EXCEPT !["apply"].step = proc["apply"].step + 1, !["apply"].backup = @]
            BY <1>21, <4>3 DEF InstallStep
          <5> QED
            BY <1>t, <1>u, <4>1, <5>1 DEF TypeOK
        <4> QED
          BY <4>2, <4>3
      <3>2. proc' \in [Units -> Processes]
        <4>1. proc["apply"].step + 1 \in 0..(Len(InstallSteps) + 1)
          BY <2>1
        <4> QED
          BY <1>t, <3>1, <4>1, ScriptGoesOn
      <3>3. proc'["check"] = proc["check"]
        BY <1>t, <1>u, <3>1 DEF TypeOK
      <3> QED
        BY <1>t, <1>u, <2>1, <3>1, <3>2, <3>3 DEF TypeOK, Processes
    <2>3. proc["apply"].tag \in 1..MaxVersion
      BY <1>t, <1>k, <1>u, <2>1 DEF TypeOK, Known, Processes, Active
    <2>4. /\ proc["apply"].step = 1 => InstallSteps[proc["apply"].step] = "backup"
          /\ proc["apply"].step = 2 => InstallSteps[proc["apply"].step] = "server"
          /\ proc["apply"].step = 3 => InstallSteps[proc["apply"].step] = "updater"
          /\ proc["apply"].step = 4 => InstallSteps[proc["apply"].step] = "away"
          /\ proc["apply"].step = 5 => InstallSteps[proc["apply"].step] = "web"
          /\ proc["apply"].step = 6 => InstallSteps[proc["apply"].step] = "service"
      BY DEF InstallSteps
    <2>5. /\ proc["apply"].step = 1 => installed' = installed
          /\ proc["apply"].step = 2 => installed' = [installed EXCEPT !["server"] = proc["apply"].tag]
          /\ proc["apply"].step = 3 => installed' = [installed EXCEPT !["updater"] = proc["apply"].tag]
          /\ proc["apply"].step = 4 => installed' = [installed EXCEPT !["web"] = 0]
          /\ proc["apply"].step = 5 => installed' = [installed EXCEPT !["web"] = proc["apply"].tag]
          /\ proc["apply"].step = 6 => installed' = [installed EXCEPT !["service"] = proc["apply"].tag]
      BY <1>21, <2>4 DEF InstallStep, Replace
    <2>6. installed' \in [Parts -> 0..MaxVersion] /\ previous' \in 0..MaxVersion
      BY <1>21, <1>t, <2>1, <2>3, <2>4 DEF InstallStep, Replace, TypeOK, Parts
    <2>7. UNCHANGED <<inbox, web, lock, status, secret, latest, stolen, checks, faults>>
      BY <1>21 DEF InstallStep
    <2>8. TypeOK'
      BY <1>t, <2>2, <2>6, <2>7 DEF TypeOK
    <2>9. Known'
      BY <1>k, <2>1, <2>2, <2>3, <2>5, <2>6 DEF Known, Units
    <2>10. LockOwned'
      BY <1>l, <2>1, <2>2, <2>7 DEF LockOwned, Holding, Units
    <2>11. Replaced'
      BY <1>r, <2>1, <2>2, <2>5, <2>6 DEF Replaced, Parts
    <2>12. Reported'
      BY <1>s, <2>1, <2>7 DEF Reported, SucceededIsWhole, Active
    <2> QED
      BY <2>8, <2>9, <2>10, <2>11, <2>12 DEF IInv
  <1>22. CASE InstallerDies
    <2>1. /\ proc' \in [Units -> Processes] /\ proc'["apply"].pc = "installing"
          /\ proc'["apply"].step = 0 /\ proc'["apply"].tag = proc["apply"].tag /\ proc'["apply"].failed
          /\ proc'["check"] = proc["check"] /\ proc["apply"].pc = "installing"
      <3>1. /\ proc' = [proc EXCEPT !["apply"].step = 0, !["apply"].failed = TRUE]
            /\ proc["apply"].pc = "installing"
        BY <1>22 DEF InstallerDies, InstallerRuns, InstallerEnds
      <3>2. proc' \in [Units -> Processes]
        BY <1>t, <3>1, ScriptEnds
      <3>3. proc'["check"] = proc["check"]
        BY <1>t, <1>u, <3>1 DEF TypeOK
      <3> QED
        BY <1>t, <1>u, <3>1, <3>2, <3>3 DEF TypeOK, Processes
    <2>2. \/ UNCHANGED <<installed, previous>>
          \/ installed' = [installed EXCEPT !["web"] = previous] /\ previous' = 0
      BY <1>22 DEF InstallerDies
    <2>3. secret' \in Secrets
      BY <1>22, <1>t, <1>u DEF InstallerDies, TrapRestore, TypeOK, Processes
    <2>4. UNCHANGED <<inbox, web, lock, status, latest, stolen, checks, faults>>
      BY <1>22 DEF InstallerDies
    <2>5. TypeOK'
      BY <1>t, <2>1, <2>2, <2>3, <2>4 DEF TypeOK
    <2>6. Known'
      BY <1>t, <1>k, <2>1, <2>2 DEF Known, Units, TypeOK
    <2>7. LockOwned'
      BY <1>l, <2>1, <2>4 DEF LockOwned, Holding, Units
    <2>8. Replaced'
      BY <2>1 DEF Replaced
    <2>9. Reported'
      BY <1>s, <2>1, <2>4 DEF Reported, SucceededIsWhole, Active
    <2> QED
      BY <2>5, <2>6, <2>7, <2>8, <2>9 DEF IInv
  <1>23. CASE InstallerCompletes
    <2>1. /\ proc' \in [Units -> Processes] /\ proc'["apply"].pc = "installing"
          /\ proc'["apply"].step = 0 /\ proc'["apply"].tag = proc["apply"].tag /\ proc["apply"].step = 7
          /\ proc'["check"] = proc["check"] /\ proc["apply"].pc = "installing"
      <3>1. PICK f \in BOOLEAN :
               proc' = [proc EXCEPT !["apply"].step = 0, !["apply"].failed = f]
        BY <1>23 DEF InstallerCompletes, InstallerEnds
      <3>2. proc["apply"].pc = "installing" /\ proc["apply"].step = 7
        BY <1>23 DEF InstallerCompletes
      <3>3. proc' \in [Units -> Processes]
        BY <1>t, <3>1, ScriptEnds
      <3>4. proc'["check"] = proc["check"]
        BY <1>t, <1>u, <3>1 DEF TypeOK
      <3> QED
        BY <1>t, <1>u, <3>1, <3>2, <3>3, <3>4 DEF TypeOK, Processes
    <2>2. secret' \in Secrets
      BY <1>23, <1>t, <1>u DEF InstallerCompletes, TrapRestore, TypeOK, Processes
    <2>3. UNCHANGED <<inbox, web, lock, status, installed, previous, latest, stolen, checks, faults>>
      BY <1>23 DEF InstallerCompletes
    <2>4. TypeOK'
      BY <1>t, <2>1, <2>2, <2>3 DEF TypeOK
    <2>5. Known'
      BY <1>k, <2>1, <2>3 DEF Known, Units
    <2>6. LockOwned'
      BY <1>l, <2>1, <2>3 DEF LockOwned, Holding, Units
    <2>7. Replaced'
      BY <1>r, <2>1, <2>3 DEF Replaced, Whole, Parts
    <2>8. Reported'
      BY <1>s, <2>1, <2>3 DEF Reported, SucceededIsWhole
    <2> QED
      BY <2>4, <2>5, <2>6, <2>7, <2>8 DEF IInv
  <1>24. CASE InstallerReturned
    <2>1. proc["apply"].pc = "installing" /\ proc["apply"].step = 0
      BY <1>24 DEF InstallerReturned
    <2>2. \/ /\ Gone("apply") /\ lock' = NoLock
             /\ status' = status \/ (status' \in Statuses /\ status'.state = "failed")
          \/ ~proc["apply"].failed /\ Enter("apply", "restarting")
      BY <1>24, <1>t, <1>u, FailReports DEF InstallerReturned, Active, Codes
    <2>3. \/ /\ Gone("apply") /\ lock' = NoLock
             /\ status' = status \/ (status' \in Statuses /\ status'.state = "failed")
          \/ /\ ~proc["apply"].failed /\ Moved("apply", "restarting") /\ lock' = lock
             /\ status' \in Statuses /\ status'.state = "restarting"
          \/ Gone("apply") /\ lock' = NoLock /\ status' = status
      BY <1>t, <1>u, <2>2, EnterReports DEF Active
    <2>4. secret' \in Secrets
      BY <1>24, <1>t, <1>u DEF InstallerReturned, restoreIfChanged, TypeOK, Processes
    <2>5. UNCHANGED <<inbox, web, installed, previous, latest, stolen, checks, faults>>
      BY <1>24 DEF InstallerReturned
    <2>6. TypeOK'
      BY <1>t, <2>3, <2>4, <2>5 DEF TypeOK, Moved, Gone, Locks, NoLock
    <2>7. Known'
      BY <1>k, <2>1, <2>3, <2>5 DEF Known, Active, Moved, Gone
    <2>8. LockOwned'
      BY <1>l, <1>u, <2>1, <2>3, <2>5 DEF LockOwned, Holding, Locking, NoLock, Moved, Gone
    <2>9. Replaced'
      BY <1>r, <2>1, <2>3, <2>5 DEF Replaced, Whole, Moved, Gone
    <2>10. Reported'
      BY <1>s, <2>1, <2>3 DEF Reported, SucceededIsWhole, Active
    <2> QED
      BY <2>6, <2>7, <2>8, <2>9, <2>10 DEF IInv
  <1>25. CASE Succeed
    <2>1. Gone("apply") /\ lock' = NoLock /\ proc["apply"].pc = "restarting"
      BY <1>25, <1>t, <1>u, ExitGone DEF Succeed, Return
    <2>2. proc["apply"].tag \in 1..MaxVersion
      BY <1>t, <1>k, <1>u, <2>1 DEF TypeOK, Known, Processes, Active
    <2>3. \/ status' = status
          \/ status' \in Statuses /\ status'.state = "succeeded" /\ status'.cur = proc["apply"].tag
      BY <1>25, <1>u, <2>2, StatesKnown, PersistTyped DEF Succeed, Codes
    <2>4. UNCHANGED <<inbox, web, installed, previous, secret, latest, stolen, checks, faults>>
      BY <1>25 DEF Succeed, files
    <2>5. TypeOK'
      BY <1>t, <2>1, <2>3, <2>4 DEF TypeOK, Gone, Locks, NoLock
    <2>6. Known'
      BY <1>k, <2>1, <2>4 DEF Known, Active, Gone
    <2>7. LockOwned'
      BY <1>l, <1>u, <2>1, <2>4 DEF LockOwned, Holding, Locking, NoLock, Gone
    <2>8. Replaced'
      BY <2>1 DEF Replaced, Gone
    <2>9. Reported'
      BY <1>s, <1>r, <2>1, <2>3, <2>4 DEF Reported, SucceededIsWhole, Active, Gone, Replaced, Whole
    <2> QED
      BY <2>5, <2>6, <2>7, <2>8, <2>9 DEF IInv
  <1> QED
    BY <1>1, <1>2, <1>3, <1>4, <1>5, <1>6, <1>7, <1>8, <1>9, <1>10, <1>11, <1>12, <1>13, <1>14,
       <1>15, <1>16, <1>17, <1>18, <1>19, <1>20, <1>21, <1>22, <1>23, <1>24, <1>25 DEF Next,
       UnitStep, ApplyStep
-----------------------------------------------------------------------------
\* The invariant holds in every reachable state.
THEOREM UpdaterInductive == Spec => []IInv
  BY InitInvariant, StepInvariant, PTL DEF Spec

\* For every bound the files and the processes keep their shapes: in
\* particular no step of an attempt reports or runs a version that does not
\* exist.
THEOREM UpdaterTypeCorrect == Spec => []TypeOK
  <1>1. IInv => TypeOK
    BY DEF IInv
  <1> QED
    BY <1>1, UpdaterInductive, PTL

\* For any number of kills, checks and requests, acquireLockWithWait admits one
\* process at a time until one removes a lock other than the stale one it read.
THEOREM ExclusiveUpdaters == Spec => []ExclusiveUntilStolen
  <1>1. IInv => ExclusiveUntilStolen
    BY DEF IInv, LockOwned, ExclusiveUntilStolen, Units
  <1> QED
    BY <1>1, UpdaterInductive, PTL

\* For any number of releases and of failed or killed attempts, the status file
\* says "succeeded" only of a node whose parts all have the version it names.
THEOREM SuccessIsWhole == Spec => []SucceededIsWhole
  <1>1. IInv => SucceededIsWhole
    BY DEF IInv, Reported
  <1> QED
    BY <1>1, UpdaterInductive, PTL
-----------------------------------------------------------------------------
(* What an update reports about the node: NodeIsKept. *)

Busy == {"looked"} \cup (Active \ {"checking"})

\* The server is never behind the updater, nor behind the version a process
\* runs or has reported an idle node for; what an apply is about to install is
\* at least as new, for releases are only ever added.
ServerLeads ==
    /\ installed["server"] <= latest
    /\ installed["updater"] <= installed["server"]
    /\ \A p \in Units : proc[p].cur <= installed["server"]
    /\ proc["apply"].pc \in Busy =>
          installed["server"] <= proc["apply"].tag /\ proc["apply"].tag <= latest
    /\ status.state = "idle" => status.cur <= installed["server"]

\* While the installer may change the secret the file does not report an
\* outcome of it, and an attempt that restarts the services has put it back.
SecretKept ==
    /\ proc["apply"].pc = "installing" => status.code # "installation_failed"
    /\ proc["apply"].pc = "restarting" => secret = proc["apply"].captured
    /\ SecretRestored

NodeInv == ServerLeads /\ SecretKept /\ WebDirectoryKept
-----------------------------------------------------------------------------
(* The steps that leave the files of the node alone. *)

\* What they do to the processes and to the status, as far as NodeInv depends
\* on it.
QuietEffect ==
    LET a == proc["apply"]  b == proc'["apply"]
    IN /\ UNCHANGED files
       /\ latest' >= latest
       /\ \A p \in Units : proc'[p].cur \in {proc[p].cur, 1, installed["updater"]}
       /\ b.pc \in Busy => (a.pc \in Busy /\ b.tag = a.tag) \/ b.tag = latest
       /\ b.pc = "installing" => a.pc = "installing" \/ status'.code = "none"
       /\ b.pc = "restarting" => a.pc = "restarting"
       /\ b.captured = a.captured \/ (b.pc = "installing" /\ status'.state = "installing")
       /\ status'.state = "idle" =>
            \/ status.state = "idle" /\ status'.cur = status.cur
            \/ \E p \in Units : status'.cur = proc[p].cur
       /\ status'.state = "succeeded" => status.state = "succeeded"
       /\ status'.code = "installation_failed" => status.code = "installation_failed"
       /\ faults' >= faults
       /\ faults' > faults \/ (a.pc = "installing" => b.pc = "installing" /\ b.step = a.step)

\* Such a step keeps what NodeInv says.
LEMMA QuietKeeps ==
    ASSUME IInv, NodeInv, QuietEffect, TypeOK'
    PROVE  NodeInv'
  <1>1. TypeOK /\ Known /\ Replaced /\ Reported /\ ServerLeads /\ SecretKept /\ WebDirectoryKept
    BY DEF IInv, NodeInv
  <1>2. UNCHANGED <<installed, previous, secret>>
    BY DEF QuietEffect, files
  <1>3. /\ installed["server"] \in 1..MaxVersion /\ installed["updater"] \in Nat
        /\ latest \in Nat /\ latest' \in Nat /\ faults \in Nat /\ faults' \in Nat /\ MaxVersion \in Nat
    BY <1>1, UpdaterBounds DEF TypeOK, Known, Parts
  <1>4. \A p \in Units : proc[p].cur \in Nat /\ proc'[p].cur \in Nat
    BY <1>1 DEF TypeOK, Processes
  <1>5. "apply" \in Units /\ proc["apply"].tag \in Nat /\ proc'["apply"].tag \in Nat
    BY <1>1 DEF TypeOK, Processes, Units
  <1>6. ServerLeads'
    <2>1. installed'["server"] <= latest' /\ installed'["updater"] <= installed'["server"]
      BY <1>1, <1>2, <1>3 DEF ServerLeads, QuietEffect
    <2>2. \A p \in Units : proc'[p].cur <= installed'["server"]
      BY <1>1, <1>2, <1>3, <1>4 DEF ServerLeads, QuietEffect
    <2>3. proc'["apply"].pc \in Busy =>
             installed'["server"] <= proc'["apply"].tag /\ proc'["apply"].tag <= latest'
      BY <1>1, <1>2, <1>3, <1>5 DEF ServerLeads, QuietEffect
    <2>4. status'.state = "idle" => status'.cur <= installed'["server"]
      BY <1>1, <1>2 DEF ServerLeads, QuietEffect
    <2> QED
      BY <2>1, <2>2, <2>3, <2>4 DEF ServerLeads
  <1>7. SecretKept'
    <2>1. proc["apply"].pc = "installing" => status.state # "succeeded"
      BY <1>1 DEF Reported, Active
    <2>2. proc'["apply"].pc = "installing" => status'.code # "installation_failed"
      BY <1>1 DEF SecretKept, QuietEffect
    <2>3. proc'["apply"].pc = "restarting" => secret' = proc'["apply"].captured
      BY <1>1, <1>2 DEF SecretKept, QuietEffect
    <2>4. SecretRestored'
      BY <1>1, <1>2, <2>2 DEF SecretKept, SecretRestored, QuietEffect
    <2> QED
      BY <2>2, <2>3, <2>4 DEF SecretKept
  <1>8. WebDirectoryKept'
    <2>1. CASE faults' > faults
      BY <1>3, <2>1 DEF WebDirectoryKept
    <2>2. CASE ~(faults' > faults)
      <3>1. faults' = faults
        BY <1>3, <2>2 DEF QuietEffect
      <3>2. proc["apply"].pc = "installing" =>
               proc'["apply"].pc = "installing" /\ proc'["apply"].step = proc["apply"].step
        BY <2>2 DEF QuietEffect
      <3> QED
        BY <1>1, <1>2, <3>1, <3>2 DEF WebDirectoryKept, InstallerRuns
    <2> QED
      BY <2>1, <2>2
  <1> QED
    BY <1>6, <1>7, <1>8 DEF NodeInv

\* The web application, the clock, systemd and the lock.
LEMMA QuietOutside ==
    ASSUME IInv,
           \/ UNCHANGED vars \/ WebRead \/ WebCreate \/ StatusExpires \/ Publish \/ LockAges
           \/ StartApply \/ StartCheck \/ Consume
           \/ \E p \in Units : Kill(p) \/ Create(p) \/ Stamp(p) \/ ReadLock(p) \/ RemoveStale(p)
    PROVE  QuietEffect
  <1>t. TypeOK /\ "apply" \in Units /\ "check" \in Units
    BY DEF IInv, Units
  <1>n. faults \in Nat /\ latest \in Nat
    BY <1>t, UpdaterBounds DEF TypeOK
  <1>1. CASE UNCHANGED vars \/ WebRead \/ WebCreate \/ LockAges
    BY <1>1, <1>n DEF QuietEffect, vars, files, WebRead, WebCreate, LockAges
  <1>2. CASE StatusExpires
    <2>1. /\ status'.state = status.state /\ status'.cur = status.cur
          /\ status'.code = status.code
      BY <1>2, <1>t DEF StatusExpires, TypeOK, Statuses
    <2> QED
      BY <1>2, <1>n, <2>1 DEF QuietEffect, files, StatusExpires
  <1>3. CASE Publish
    BY <1>3, <1>n DEF QuietEffect, files, Publish
  <1>4. CASE StartApply \/ StartCheck
    <2>1. PICK p \in Units : Started(p) /\ UNCHANGED <<status, files, latest, faults>>
      BY <1>4, <1>t DEF StartApply, StartCheck
    <2>2. /\ proc'[p].pc = "create" /\ proc'[p].cur = installed["updater"]
          /\ proc'[p].captured = proc[p].captured /\ \A q \in Units \ {p} : proc'[q] = proc[q]
      BY <1>t, <2>1 DEF Started, TypeOK, Processes
    <2>3. p = "apply" => proc["apply"].pc = "off"
      <3>1. CASE StartApply
        BY <3>1 DEF StartApply
      <3>2. CASE StartCheck
        <4>1. proc'["apply"].pc = proc["apply"].pc /\ proc["check"].pc = "off"
          BY <3>2, <1>t DEF StartCheck, Started, TypeOK
        <4>2. p = "apply" => proc["check"] = proc'["check"]
          BY <1>t, <2>2
        <4>3. proc'["check"].pc = "create"
          BY <3>2, <1>t DEF StartCheck, Started, TypeOK, Processes
        <4> QED
          BY <4>1, <4>2, <4>3
      <3> QED
        BY <1>4, <3>1, <3>2
    <2> QED
      BY <1>t, <1>n, <2>1, <2>2, <2>3 DEF QuietEffect, Busy, Active
  <1>5. CASE Consume
    <2>1. Moved("apply", "begin")
      BY <1>5, <1>t, GotoMoves DEF Consume, Points
    <2> QED
      BY <1>5, <1>t, <1>n, <2>1 DEF QuietEffect, files, Consume, Moved, Busy, Active
  <1>6. ASSUME NEW p \in Units, Kill(p) PROVE QuietEffect
    <2>1. Gone(p)
      BY <1>6, <1>t, ExitGone DEF Kill, Exit
    <2> QED
      BY <1>6, <1>t, <1>n, <2>1 DEF QuietEffect, files, Kill, Gone, Busy, Active
  <1>7. ASSUME NEW p \in Units, Create(p) \/ Stamp(p) \/ ReadLock(p) \/ RemoveStale(p)
        PROVE  QuietEffect
    <2>1. /\ proc[p].pc \in Locking
          /\ Gone(p) \/ \E c \in Locking \cup {"run"} : Moved(p, c)
      BY <1>7, <1>t, GotoMoves, ExitGone
         DEF Create, Stamp, ReadLock, RemoveStale, Points, Locking
    <2>2. UNCHANGED <<status, files, latest>> /\ faults' >= faults
      BY <1>7, <1>n DEF Create, Stamp, ReadLock, RemoveStale
    <2> QED
      BY <1>t, <1>n, <2>1, <2>2 DEF QuietEffect, Moved, Gone, Locking, Busy, Active
  <1> QED
    BY <1>1, <1>2, <1>3, <1>4, <1>5, <1>6, <1>7

\* The stages of the engine before the installer runs.
LEMMA QuietStages ==
    ASSUME IInv, \/ StartDownload \/ Stage
                 \/ \E p \in Units : Begin(p) \/ Lookup(p) \/ ReportIdle(p)
    PROVE  QuietEffect
  <1>t. TypeOK /\ "apply" \in Units /\ "check" \in Units
    BY DEF IInv, Units
  <1>n. faults \in Nat /\ latest \in Nat
    BY <1>t, UpdaterBounds DEF TypeOK
  <1>1. ASSUME NEW p \in Units, Begin(p) PROVE QuietEffect
    <2>1. \/ /\ Moved(p, "checking")
             /\ status'.state = "checking" /\ status'.code = "none"
          \/ Gone(p) /\ status' = status
      BY <1>1, <1>t, EnterReports DEF Begin, Active
    <2>2. proc[p].pc \in {"begin", "run"}
      BY <1>1 DEF Begin
    <2> QED
      BY <1>1, <1>t, <1>n, <2>1, <2>2 DEF QuietEffect, Begin, Moved, Gone, Busy, Active
  <1>2. ASSUME NEW p \in Units, Lookup(p) PROVE QuietEffect
    <2>1. \/ /\ Gone(p)
             /\ \/ status' = status
                \/ status'.state = "failed" /\ status'.code = "check_failed"
          \/ /\ proc' = [proc EXCEPT ![p].pc = "looked", ![p].tag = latest]
             /\ status' = status
      BY <1>2, <1>t, FailReports DEF Lookup, Active, Codes
    <2>2. proc[p].pc = "checking"
      BY <1>2 DEF Lookup
    <2>3. CASE Gone(p)
      BY <1>2, <1>t, <1>n, <2>1, <2>2, <2>3 DEF QuietEffect, Lookup, Gone, Busy, Active
    <2>4. CASE proc' = [proc EXCEPT ![p].pc = "looked", ![p].tag = latest]
      <3>1. /\ proc'[p].pc = "looked" /\ proc'[p].tag = latest /\ proc'[p].cur = proc[p].cur
            /\ proc'[p].captured = proc[p].captured /\ \A q \in Units \ {p} : proc'[q] = proc[q]
        BY <1>t, <2>4 DEF TypeOK, Processes
      <3> QED
        BY <1>2, <1>t, <1>n, <2>1, <2>2, <3>1 DEF QuietEffect, Lookup, Gone, Busy, Active
    <2> QED
      BY <2>1, <2>3, <2>4
  <1>3. ASSUME NEW p \in Units, ReportIdle(p) PROVE QuietEffect
    <2>1. Gone(p) /\ proc[p].pc = "looked"
      BY <1>3, <1>t, ExitGone DEF ReportIdle, Return
    <2>2. \/ status' = status
          \/ status'.state = "idle" /\ status'.code = "none" /\ status'.cur = proc[p].cur
      BY <1>3 DEF ReportIdle, Persist
    <2> QED
      BY <1>3, <1>t, <1>n, <2>1, <2>2 DEF QuietEffect, ReportIdle, Gone, Busy, Active
  <1>4. CASE StartDownload
    <2>1. \/ /\ Moved("apply", "downloading")
             /\ status'.state = "downloading" /\ status'.code = "none"
          \/ /\ Gone("apply")
             /\ \/ status' = status
                \/ status'.state = "failed" /\ status'.code = "storage_failed"
      BY <1>4, <1>t, EnterReports, FailReports DEF StartDownload, Active, Codes
    <2>2. proc["apply"].pc = "looked"
      BY <1>4 DEF StartDownload
    <2> QED
      BY <1>4, <1>t, <1>n, <2>1, <2>2 DEF QuietEffect, StartDownload, Moved, Gone, Busy, Active
  <1>5. CASE Stage
    <2> DEFINE s == proc["apply"].pc
    <2>1. s \in {"downloading", "verifying", "extracting", "backing_up"}
      BY <1>5 DEF Stage, StageErrors
    <2>2. UNCHANGED <<files, latest, faults>>
      BY <1>5 DEF Stage
    <2>3. CASE \E code \in StageErrors[s] : Fail("apply", s, code)
      <3>1. StageErrors[s] \subseteq Codes \ {"installation_failed"}
        BY <2>1 DEF StageErrors, Codes
      <3>2. /\ Gone("apply")
            /\ \/ status' = status
               \/ status'.state = "failed" /\ status'.code # "installation_failed"
        BY <1>t, <2>1, <2>3, <3>1, FailReports DEF Active
      <3> QED
        BY <1>t, <1>n, <2>1, <2>2, <3>2 DEF QuietEffect, Gone, Busy, Active
    <2>4. CASE s # "backing_up" /\ Enter("apply", NextStage[s])
      <3>1. NextStage[s] \in {"verifying", "extracting", "backing_up"}
        BY <2>1, <2>4 DEF NextStage
      <3>2. PICK r \in {"verifying", "extracting", "backing_up"} :
               \/ /\ Moved("apply", r) /\ status'.state = r /\ status'.code = "none"
               \/ Gone("apply") /\ status' = status
        BY <1>t, <2>4, <3>1, EnterReports DEF Active
      <3> QED
        BY <1>t, <1>n, <2>1, <2>2, <3>2 DEF QuietEffect, Moved, Gone, Busy, Active
    <2>5. CASE /\ Persist("apply", "installing", proc["apply"].cur, TRUE, ProgressForStage["installing"], "none")
               /\ proc' = [proc EXCEPT !["apply"].pc = "installing", !["apply"].step = 1,
                                       !["apply"].captured = secret]
      <3>1. status'.state = "installing" /\ status'.code = "none"
        BY <2>5 DEF Persist
      <3>2. /\ proc'["apply"].pc = "installing" /\ proc'["apply"].tag = proc["apply"].tag
            /\ proc'["apply"].cur = proc["apply"].cur /\ proc'["check"] = proc["check"]
        BY <1>t, <2>5 DEF TypeOK, Processes
      <3> QED
        BY <1>t, <1>n, <2>1, <2>2, <3>1, <3>2 DEF QuietEffect, Units, Busy, Active
    <2>6. CASE status' = status /\ Return("apply")
      <3>1. Gone("apply")
        BY <1>t, <2>6, ExitGone DEF Return
      <3> QED
        BY <1>t, <1>n, <2>1, <2>2, <2>6, <3>1 DEF QuietEffect, Gone, Busy, Active
    <2> QED
      BY <1>5, <2>3, <2>4, <2>5, <2>6 DEF Stage
  <1> QED
    BY <1>1, <1>2, <1>3, <1>4, <1>5

(* The installer, and what follows it. *)

\* A step of the script, or its end, concerns the apply's script alone.
ScriptEffect ==
    /\ UNCHANGED <<status, latest, faults>>
    /\ proc["apply"].pc = "installing" /\ proc'["apply"].pc = "installing"
    /\ proc'["apply"].tag = proc["apply"].tag /\ proc'["apply"].captured = proc["apply"].captured
    /\ \A p \in Units : proc'[p].cur = proc[p].cur

\* The steps of the script have that effect.
LEMMA ScriptOnly ==
    ASSUME IInv, InstallStep \/ InstallerDies \/ InstallerCompletes \/ SecretChanges
    PROVE  ScriptEffect
  <1>t. TypeOK /\ "apply" \in Units
    BY DEF IInv, Units
  <1>1. /\ UNCHANGED <<status, latest, faults>> /\ proc["apply"].pc = "installing"
    BY DEF InstallStep, InstallerDies, InstallerCompletes, SecretChanges, InstallerRuns
  <1>2. CASE SecretChanges
    BY <1>1, <1>2 DEF SecretChanges, ScriptEffect
  <1>3. CASE InstallerDies \/ InstallerCompletes
    <2>1. PICK f : proc' = [proc EXCEPT !["apply"].step = 0, !["apply"].failed = f]
      BY <1>3 DEF InstallerDies, InstallerCompletes, InstallerEnds
    <2> QED
      BY <1>t, <1>1, <2>1 DEF ScriptEffect, TypeOK, Processes
  <1>4. CASE InstallStep
    <2>1. PICK n, b : proc' = [proc EXCEPT !["apply"].step = n, !["apply"].backup = b]
      BY <1>4, <1>t DEF InstallStep, TypeOK, Processes
    <2> QED
      BY <1>t, <1>1, <2>1 DEF ScriptEffect, TypeOK, Processes
  <1> QED
    BY <1>2, <1>3, <1>4

\* The script replaces the server before the updater, and exchanges the web
\* directory so that an abandoned exchange is undone.
LEMMA ScriptKeeps ==
    ASSUME IInv, NodeInv, InstallStep \/ InstallerDies \/ InstallerCompletes \/ SecretChanges
    PROVE  NodeInv'
  <1> USE SixSteps
  <1> DEFINE a == proc["apply"]
  <1>1. TypeOK /\ Known /\ Replaced /\ Reported /\ ServerLeads /\ SecretKept /\ WebDirectoryKept
    BY DEF IInv, NodeInv
  <1>2. ScriptEffect
    BY ScriptOnly
  <1>3. /\ a.pc = "installing" /\ a.tag \in 1..MaxVersion /\ a.step \in 0..7
        /\ MaxVersion \in Nat /\ latest \in Nat /\ faults \in Nat
        /\ installed \in [Parts -> 0..MaxVersion] /\ \A p \in Units : proc[p].cur \in Nat
    BY <1>1, <1>2, UpdaterBounds DEF ScriptEffect, TypeOK, Processes, Known, Active, Units
  <1>4. installed["server"] <= a.tag /\ a.tag <= latest
    BY <1>1, <1>3 DEF ServerLeads, Busy, Active
  <1>5. SecretKept'
    BY <1>1, <1>2 DEF SecretKept, SecretRestored, ScriptEffect, Reported, Active
  <1>6. /\ proc'["apply"].pc \in Busy /\ proc'["apply"].tag = a.tag /\ latest' = latest
        /\ status' = status /\ faults' = faults /\ \A p \in Units : proc'[p].cur = proc[p].cur
    BY <1>2 DEF ScriptEffect, Busy, Active
  <1>7. CASE InstallerCompletes
    <2>1. UNCHANGED <<installed, previous>> /\ a.step = 7
      BY <1>7 DEF InstallerCompletes
    <2>2. ServerLeads'
      BY <1>1, <1>4, <1>6, <2>1 DEF ServerLeads
    <2>3. WebDirectoryKept'
      BY <1>1, <1>6, <2>1 DEF WebDirectoryKept, InstallerRuns
    <2> QED
      BY <1>5, <2>2, <2>3 DEF NodeInv
  <1>8. CASE SecretChanges
    <2>1. UNCHANGED <<installed, previous, proc>>
      BY <1>8 DEF SecretChanges
    <2>2. ServerLeads'
      BY <1>1, <1>4, <1>6, <2>1 DEF ServerLeads
    <2>3. WebDirectoryKept'
      BY <1>1, <1>6, <2>1 DEF WebDirectoryKept, InstallerRuns
    <2> QED
      BY <1>5, <2>2, <2>3 DEF NodeInv
  <1>9. CASE InstallerDies
    <2>1. /\ a.step \in 1..6
          /\ IF InstallSteps[a.step] = "web" /\ previous # 0
             THEN installed' = [installed EXCEPT !["web"] = previous] /\ previous' = 0
             ELSE UNCHANGED <<installed, previous>>
      BY <1>9 DEF InstallerDies, InstallerRuns
    <2>2. installed'["server"] = installed["server"] /\ installed'["updater"] = installed["updater"]
      BY <1>3, <2>1 DEF Parts
    <2>3. ServerLeads'
      BY <1>1, <1>4, <1>6, <2>2 DEF ServerLeads
    <2>4. WebDirectoryKept'
      BY <1>1, <1>3, <1>6, <2>1 DEF WebDirectoryKept, InstallerRuns, Parts
    <2> QED
      BY <1>5, <2>3, <2>4 DEF NodeInv
  <1>10. CASE InstallStep
    <2>1. a.step \in 1..6 /\ Replace(InstallSteps[a.step], a.tag) /\ proc'["apply"].step = a.step + 1
      BY <1>1, <1>10 DEF InstallStep, InstallerRuns, TypeOK, Processes, Units
    <2>2. /\ a.step = 1 => InstallSteps[a.step] = "backup"
          /\ a.step = 2 => InstallSteps[a.step] = "server"
          /\ a.step = 3 => InstallSteps[a.step] = "updater"
          /\ a.step = 4 => InstallSteps[a.step] = "away"
          /\ a.step = 5 => InstallSteps[a.step] = "web"
          /\ a.step = 6 => InstallSteps[a.step] = "service"
      BY DEF InstallSteps
    <2>3. /\ a.step = 1 => installed' = installed
          /\ a.step = 2 => installed' = [installed EXCEPT !["server"] = a.tag]
          /\ a.step = 3 => installed' = [installed EXCEPT !["updater"] = a.tag]
          /\ a.step = 4 => installed' = [installed EXCEPT !["web"] = 0] /\ previous' = installed["web"]
          /\ a.step = 5 => installed' = [installed EXCEPT !["web"] = a.tag]
          /\ a.step = 6 => installed' = [installed EXCEPT !["service"] = a.tag]
      BY <2>1, <2>2 DEF Replace
    <2>4. /\ installed'["server"] = IF a.step = 2 THEN a.tag ELSE installed["server"]
          /\ installed'["updater"] = IF a.step = 3 THEN a.tag ELSE installed["updater"]
          /\ installed'["web"] = IF a.step = 4 THEN 0 ELSE IF a.step = 5 THEN a.tag ELSE installed["web"]
      BY <1>3, <2>1, <2>3 DEF Parts
    <2>5. a.step = 3 => installed["server"] = a.tag
      BY <1>1, <1>3 DEF Replaced
    <2>6. /\ installed["server"] \in Nat /\ installed["updater"] \in Nat /\ a.tag \in Nat
          /\ installed["updater"] <= installed["server"] /\ status.cur \in Nat
      BY <1>1, <1>3 DEF ServerLeads, Parts, TypeOK, Statuses
    <2>7. ServerLeads'
      <3>1. installed'["server"] <= a.tag /\ installed["server"] <= installed'["server"]
        BY <1>4, <2>4, <2>6
      <3>2. installed'["updater"] <= installed'["server"]
        BY <1>4, <2>4, <2>5, <2>6
      <3>3. \A p \in Units : proc'[p].cur <= installed'["server"]
        BY <1>1, <1>3, <1>6, <2>4, <2>6, <3>1 DEF ServerLeads
      <3>4. status'.state = "idle" => status'.cur <= installed'["server"]
        BY <1>1, <1>6, <2>4, <2>6, <3>1 DEF ServerLeads
      <3>5. installed'["server"] <= latest'
        BY <1>3, <1>4, <1>6, <2>4, <2>6, <3>1
      <3> QED
        BY <1>4, <1>6, <3>1, <3>2, <3>3, <3>4, <3>5 DEF ServerLeads
    <2>8. WebDirectoryKept'
      <3>1. CASE faults > 0
        BY <1>6, <3>1 DEF WebDirectoryKept
      <3>2. CASE ~(faults > 0) /\ a.step # 4
        <4>1. a.step # 5 => installed["web"] # 0
          BY <1>1, <2>1, <2>2, <3>2 DEF WebDirectoryKept, InstallerRuns
        <4>2. installed'["web"] # 0
          BY <1>3, <2>4, <3>2, <4>1
        <4> QED
          BY <4>2 DEF WebDirectoryKept
      <3>3. CASE ~(faults > 0) /\ a.step = 4
        <4>1. installed["web"] # 0
          BY <1>1, <2>2, <3>3 DEF WebDirectoryKept, InstallerRuns
        <4>2. previous' # 0 /\ proc'["apply"].step = 5 /\ proc'["apply"].pc = "installing"
          BY <1>2, <2>1, <2>3, <3>3, <4>1 DEF ScriptEffect
        <4>3. InstallSteps[5] = "web"
          BY DEF InstallSteps
        <4> QED
          BY <4>2, <4>3 DEF WebDirectoryKept, InstallerRuns
      <3> QED
        BY <3>1, <3>2, <3>3
    <2> QED
      BY <1>5, <2>7, <2>8 DEF NodeInv
  <1> QED
    BY <1>7, <1>8, <1>9, <1>10

\* restoreIfChanged puts the secret back before the outcome is reported.
LEMMA ReturnedKeeps ==
    ASSUME IInv, NodeInv, InstallerReturned
    PROVE  NodeInv'
  <1> DEFINE a == proc["apply"]
  <1>1. TypeOK /\ Known /\ Reported /\ ServerLeads /\ SecretKept /\ WebDirectoryKept
    BY DEF IInv, NodeInv
  <1>2. /\ a.pc = "installing" /\ a.step = 0
        /\ UNCHANGED <<installed, previous, latest, faults>>
    BY DEF InstallerReturned
  <1>3. "apply" \in Units /\ "check" \in Units
    BY DEF Units
  <1>4. \/ /\ Gone("apply")
           /\ \/ status' = status
              \/ status'.state = "failed" /\ status'.code = "credential_recovery_failed"
              \/ /\ status'.state = "failed" /\ status'.code = "installation_failed"
                 /\ secret' = a.captured
        \/ /\ Moved("apply", "restarting") /\ secret' = a.captured
           /\ status'.state = "restarting" /\ status'.code = "none"
    <2>1. CASE /\ secret # a.captured
               /\ Fail("apply", "installing", "credential_recovery_failed")
      BY <1>1, <1>3, <2>1, FailReports DEF Active, Codes
    <2>2. CASE restoreIfChanged("apply") /\ Fail("apply", "installing", "installation_failed")
      BY <1>1, <1>3, <2>2, FailReports DEF Active, Codes, restoreIfChanged
    <2>3. CASE restoreIfChanged("apply") /\ Enter("apply", "restarting")
      BY <1>1, <1>3, <2>3, EnterReports DEF Active, restoreIfChanged
    <2> QED
      BY <2>1, <2>2, <2>3 DEF InstallerReturned
  <1>5. SecretKept'
    BY <1>1, <1>2, <1>4 DEF SecretKept, SecretRestored, Moved, Gone, Reported, Active
  <1>6. ServerLeads'
    <2>1. installed["server"] >= 1
      BY <1>1 DEF Known, Parts, TypeOK
    <2>2. \A p \in Units : proc'[p].cur <= installed'["server"]
      BY <1>1, <1>2, <1>3, <1>4, <2>1 DEF ServerLeads, Moved, Gone
    <2>3. proc'["apply"].pc \in Busy =>
             installed'["server"] <= proc'["apply"].tag /\ proc'["apply"].tag <= latest'
      BY <1>1, <1>2, <1>4 DEF ServerLeads, Moved, Gone, Busy, Active
    <2> QED
      BY <1>1, <1>2, <1>4, <2>2, <2>3 DEF ServerLeads
  <1>7. WebDirectoryKept'
    BY <1>1, <1>2 DEF WebDirectoryKept, InstallerRuns
  <1> QED
    BY <1>5, <1>6, <1>7 DEF NodeInv

\* The last report of an attempt changes nothing else.
LEMMA SucceedKeeps ==
    ASSUME IInv, NodeInv, Succeed
    PROVE  NodeInv'
  <1>1. TypeOK /\ Known /\ ServerLeads /\ SecretKept /\ WebDirectoryKept /\ "apply" \in Units
    BY DEF IInv, NodeInv, Units
  <1>2. proc["apply"].pc = "restarting" /\ UNCHANGED <<installed, previous, secret, latest, faults>>
    BY DEF Succeed, files
  <1>3. Gone("apply")
    BY <1>1, ExitGone DEF Succeed, Return
  <1>4. status' = status \/ (status'.state = "succeeded" /\ status'.code = "none")
    BY DEF Succeed, Persist
  <1>5. SecretKept'
    BY <1>1, <1>2, <1>3, <1>4 DEF SecretKept, SecretRestored, Gone
  <1>6. ServerLeads'
    <2>1. installed["server"] >= 1
      BY <1>1 DEF Known, Parts, TypeOK
    <2> QED
      BY <1>1, <1>2, <1>3, <1>4, <2>1 DEF ServerLeads, Gone, Busy, Active
  <1>7. WebDirectoryKept'
    BY <1>1, <1>2 DEF WebDirectoryKept, InstallerRuns
  <1> QED
    BY <1>5, <1>6, <1>7 DEF NodeInv

\* Every step keeps the node.
LEMMA NodeStep == IInv /\ IInv' /\ NodeInv /\ [Next]_vars => NodeInv'
  <1> SUFFICES ASSUME IInv, IInv', NodeInv, [Next]_vars PROVE NodeInv'
    OBVIOUS
  <1>1. TypeOK'
    BY DEF IInv
  <1>2. CASE \/ UNCHANGED vars \/ WebRead \/ WebCreate \/ StatusExpires \/ Publish \/ LockAges
             \/ StartApply \/ StartCheck \/ Consume
             \/ \E p \in Units : Kill(p) \/ Create(p) \/ Stamp(p) \/ ReadLock(p) \/ RemoveStale(p)
    BY <1>1, <1>2, QuietOutside, QuietKeeps
  <1>3. CASE \/ StartDownload \/ Stage
             \/ \E p \in Units : Begin(p) \/ Lookup(p) \/ ReportIdle(p)
    BY <1>1, <1>3, QuietStages, QuietKeeps
  <1>4. CASE InstallStep \/ InstallerDies \/ InstallerCompletes \/ SecretChanges
    BY <1>4, ScriptKeeps
  <1> QED
    BY <1>2, <1>3, <1>4, ReturnedKeeps, SucceedKeeps DEF Next, UnitStep, ApplyStep

\* For any number of releases, checks, kills and failed installers: when the
\* updater reports nothing to update, the server has at least that version;
\* when an attempt reports success or a failed installation, the administrator
\* secret is the one captured before; and only a killed process leaves the node
\* without its web directory (selfupdate/engine.go, install.sh).
THEOREM NodeKept == Spec => []NodeIsKept
  <1>1. Init => NodeInv
    BY UpdaterBounds DEF Init, NodeInv, ServerLeads, SecretKept, SecretRestored, WebDirectoryKept,
       Off, Units, Parts, Busy, Active
  <1>2. IInv /\ NodeInv => NodeIsKept
    BY DEF IInv, NodeInv, NodeIsKept, ServerLeads, SecretKept, UpToDateHasServer
  <1> QED
    BY <1>1, <1>2, NodeStep, UpdaterInductive, PTL DEF Spec
=============================================================================
