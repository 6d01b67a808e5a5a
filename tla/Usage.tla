------------------------------- MODULE Usage -------------------------------
(***************************************************************************)
(* Per-user accounting: the usage tracker of the running server            *)
(* (internal/usage/tracker.go), the carrier sessions it admits and closes  *)
(* (serveAuthenticatedCarrier in internal/app/server.go) and the           *)
(* administrator's process, which edits the policy index and the same      *)
(* state file (cmd/neprotoctl/web_api.go, internal/admin/manager.go).      *)
(*                                                                         *)
(* Every operation on the state file holds the lock directory state.lock,  *)
(* so each is one action.  What interleaves is the order of the            *)
(* operations of the two processes, the crash of either of them (which may *)
(* leave the lock behind), and the write at the end of an operation, which *)
(* can fail after memory has been changed.                                 *)
(*                                                                         *)
(* Upload and download counters are handled alike; one counter stands for  *)
(* both.  A user is a number, because the state file is kept sorted by     *)
(* user identifier and that order is visible (see RolledBack).             *)
(***************************************************************************)
EXTENDS Integers, FiniteSetsExt, Functions, TLC

CONSTANTS
    Users,        \* the users of the policy index, by identifier
    Devices,      \* device identifiers clients present
    NoDevice,     \* the zero device identifier
    Limits,       \* the values an administrator gives max_devices
    MaxHistory,   \* maximumDevicesPerUser (64)
    MaxCount,     \* math.MaxUint64, where the byte counters saturate
    MaxSessions,  \* bound: carrier sessions alive or tracked at a time
    MaxBytes,     \* bound: bytes a user moves between two resets
    MaxEdits,     \* bound: edits of the policy index, deletions aside
    MaxFailures,  \* bound: state writes that fail
    MaxStops      \* bound: how often a process dies or is restarted

ASSUME UsageAssumption ==
    /\ Users \subseteq Nat
    /\ NoDevice \notin Devices
    /\ Limits \subseteq Nat /\ 0 \in Limits
    /\ {MaxHistory, MaxCount, MaxSessions, MaxBytes, MaxEdits, MaxFailures,
        MaxStops} \subseteq Nat

VARIABLES
    policy,    \* the policy index: status, limit and reset generation
    edits,     \* how often it was edited, deletions aside
    file,      \* the state file: its revision and its users
    t,         \* the tracker: t.state, and last, the sessions it tracks
    up,        \* the server process is running
    creds,     \* users whose credential was active since it started
    sess,      \* the carrier sessions
    lock,      \* "left" when a dead process left the lock directory
    admin,     \* what the administrator's process has begun
    failures,  \* state writes that have failed
    stops,     \* process deaths and restarts so far
    due,       \* history: bytes moved since the user's last reset
    removed    \* history: devices removed and not enrolled again

vars == <<policy, edits, file, t, up, creds, sess, lock, admin, failures, stops, due, removed>>

Sessions == 1..MaxSessions

NoSession == [pc |-> "none", user |-> 0, device |-> NoDevice, bytes |-> 0]

NoState == [rev |-> 0, users |-> <<>>, last |-> <<>>]

NewUser == [gen |-> 0, bytes |-> 0, active |-> 0, devices |-> <<>>]

Init ==
    /\ policy \in [Users -> [status : {"active"}, max : Limits, gen : {0}]]
    /\ edits = 0
    /\ file = [rev |-> 1, users |-> <<>>]
    /\ t = [NoState EXCEPT !.rev = 1]
    /\ up = TRUE
    /\ creds = Users
    /\ sess = [i \in Sessions |-> NoSession]
    /\ lock = "free"
    /\ admin = [pc |-> "idle", user |-> 0]
    /\ failures = 0
    /\ stops = 0
    /\ due = [u \in Users |-> 0]
    /\ removed = {}

-----------------------------------------------------------------------------
(* The tracker's helpers.  Each maps a tracker record to a tracker record. *)

saturatingAdd(a, b) == IF MaxCount - a < b THEN MaxCount ELSE a + b

(* Sessions of user u the tracker knows, and those labelled with device d. *)
Tracked(m, u) == {i \in DOMAIN m.last : sess[i].user = u}
Labelled(m, u, d) == {i \in Tracked(m, u) : sess[i].device = d}

(* What validateState accepts of a set of users. *)
validateState(users) ==
    \A u \in DOMAIN users :
        /\ Cardinality(DOMAIN users[u].devices) <= MaxHistory
        /\ SumFunction(users[u].devices) <= users[u].active

(* Mutation: the file is never read again after the start. *)
(* The file's state is taken when its revision is ahead of memory's. *)
reloadExternal(m) ==
    IF file.rev > m.rev THEN [m EXCEPT !.rev = file.rev, !.users = file.users] ELSE m

pruneDeletedUsers(m) ==
    [m EXCEPT !.users = Restrict(@, {u \in DOMAIN @ : policy[u].status # "deleted" \/ @[u].active > 0})]

ensureUser(m, u) == [m EXCEPT !.users = @ @@ (u :> NewUser)]

(* Mutation: the counters are zeroed and the baselines left alone. *)
applyReset(m, u) ==
    IF u \in DOMAIN m.users /\ policy[u].gen > m.users[u].gen
    THEN [m EXCEPT !.users[u].gen = policy[u].gen,
                   !.users[u].bytes = 0,
                   !.last = [i \in DOMAIN m.last |->
                                IF i \in Tracked(m, u) THEN sess[i].bytes ELSE m.last[i]]]
    ELSE m

(* Bytes the sessions S of user u moved since they were last sampled. *)
Unsampled(m, u, S) == MapThenSumSet(LAMBDA i : sess[i].bytes - m.last[i], Tracked(m, u) \cap S)

sampleSession(m, S) ==
    [m EXCEPT !.users = [u \in DOMAIN @ |->
                            [@[u] EXCEPT !.bytes = saturatingAdd(@, Unsampled(m, u, S))]],
              !.last = [i \in DOMAIN @ |-> IF i \in S THEN sess[i].bytes ELSE @[i]]]

(* A session of user u is counted, and one is taken off the counts. *)
Counted(m, u, d) ==
    [m EXCEPT !.users[u].active = @ + 1,
              !.users[u].devices =
                  IF d = NoDevice THEN @
                  ELSE (d :> 1 + (IF d \in DOMAIN @ THEN @[d] ELSE 0)) @@ @]

(* Mutation: the device's own count is forgotten. *)
decrementUserSession(m, u, d) ==
    IF u \in DOMAIN m.users
    THEN [m EXCEPT !.users[u].active = IF @ > 0 THEN @ - 1 ELSE 0,
                   !.users[u].devices = [e \in DOMAIN @ |->
                                            IF e = d /\ @[e] > 0 THEN @[e] - 1 ELSE @[e]]]
    ELSE m

(* persistLocked advances the revision in memory whether or not the write  *)
(* that follows succeeds; writeState refuses what validateState refuses.   *)
Bumped(m) == [m EXCEPT !.rev = @ + 1]
Written(m) == [rev |-> m.rev, users |-> m.users]
Outcomes(users) ==
    {ok \in BOOLEAN : IF ok THEN validateState(users)
                            ELSE failures < MaxFailures \/ ~validateState(users)}
Failed(ok) == failures' = IF ok THEN failures ELSE Min({failures + 1, MaxFailures})

persist(m) ==
    \E ok \in Outcomes(m.users) :
        /\ t' = Bumped(m)
        /\ file' = IF ok THEN Written(Bumped(m)) ELSE file
        /\ Failed(ok)

-----------------------------------------------------------------------------
(* Carrier sessions of the server. *)

(* writeState sorts the users in place before it writes, and the pointer   *)
(* `user` Admit took before the sort is a position: a user Admit has just  *)
(* appended stands last, where after the sort the greatest identifier is.  *)
RolledBackUser(m, u, fresh) ==
    IF fresh /\ validateState(m.users) THEN Max(DOMAIN m.users) ELSE u

AdmitRejected(m) ==
    /\ t' = m
    /\ UNCHANGED <<file, sess, failures, removed>>

(* The session is counted, tracked and persisted; a failed write untracks  *)
(* and uncounts it and the session is refused.                             *)
AdmitCounted(i, m, u, d, fresh) ==
    \E ok \in Outcomes(m.users) :
        /\ t' = IF ok THEN [Bumped(m) EXCEPT !.last = @ @@ (i :> 0)]
                ELSE decrementUserSession(Bumped(m), RolledBackUser(m, u, fresh), d)
        /\ file' = IF ok THEN Written(Bumped(m)) ELSE file
        /\ sess' = [sess EXCEPT ![i] = IF ok THEN [pc |-> "admitted", user |-> u, device |-> d, bytes |-> 0]
                                       ELSE NoSession]
        /\ removed' = removed \ {<<u, d>>}
        /\ Failed(ok)

(* Mutation: an unknown device is enrolled when the ceiling is reached.    *)
OverCeilingLate(u, users) ==
    policy[u].max > 0 /\ Cardinality(DOMAIN users[u].devices) > policy[u].max

OverCeiling(u, users) ==
    policy[u].max > 0 /\ Cardinality(DOMAIN users[u].devices) >= policy[u].max

(* The label a session is counted under: none once the history is full.    *)
DeviceText(d, known) == IF d \notin known /\ Cardinality(known) >= MaxHistory THEN NoDevice ELSE d

(* A client has authenticated with a credential that was active when its   *)
(* carrier arrived, and the tracker decides on the policy as it is now.    *)
Admit(i, u, d) ==
    LET pruned == pruneDeletedUsers(reloadExternal(t))
        ready == applyReset(ensureUser(pruned, u), u)
        known == DOMAIN ready.users[u].devices
        label == DeviceText(d, known)
    IN  /\ up /\ u \in creds
        /\ sess[i] = NoSession /\ \A j \in 1..(i - 1) : sess[j] # NoSession
        /\ IF lock = "left" THEN AdmitRejected(t)
           ELSE IF policy[u].status # "active" \/ (policy[u].max > 0 /\ d = NoDevice)
           THEN AdmitRejected(pruned)
           ELSE IF d # NoDevice /\ d \notin known /\ OverCeiling(u, ready.users)
           THEN AdmitRejected(ready)
           ELSE AdmitCounted(i, Counted(ready, u, label), u, label, u \notin DOMAIN pruned.users)
        /\ UNCHANGED <<policy, edits, up, creds, lock, admin, stops, due>>

(* The session's mux carries payload. *)
Transfer(i) ==
    /\ up /\ sess[i].pc = "admitted" /\ due[sess[i].user] < MaxBytes
    /\ sess' = [sess EXCEPT ![i].bytes = @ + 1]
    /\ due' = [due EXCEPT ![sess[i].user] = @ + 1]
    /\ UNCHANGED <<policy, edits, file, t, up, creds, lock, admin, failures, stops, removed>>

(* The constellation admission that follows Admit fails: the handler       *)
(* returns before the deferred function that closes the usage session has  *)
(* been registered.                                                        *)
ConstellationRejected(i) ==
    /\ up /\ sess[i].pc = "admitted"
    /\ sess' = [sess EXCEPT ![i].pc = "ended"]
    /\ UNCHANGED <<policy, edits, file, t, up, creds, lock, admin, failures, stops, due, removed>>

(* Mutation: a closing session is not sampled. *)
CloseUnsampled(i) ==
    LET m == [reloadExternal(t) EXCEPT !.last = Restrict(@, DOMAIN @ \ {i})]
    IN  persist(decrementUserSession(m, sess[i].user, sess[i].device))

CloseTracked(i) ==
    LET sampled == sampleSession(reloadExternal(t), {i})
        m == [sampled EXCEPT !.last = Restrict(@, DOMAIN @ \ {i})]
    IN  persist(decrementUserSession(m, sess[i].user, sess[i].device))

(* The session ends.  Session.Close returns an error while the lock is     *)
(* busy, and nobody calls it a second time.                                *)
Close(i) ==
    /\ up /\ sess[i].pc = "admitted"
    /\ IF lock = "left"
       THEN sess' = [sess EXCEPT ![i].pc = "ended"] /\ UNCHANGED <<file, t, failures>>
       ELSE sess' = [sess EXCEPT ![i] = NoSession] /\ CloseTracked(i)
    /\ UNCHANGED <<policy, edits, up, creds, lock, admin, stops, due, removed>>

(* The periodic sample, and the one at shutdown. *)
Sample ==
    LET pruned == pruneDeletedUsers(reloadExternal(t))
        reset == FoldSet(LAMBDA u, m : applyReset(m, u), pruned,
                         {u \in Users : policy[u].status # "deleted"})
        moved == \E u \in DOMAIN reset.users : Unsampled(reset, u, Sessions) > 0
        dirty == pruned # reloadExternal(t) \/ reset # pruned \/ moved
    IN  /\ up /\ lock = "free"
        /\ IF dirty THEN persist(sampleSession(reset, Sessions))
           ELSE t' = sampleSession(reset, Sessions) /\ UNCHANGED <<file, failures>>
        /\ UNCHANGED <<policy, edits, up, creds, sess, lock, admin, stops, due, removed>>

-----------------------------------------------------------------------------
(* The server process ends, by a crash or a restart.  Bytes that were not  *)
(* sampled are gone; so are those since a reset the tracker has not seen.  *)
ServerEnds ==
    /\ up' = FALSE
    /\ creds' = {}
    /\ t' = NoState
    /\ sess' = [i \in Sessions |-> NoSession]
    /\ lock' \in {lock, "left"}
    /\ due' = [u \in Users |->
                  IF u \in DOMAIN t.users /\ t.users[u].gen = policy[u].gen
                  THEN due[u] - Unsampled(t, u, Sessions) ELSE 0]
    /\ UNCHANGED <<policy, edits, file, failures, removed>>

Crash ==
    /\ up /\ stops < MaxStops
    /\ stops' = stops + 1
    /\ ServerEnds
    /\ UNCHANGED admin

Offline(users) ==
    [u \in DOMAIN users |-> [users[u] EXCEPT !.active = 0, !.devices = [d \in DOMAIN @ |-> 0]]]

(* New: the next process starts from the file, with nobody online.         *)
New ==
    LET m == [rev |-> file.rev + 1, users |-> Offline(file.users), last |-> <<>>]
    IN  /\ ~up /\ lock = "free"
        /\ up' = TRUE
        /\ creds' = {u \in Users : policy[u].status = "active"}
        /\ t' = m
        /\ file' = Written(m)
        /\ UNCHANGED <<policy, edits, sess, lock, admin, failures, stops, due, removed>>

(* A lock directory left by a dead process is removed after 30 seconds.    *)
LockExpires ==
    /\ lock = "left"
    /\ lock' = "free"
    /\ UNCHANGED <<policy, edits, file, t, up, creds, sess, admin, failures, stops, due, removed>>

-----------------------------------------------------------------------------
(* The administrator's process. *)

(* The policy index is replaced atomically. *)
Edit(u, entry) ==
    /\ edits < MaxEdits
    /\ edits' = edits + 1
    /\ policy' = [policy EXCEPT ![u] = entry]

SetUserDeviceLimit(u, n) ==
    /\ admin.pc = "idle" /\ policy[u].status # "deleted" /\ policy[u].max # n
    /\ Edit(u, [policy[u] EXCEPT !.max = n])
    /\ UNCHANGED <<file, t, up, creds, sess, lock, admin, failures, stops, due, removed>>

(* A traffic reset first advances the generation in the policy index ...   *)
ResetUserTraffic(u) ==
    /\ admin.pc = "idle" /\ policy[u].status # "deleted"
    /\ Edit(u, [policy[u] EXCEPT !.gen = @ + 1])
    /\ admin' = [pc |-> "reset", user |-> u]
    /\ due' = [due EXCEPT ![u] = 0]
    /\ UNCHANGED <<file, t, up, creds, sess, lock, failures, stops, removed>>

(* The administrator's write of a new set of users to the state file. *)
AdminWrites(users) ==
    \E ok \in Outcomes(users) :
        /\ file' = IF ok THEN [rev |-> file.rev + 1, users |-> users] ELSE file
        /\ Failed(ok)

(* ... and then zeroes the totals in the state file. *)
ResetTraffic ==
    LET u == admin.user
    IN  /\ admin.pc = "reset"
        /\ admin' = [pc |-> "idle", user |-> 0]
        /\ IF lock = "left" \/ u \notin DOMAIN file.users THEN UNCHANGED <<file, failures>>
           ELSE AdminWrites([file.users EXCEPT ![u].bytes = 0])
        /\ UNCHANGED <<policy, edits, t, up, creds, sess, lock, stops, due, removed>>

(* Mutation: a device with sessions is removed too. *)
OfflineDeviceAny(u, d) == u \in DOMAIN file.users /\ d \in DOMAIN file.users[u].devices

OfflineDevice(u, d) ==
    /\ u \in DOMAIN file.users /\ d \in DOMAIN file.users[u].devices
    /\ file.users[u].devices[d] = 0

RemoveOfflineDevice(u, d) ==
    /\ admin.pc = "idle" /\ lock = "free" /\ OfflineDevice(u, d)
    /\ AdminWrites([file.users EXCEPT ![u].devices = Restrict(@, DOMAIN @ \ {d})])
    /\ removed' = IF file' # file THEN removed \cup {<<u, d>>} ELSE removed
    /\ UNCHANGED <<policy, edits, t, up, creds, sess, lock, admin, stops, due>>

(* Revoking and deleting a user are followed by a restart of the service,  *)
(* which may fail.                                                         *)
RevokeUser(u) ==
    /\ admin.pc = "idle" /\ policy[u].status = "active"
    /\ Edit(u, [policy[u] EXCEPT !.status = "revoked"])
    /\ admin' = [pc |-> "restart", user |-> u]
    /\ UNCHANGED <<file, t, up, creds, sess, lock, failures, stops, due, removed>>

DeleteUser(u) ==
    /\ admin.pc = "idle" /\ policy[u].status = "revoked"
    /\ policy' = [policy EXCEPT ![u].status = "deleted"]
    /\ admin' = [pc |-> "restart", user |-> u]
    /\ UNCHANGED <<edits, file, t, up, creds, sess, lock, failures, stops, due, removed>>

RestartService ==
    /\ admin.pc = "restart"
    /\ admin' = [pc |-> "idle", user |-> 0]
    /\ \/ up /\ ServerEnds
       \/ UNCHANGED <<policy, edits, file, t, up, creds, sess, lock, failures, due, removed>>
    /\ UNCHANGED stops

(* The administrator's process dies, perhaps holding the lock. *)
AdminDies ==
    /\ stops < MaxStops
    /\ stops' = stops + 1
    /\ admin' = [pc |-> "idle", user |-> 0]
    /\ lock' \in {lock, "left"}
    /\ UNCHANGED <<policy, edits, file, t, up, creds, sess, failures, due, removed>>

Next ==
    \/ \E i \in Sessions :
           \/ \E u \in Users, d \in Devices \cup {NoDevice} : Admit(i, u, d)
           \/ Transfer(i)
           \/ ConstellationRejected(i)
           \/ Close(i)
    \/ Sample
    \/ Crash
    \/ New
    \/ LockExpires
    \/ \E u \in Users :
           \/ \E n \in Limits : SetUserDeviceLimit(u, n)
           \/ ResetUserTraffic(u)
           \/ \E d \in Devices : RemoveOfflineDevice(u, d)
           \/ RevokeUser(u)
           \/ DeleteUser(u)
    \/ ResetTraffic
    \/ RestartService
    \/ AdminDies

Spec == Init /\ [][Next]_vars

-----------------------------------------------------------------------------
(* What validateState demands holds of the file and of memory alike: the   *)
(* history is bounded and no user has fewer sessions than their devices    *)
(* have together.  Were it to fail in memory, every later write, and with  *)
(* it every admission of every user, would be refused until a restart.     *)
TypeOK ==
    /\ \A s \in {file, t} :
          /\ s.rev \in Nat
          /\ DOMAIN s.users \subseteq Users
          /\ \A u \in DOMAIN s.users :
                /\ s.users[u].gen \in 0..policy[u].gen
                /\ s.users[u].bytes \in 0..MaxCount
                /\ s.users[u].active \in Nat
                /\ DOMAIN s.users[u].devices \subseteq Devices
          /\ validateState(s.users)
    /\ DOMAIN t.last \subseteq Sessions
    /\ \A i \in DOMAIN t.last : t.last[i] \in 0..sess[i].bytes

(* The counts never fall short of the sessions the tracker holds, in       *)
(* memory or in the file, so a device with a session never looks offline   *)
(* and is not removed; with no failed write the counts are exact.          *)
CountsCoverSessions ==
    up => \A s \in {file, t}, u \in Users :
            /\ Tracked(t, u) # {} => u \in DOMAIN s.users
            /\ u \in DOMAIN s.users =>
                  /\ s.users[u].active >= Cardinality(Tracked(t, u))
                  /\ failures = 0 => s.users[u].active = Cardinality(Tracked(t, u))
                  /\ \A d \in Devices :
                        LET n == Cardinality(Labelled(t, u, d))
                        IN  /\ n > 0 => /\ d \in DOMAIN s.users[u].devices
                                        /\ s.users[u].devices[d] >= n
                            /\ failures = 0 /\ d \in DOMAIN s.users[u].devices
                                  => s.users[u].devices[d] = n

(* Once the tracker has adopted the latest reset, the displayed total is   *)
(* at most what the user moved since the administrator asked for it: bytes *)
(* from before the reset never come back, whatever the order of samples,   *)
(* closes, reloads and restarts around it.                                 *)
ResetForgetsBefore ==
    \A s \in {file, t} : \A u \in DOMAIN s.users :
        policy[u].status # "deleted" /\ s.users[u].gen = policy[u].gen
            => s.users[u].bytes <= due[u]

(* Before any reset, and unless a write failed, the total is exactly what  *)
(* was moved less what no sample has seen yet, up to saturation: the final *)
(* sample of a close and the reloads of the file lose and repeat nothing.  *)
TrafficConserved ==
    \A u \in Users :
        up /\ failures = 0 /\ policy[u].gen = 0 /\ policy[u].status # "deleted"
            => (IF u \in DOMAIN t.users THEN t.users[u].bytes ELSE 0)
                  = Min({MaxCount, due[u] - Unsampled(t, u, Sessions)})

(* A device the administrator removed does not come back to the state file *)
(* by a write of the tracker, whose memory may still hold it; only a new   *)
(* admission enrols it again.  (A failed write voids this: memory's        *)
(* revision is then ahead and the removal is overwritten.)                 *)
RemovalSticks ==
    failures = 0 =>
        \A p \in removed : p[1] \in DOMAIN file.users => p[2] \notin DOMAIN file.users[p[1]].devices

(* While the administrator leaves a limit alone, a user whose enrolled     *)
(* devices fit in it stays within it, in the file and in memory, across    *)
(* admissions, removals, reloads, failed writes and restarts.              *)
CeilingHolds ==
    [][\A u \in Users :
          LET Fits(users, n) == u \in DOMAIN users => Cardinality(DOMAIN users[u].devices) <= n
          IN  policy[u].max > 0 /\ policy'[u].max = policy[u].max
                  /\ Fits(file.users, policy[u].max) /\ Fits(t.users, policy[u].max)
              => Fits(file'.users, policy[u].max) /\ Fits(t'.users, policy[u].max)]_vars

(* A user shown online has an admitted session that has not ended.         *)
OnlineMeansActive ==
    up => \A u \in DOMAIN file.users :
        file.users[u].active > 0 => \E i \in Sessions : sess[i].pc = "admitted" /\ sess[i].user = u

(* Sessions and devices are those the tracker and the administrator know.  *)
DevicesAreTracked == TypeOK /\ CountsCoverSessions /\ RemovalSticks

(* The bytes shown are the bytes moved since the last reset.               *)
TrafficIsExact == TrafficConserved /\ ResetForgetsBefore
=============================================================================
