---------------------------- MODULE ProxyServer ----------------------------
(***************************************************************************)
(* The server side of a session: proxy.Server.Serve admits the streams a   *)
(* peer opens, one handler per stream, and every handler takes slots from  *)
(* the ResourceLimiter that all sessions share.  A TCP or UDP handler owns *)
(* its target until it returns.  A continuity handler returns at once and  *)
(* leaves a logical flow behind, held by three tables: the runtime's map,  *)
(* the FlowRegistry with its count per principal, and the control channel  *)
(* of the lease that carries the flow.  A second session of the same user  *)
(* may resume the flow; a lost control channel starts a migration timer.   *)
(***************************************************************************)
EXTENDS Integers, FiniteSets

CONSTANTS
    CarrierSessions,        \* authenticated sessions, each with its own lease
    Owner,           \* the credential (and principal) of a session
    MaxRequests,     \* bound: streams the peers open in a behaviour
    MaxEpoch,        \* bound: the epochs a resume may carry
    MaxConnections,  \* Server.MaxConnections, the semaphore of one Serve
    MaxUDP,          \* Server.MaxUDPAssociations
    MaxTCPGlobal, MaxTCPPerUser, MaxUDPGlobal, MaxUDPPerUser,
    MaxFlows, MaxFlowsPerPrincipal

Users    == {Owner[s] : s \in CarrierSessions}
Requests == 1 .. MaxRequests
NoLease  == "none"
Kinds    == {"cluster", "tcp", "udp", "new", "resume"}

\* No session goes by the name that stands for none.
ASSUME ProxyBounds ==
    /\ MaxRequests \in Nat /\ MaxEpoch \in Nat
    /\ NoLease \notin CarrierSessions

VARIABLES
    req,      \* the handlers, one per opened stream
    ended,    \* sessions whose Serve context is cancelled
    slots,    \* Serve's semaphores and the limiter's counters
    flow,     \* the logical flows, indexed by the request that created them
    counts,   \* FlowRegistry.principalCounts
    rt,       \* the ContinuityRuntime: open, closing (flows being finished), closed
    raced     \* flows hit by one of the two windows described at FinishFlow

proxyVars == <<req, ended, slots, flow, counts, rt, raced>>

NoRequest == [pc |-> "idle", kind |-> "cluster", session |-> NoLease,
              flow |-> 0, epoch |-> 0, old |-> NoLease, target |-> FALSE]
NoFlow    == [table |-> FALSE, reg |-> FALSE, epoch |-> 0, record |-> NoLease,
              control |-> NoLease, lease |-> NoLease, bound |-> {},
              timer |-> {}, gen |-> 0, stream |-> FALSE, target |-> FALSE,
              slot |-> FALSE, run |-> FALSE, fin |-> "no", expired |-> FALSE]

ProxyInit ==
    /\ req = [i \in Requests |-> NoRequest]
    /\ ended = {}
    /\ slots = [sem |-> [s \in CarrierSessions |-> 0], udpSem |-> [s \in CarrierSessions |-> 0],
                tcp |-> 0, udp |-> 0,
                tcpOf |-> [u \in Users |-> 0], udpOf |-> [u \in Users |-> 0]]
    /\ flow = [i \in Requests |-> NoFlow]
    /\ counts = [u \in Users |-> 0]
    /\ rt = "open"
    /\ raced = {}

UserOf(i)      == Owner[req[i].session]
At(i, k, pc)   == req[i].pc = pc /\ req[i].kind \in k
Step(i, pc)    == req' = [req EXCEPT ![i].pc = pc]
Registered     == {f \in Requests : flow[f].reg}
OfUser(u)      == {f \in Registered : UserOf(f) = u}

---------------------------------------------------------------------------
(* ResourceLimiter: the counters of all sessions, each call under one lock. *)

CanTCP(u) == slots.tcp < MaxTCPGlobal /\ slots.tcpOf[u] < MaxTCPPerUser
CanUDP(u) == slots.udp < MaxUDPGlobal /\ slots.udpOf[u] < MaxUDPPerUser

AcquireTCP(sl, u) == [sl EXCEPT !.tcp = @ + 1, !.tcpOf[u] = @ + 1]

\* The guards keep a counter from going below zero.
ReleaseTCP(sl, u) ==
    [sl EXCEPT !.tcp = IF @ > 0 THEN @ - 1 ELSE @,
               !.tcpOf[u] = IF @ > 0 THEN @ - 1 ELSE @]

AcquireUDP(sl, u) == [sl EXCEPT !.udp = @ + 1, !.udpOf[u] = @ + 1]

ReleaseUDP(sl, u) ==
    [sl EXCEPT !.udp = IF @ > 0 THEN @ - 1 ELSE @,
               !.udpOf[u] = IF @ > 0 THEN @ - 1 ELSE @]

\* The deferred `<-semaphore` of the handler goroutine.
Leave(sl, i) == [sl EXCEPT !.sem[req[i].session] = @ - 1]

---------------------------------------------------------------------------
(* Serve and handleIncoming. *)

\* AcceptIncoming, the semaphore, and the dispatch on the decoded command.
\* Streams are numbered in the order in which they are opened.
Serve(i, s, k) ==
    /\ req[i].pc = "idle" /\ \A j \in 1 .. i - 1 : req[j].pc # "idle"
    /\ s \notin ended /\ slots.sem[s] < MaxConnections
    /\ slots' = [slots EXCEPT !.sem[s] = @ + 1]
    /\ \E f \in Requests, e \in 1 .. MaxEpoch :
          /\ IF k = "resume" THEN f < i /\ req[f].kind = "new" ELSE f = i /\ e = 1
          /\ req' = [req EXCEPT ![i] = [NoRequest EXCEPT !.pc = "handle", !.kind = k,
                                        !.session = s, !.flow = f, !.epoch = e]]
    /\ UNCHANGED <<ended, flow, counts, rt, raced>>

\* The session's context ends: Serve cancels its handlers and waits for them.
CarrierEnds(s) ==
    /\ s \notin ended
    /\ ended' = ended \cup {s}
    /\ UNCHANGED <<req, slots, flow, counts, rt, raced>>

\* handleCatalog, handleClusterState, handleClusterRelay, ...: the request is
\* refused, or accepted, answered and closed; no slot but Serve's is held.
ClusterRequest(i) ==
    /\ At(i, {"cluster"}, "handle")
    /\ Step(i, "done") /\ slots' = Leave(slots, i)
    /\ UNCHANGED <<ended, flow, counts, rt, raced>>

---------------------------------------------------------------------------
(* handleTCPIncoming, and the first half of handleContinuityIncoming. *)

LimitTCP(i) ==
    /\ At(i, {"tcp", "new"}, "handle")
    /\ IF CanTCP(UserOf(i))
       THEN Step(i, "dial") /\ slots' = AcquireTCP(slots, UserOf(i))
       ELSE Step(i, "done") /\ slots' = Leave(slots, i)
    /\ UNCHANGED <<ended, flow, counts, rt, raced>>

\* routeTCP, Policy.Resolve and dialResolved: one of them fails, or the target
\* is connected; then Accept answers the peer, which fails on an ended session.
DialFails(i) ==
    /\ At(i, {"tcp", "new"}, "dial")
    /\ Step(i, "done") /\ slots' = Leave(ReleaseTCP(slots, UserOf(i)), i)
    /\ UNCHANGED <<ended, flow, counts, rt, raced>>

dialResolved(i) ==
    /\ At(i, {"tcp", "new"}, "dial") /\ req[i].session \notin ended
    /\ req' = [req EXCEPT ![i].pc = "accept", ![i].target = TRUE]
    /\ UNCHANGED <<ended, slots, flow, counts, rt, raced>>

AcceptFails(i) ==
    /\ At(i, {"tcp", "new"}, "accept") /\ req[i].session \in ended
    /\ req' = [req EXCEPT ![i].pc = "done", ![i].target = FALSE]
    /\ slots' = Leave(ReleaseTCP(slots, UserOf(i)), i)
    /\ UNCHANGED <<ended, flow, counts, rt, raced>>

handleTCPIncoming(i) ==
    /\ At(i, {"tcp"}, "accept") /\ Step(i, "relay")
    /\ UNCHANGED <<ended, slots, flow, counts, rt, raced>>

\* relayTarget or relayDuplex returns: a side ended or the context did.
RelayEnds(i) ==
    /\ At(i, {"tcp"}, "relay")
    /\ req' = [req EXCEPT ![i].pc = "done", ![i].target = FALSE]
    /\ slots' = Leave(ReleaseTCP(slots, UserOf(i)), i)
    /\ UNCHANGED <<ended, flow, counts, rt, raced>>

---------------------------------------------------------------------------
(* handleUDPIncoming: the association semaphore, the limiter, the relay. *)

acquireUDPAssociation(i) ==
    /\ At(i, {"udp"}, "handle")
    /\ LET s == req[i].session IN
       IF slots.udpSem[s] < MaxUDP
       THEN Step(i, "limit") /\ slots' = [slots EXCEPT !.udpSem[s] = @ + 1]
       ELSE Step(i, "done") /\ slots' = Leave(slots, i)
    /\ UNCHANGED <<ended, flow, counts, rt, raced>>

releaseUDPAssociation(sl, i) == [sl EXCEPT !.udpSem[req[i].session] = @ - 1]

LimitUDP(i) ==
    /\ At(i, {"udp"}, "limit")
    /\ IF CanUDP(UserOf(i))
       THEN Step(i, "listen") /\ slots' = AcquireUDP(slots, UserOf(i))
       ELSE Step(i, "done") /\ slots' = Leave(releaseUDPAssociation(slots, i), i)
    /\ UNCHANGED <<ended, flow, counts, rt, raced>>

\* The payload limit, the router or the local socket, Accept; any may fail.
handleUDPIncoming(i) ==
    /\ At(i, {"udp"}, "listen")
    /\ \/ /\ req[i].session \notin ended
          /\ req' = [req EXCEPT ![i].pc = "relay", ![i].target = TRUE]
          /\ UNCHANGED slots
       \/ /\ Step(i, "done")
          /\ slots' = Leave(releaseUDPAssociation(ReleaseUDP(slots, UserOf(i)), i), i)
    /\ UNCHANGED <<ended, flow, counts, rt, raced>>

UDPRelayEnds(i) ==
    /\ At(i, {"udp"}, "relay")
    /\ req' = [req EXCEPT ![i].pc = "done", ![i].target = FALSE]
    /\ slots' = Leave(releaseUDPAssociation(ReleaseUDP(slots, UserOf(i)), i), i)
    /\ UNCHANGED <<ended, flow, counts, rt, raced>>

---------------------------------------------------------------------------
(* FlowRegistry, under its own lock.  Its records are the flows with reg.  *)

\* Create's capacity checks, then the record with epoch 1.
CreateFlow(i) ==
    LET u == UserOf(i) IN
    /\ At(i, {"new"}, "accept") /\ req[i].session \notin ended
    /\ IF rt # "closed" /\ Cardinality(Registered) < MaxFlows
                        /\ counts[u] < MaxFlowsPerPrincipal
       THEN /\ flow' = [flow EXCEPT ![i] =
                 [NoFlow EXCEPT !.reg = TRUE, !.epoch = 1, !.record = req[i].session,
                                !.control = req[i].session, !.lease = req[i].session,
                                !.stream = TRUE, !.target = TRUE, !.slot = TRUE]]
            /\ counts' = [counts EXCEPT ![u] = @ + 1]
            /\ req' = [req EXCEPT ![i].pc = "register", ![i].target = FALSE]
            /\ UNCHANGED slots
       ELSE /\ req' = [req EXCEPT ![i].pc = "done", ![i].target = FALSE]
            /\ slots' = Leave(ReleaseTCP(slots, u), i)
            /\ UNCHANGED <<flow, counts>>
    /\ UNCHANGED <<ended, rt, raced>>

\* Mutant of ReleaseFlow: the principal's count keeps the deleted record.
ReleaseFlowCounted(f, fl) ==
    /\ flow' = [flow EXCEPT ![f] = IF rt # "closed" /\ fl.reg
                                   THEN [fl EXCEPT !.reg = FALSE, !.target = FALSE] ELSE fl]
    /\ UNCHANGED counts

\* Release deletes the record, if it is still there, and closes the upstream.
ReleaseFlow(f, fl) ==
    IF rt # "closed" /\ fl.reg
    THEN /\ flow' = [flow EXCEPT ![f] = [fl EXCEPT !.reg = FALSE, !.target = FALSE]]
         /\ counts' = [counts EXCEPT ![UserOf(f)] = IF @ <= 1 THEN 0 ELSE @ - 1]
    ELSE /\ flow' = [flow EXCEPT ![f] = fl]
         /\ UNCHANGED counts

\* Attach: the record's epoch with the record's lease, or the next epoch with
\* any lease; every other epoch deletes the flow and closes its upstream.
AttachFlow(i) ==
    LET f == req[i].flow  e == req[i].epoch  l == req[i].session  fl == flow[f] IN
    /\ At(i, {"resume"}, "attach")
    /\ IF rt = "closed" \/ ~fl.reg \/ UserOf(i) # UserOf(f)
       THEN Step(i, "done") /\ slots' = Leave(slots, i) /\ UNCHANGED <<flow, counts>>
       ELSE IF \/ e = fl.epoch /\ l = fl.record
               \/ e = fl.epoch + 1
       THEN /\ flow' = [flow EXCEPT ![f].epoch = e, ![f].record = l]
            /\ Step(i, "lookup") /\ UNCHANGED <<slots, counts>>
       ELSE /\ Step(i, "conflict")
            /\ ReleaseFlow(f, fl) /\ UNCHANGED slots
    /\ UNCHANGED <<ended, rt, raced>>

---------------------------------------------------------------------------
(* ContinuityRuntime: AdmitNew and Resume. *)

\* lease.Control.Register; a closed control channel undoes the admission.
RegisterNew(i) ==
    LET s == req[i].session IN
    /\ At(i, {"new"}, "register")
    /\ IF s \notin ended
       THEN /\ flow' = [flow EXCEPT ![i].bound = {s}]
            /\ Step(i, "publish") /\ UNCHANGED <<slots, counts>>
       ELSE /\ ReleaseFlow(i, [flow[i] EXCEPT !.stream = FALSE, !.slot = FALSE])
            /\ Step(i, "done") /\ slots' = Leave(ReleaseTCP(slots, UserOf(i)), i)
    /\ UNCHANGED <<ended, rt, raced>>

\* The flow enters the runtime's map and its relay starts; a closed runtime
\* undoes the admission.  An Abort since RegisterNew has already finished it.
AdmitNew(i) ==
    LET fl == flow[i] IN
    /\ At(i, {"new"}, "publish")
    /\ IF rt = "open"
       THEN /\ flow' = [flow EXCEPT ![i].table = TRUE, ![i].run = TRUE]
            /\ slots' = Leave(slots, i) /\ UNCHANGED counts
            /\ raced' = IF fl.fin = "no" THEN raced ELSE raced \cup {i}
       ELSE /\ ReleaseFlow(i, [fl EXCEPT !.bound = @ \ {req[i].session},
                                     !.stream = FALSE, !.slot = FALSE])
            /\ slots' = Leave(IF fl.slot THEN ReleaseTCP(slots, UserOf(i)) ELSE slots, i)
            /\ UNCHANGED raced
    /\ Step(i, "done")
    /\ UNCHANGED <<ended, rt>>

\* Resume's first half: the map lookup, under the runtime's lock.
Resume(i) ==
    /\ At(i, {"resume"}, "handle")
    /\ IF rt = "open" /\ flow[req[i].flow].table /\ req[i].session \notin ended
       THEN Step(i, "attach") /\ UNCHANGED slots
       ELSE Step(i, "done") /\ slots' = Leave(slots, i)
    /\ UNCHANGED <<ended, flow, counts, rt, raced>>

\* replace reads the old control; another one registers the flow first.
ReadControl(i) ==
    /\ At(i, {"resume"}, "lookup")
    /\ req' = [req EXCEPT ![i].pc = "bind", ![i].old = flow[req[i].flow].control]
    /\ UNCHANGED <<ended, slots, flow, counts, rt, raced>>

RegisterResumed(i) ==
    LET f == req[i].flow  s == req[i].session IN
    /\ At(i, {"resume"}, "bind")
    /\ IF req[i].old # s /\ (s \in ended \/ s \in flow[f].bound)
       THEN Step(i, "done") /\ slots' = Leave(slots, i) /\ UNCHANGED flow
       ELSE /\ flow' = [flow EXCEPT ![f].bound = @ \cup {s}, ![f].control = s,
                                    ![f].lease = s]
            /\ Step(i, "replace") /\ UNCHANGED slots
    /\ UNCHANGED <<ended, counts, rt, raced>>

\* Another resume of the same flow is between reading the control and its end.
Overlaps(i) == \E j \in Requests \ {i} : req[j].flow = req[i].flow
                                       /\ At(j, {"resume"}, req[j].pc)
                                       /\ req[j].pc \in {"bind", "replace"}
Disturbed(i) == raced' = IF flow[req[i].flow].fin = "no" /\ ~Overlaps(i)
                         THEN raced ELSE raced \cup {req[i].flow}

\* DetachPhysical and Replace: a closed stream or refused offsets put the old
\* control back and unbind the new one.
ReplaceFails(i) ==
    LET f == req[i].flow  s == req[i].session IN
    /\ At(i, {"resume"}, "replace")
    /\ flow' = [flow EXCEPT ![f].control = req[i].old,
                   ![f].lease = IF req[i].old = NoLease THEN @ ELSE req[i].old,
                   ![f].bound = IF req[i].old # s THEN @ \ {s} ELSE @]
    /\ Step(i, "done") /\ slots' = Leave(slots, i)
    /\ Disturbed(i)
    /\ UNCHANGED <<ended, counts, rt>>

\* The new carrier is in place: cancelMigration, then the old binding goes.
replace(i) ==
    LET f == req[i].flow  s == req[i].session IN
    /\ At(i, {"resume"}, "replace") /\ flow[f].stream /\ s \notin ended
    /\ flow' = [flow EXCEPT ![f].timer = {}, ![f].gen = 1 - @,
                   ![f].bound = IF req[i].old # s THEN @ \ {req[i].old} ELSE @]
    /\ Step(i, "done") /\ slots' = Leave(slots, i)
    /\ Disturbed(i)
    /\ UNCHANGED <<ended, counts, rt>>

---------------------------------------------------------------------------
(* finish, which every end of a flow goes through once, and its callers.   *)

\* Mutant of Unlisted: the flow's handler stays on its control channel.
UnlistedBound(fl) == [fl EXCEPT !.fin = "begun", !.table = FALSE, !.timer = {},
                                !.gen = 1 - @, !.control = NoLease]

\* finishOnce up to the runtime's and the flow's locks.  Two windows remain:
\* a finish between AdmitNew's Register and its insert leaves the map entry,
\* and a replace that overlaps a finish leaves the old binding or the one it
\* made, as do two resumes of one flow that overlap; `raced` remembers them.
Unlisted(fl) == [fl EXCEPT !.fin = "begun", !.table = FALSE, !.timer = {},
                           !.gen = 1 - @, !.control = NoLease, !.bound = @ \ {fl.control}]

Finish(f) == flow[f].fin = "no" /\ flow' = [flow EXCEPT ![f] = Unlisted(flow[f])]

\* The rest: the stream closes, the registry record goes, the slot is freed.
FinishFlow(f) ==
    LET fl == flow[f] IN
    /\ fl.fin = "begun"
    /\ ReleaseFlow(f, [fl EXCEPT !.fin = "done", !.stream = FALSE, !.slot = FALSE])
    /\ slots' = IF fl.slot THEN ReleaseTCP(slots, UserOf(f)) ELSE slots
    /\ UNCHANGED <<req, ended, rt, raced>>

Conflict(i) ==
    /\ At(i, {"resume"}, "conflict")
    /\ IF flow[req[i].flow].fin = "no" THEN Finish(req[i].flow) ELSE UNCHANGED flow
    /\ Step(i, "done") /\ slots' = Leave(slots, i)
    /\ UNCHANGED <<ended, counts, rt, raced>>

\* run: the relay of a flow that has been published ends, closing the target.
run(f) ==
    /\ flow[f].run
    /\ flow' = [flow EXCEPT ![f] = [(IF @.fin = "no" THEN Unlisted(@) ELSE @)
                                    EXCEPT !.run = FALSE, !.target = FALSE]]
    /\ UNCHANGED <<req, ended, slots, counts, rt, raced>>

\* A flow's binding is aborted by the peer or by an invalid acknowledgement.
AbortFlow(f, s) ==
    /\ s \in flow[f].bound /\ flow[f].lease = s
    /\ Finish(f)
    /\ UNCHANGED <<req, ended, slots, counts, rt, raced>>

\* The control channel of an ended session aborts its bindings, which arms the
\* migration timer of the flows this lease still carries.
beginMigration(f, s) ==
    /\ s \in ended /\ s \in flow[f].bound
    /\ flow' = [flow EXCEPT ![f].bound = @ \ {s},
                   ![f].timer = IF flow[f].lease = s THEN {<<s, 1 - flow[f].gen>>} ELSE @,
                   ![f].gen = IF flow[f].lease = s THEN 1 - @ ELSE @]
    /\ UNCHANGED <<req, ended, slots, counts, rt, raced>>

\* The timer's callback checks the lease and the generation under the lock; it
\* then finishes the flow without it, whatever a resume has done meanwhile.
TimerExpires(f) ==
    /\ <<flow[f].lease, flow[f].gen>> \in flow[f].timer
    /\ flow' = [flow EXCEPT ![f].timer = {}, ![f].expired = TRUE]
    /\ UNCHANGED <<req, ended, slots, counts, rt, raced>>

MigrationExpired(f) ==
    /\ flow[f].expired
    /\ flow' = [flow EXCEPT ![f] = [(IF @.fin = "no" THEN Unlisted(@) ELSE @)
                                    EXCEPT !.expired = FALSE]]
    /\ UNCHANGED <<req, ended, slots, counts, rt, raced>>

\* ContinuityRuntime.Close: refuse new flows, finish the listed ones, wait for
\* their relays, and close the registry with whatever it still holds.
CloseRuntime ==
    /\ rt = "open" /\ rt' = "closing"
    /\ UNCHANGED <<req, ended, slots, flow, counts, raced>>

CloseFlow(f) ==
    /\ rt = "closing" /\ flow[f].table /\ Finish(f)
    /\ UNCHANGED <<req, ended, slots, counts, rt, raced>>

CloseRegistry ==
    /\ rt = "closing" /\ \A f \in Requests : ~flow[f].run /\ flow[f].fin # "begun"
    /\ \A f \in Requests : flow[f].table => f \in raced
    /\ rt' = "closed"
    /\ flow' = [f \in Requests |-> [flow[f] EXCEPT !.reg = FALSE,
                                       !.target = IF flow[f].reg THEN FALSE ELSE @]]
    /\ counts' = [u \in Users |-> 0]
    /\ UNCHANGED <<req, ended, slots, raced>>

---------------------------------------------------------------------------
RequestSteps(i) ==
    \/ ClusterRequest(i) \/ LimitTCP(i) \/ DialFails(i) \/ dialResolved(i)
    \/ AcceptFails(i) \/ handleTCPIncoming(i) \/ RelayEnds(i)
    \/ acquireUDPAssociation(i) \/ LimitUDP(i) \/ handleUDPIncoming(i) \/ UDPRelayEnds(i)
    \/ CreateFlow(i) \/ RegisterNew(i) \/ AdmitNew(i)
    \/ Resume(i) \/ AttachFlow(i) \/ ReadControl(i) \/ RegisterResumed(i)
    \/ ReplaceFails(i) \/ replace(i) \/ Conflict(i)

FlowSteps(f) ==
    \/ FinishFlow(f) \/ run(f) \/ TimerExpires(f) \/ MigrationExpired(f) \/ CloseFlow(f)
    \/ \E s \in CarrierSessions : AbortFlow(f, s) \/ beginMigration(f, s)

ProxyNext ==
    \/ \E i \in Requests : RequestSteps(i) \/ FlowSteps(i)
    \/ \E i \in Requests, s \in CarrierSessions, k \in Kinds : Serve(i, s, k)
    \/ \E s \in CarrierSessions : CarrierEnds(s)
    \/ CloseRuntime \/ CloseRegistry

ProxySpec == ProxyInit /\ [][ProxyNext]_proxyVars

---------------------------------------------------------------------------
HoldsTCP(i) == \/ At(i, {"tcp"}, "dial") \/ At(i, {"tcp"}, "accept") \/ At(i, {"tcp"}, "relay")
               \/ At(i, {"new"}, "dial") \/ At(i, {"new"}, "accept") \/ flow[i].slot
HoldsUDP(i) == At(i, {"udp"}, "listen") \/ At(i, {"udp"}, "relay")
OnSession(s) == {i \in Requests : req[i].session = s /\ req[i].pc \notin {"idle", "done"}}
OwnedBy(u)   == {i \in Requests : req[i].session # NoLease /\ UserOf(i) = u}

\* The limiter's counters (ReleaseTCP, ReleaseUDP, whose guards would hide a
\* double release) and Serve's semaphores always equal the handlers and flows
\* that hold a slot, per user and in total, whatever way a flow was ended.
SlotsMatchHolders ==
    /\ \A u \in Users :
          /\ slots.tcpOf[u] = Cardinality({i \in OwnedBy(u) : HoldsTCP(i)})
          /\ slots.udpOf[u] = Cardinality({i \in OwnedBy(u) : HoldsUDP(i)})
    /\ slots.tcp = Cardinality({i \in Requests : HoldsTCP(i)})
    /\ slots.udp = Cardinality({i \in Requests : HoldsUDP(i)})
    /\ \A s \in CarrierSessions :
          /\ slots.sem[s] = Cardinality(OnSession(s))
          /\ slots.udpSem[s] = Cardinality({i \in OnSession(s) : req[i].kind = "udp"
                                                       /\ req[i].pc # "handle"})

\* FlowRegistry.principalCounts is the number of records of each principal, so
\* the capacity of Create is neither lost nor exceeded; a record outlives its
\* owner (a handler admitting it, the runtime's map, a running finish) only
\* never: nothing stays registered that no one will release.
RegistryCountsFlows ==
    /\ \A u \in Users : counts[u] = Cardinality(OfUser(u))
    /\ \A f \in Registered : \/ req[f].pc \in {"register", "publish"}
                             \/ flow[f].table \/ flow[f].fin = "begun"

\* A flow that has finished leaves nothing behind: no entry in the runtime's
\* map, no open stream or target, no slot, and no handler on a control channel
\* but one a resume in progress will withdraw.
FinishedLeavesNothing ==
    \A f \in Requests :
       /\ flow[f].fin = "done" => /\ ~flow[f].stream /\ ~flow[f].slot
                                  /\ ~flow[f].reg /\ ~flow[f].target
       /\ flow[f].fin = "done" /\ f \notin raced =>
            /\ ~flow[f].table
            /\ \A s \in flow[f].bound :
                 \E i \in Requests : At(i, {"resume"}, "replace") /\ req[i].flow = f
                                                 /\ s \in {req[i].session, req[i].old}

\* Every counter that admits a stream or a flow counts exactly those it admitted.
CountsMatchHolders == SlotsMatchHolders /\ RegistryCountsFlows
=============================================================================
