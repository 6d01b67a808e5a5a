----------------------------- MODULE ProxyProofs -----------------------------
(***************************************************************************)
(* Proofs about the server side of a session (ProxyServer): the counters   *)
(* of the limiter, of Serve's semaphores and of the flow registry count    *)
(* exactly what they admitted, and a finished flow leaves nothing behind.  *)
(* The invariant and the simpler steps are in ProxyInvariant.              *)
(***************************************************************************)
EXTENDS ProxyInvariant

-----------------------------------------------------------------------------
(* The registry's Release, and the steps that admit or finish a flow.      *)

\* The records a and b differ at most in reg and target.
SameButRecord(a, b) ==
    /\ b.table = a.table /\ b.control = a.control /\ b.bound = a.bound /\ b.timer = a.timer
    /\ b.stream = a.stream /\ b.slot = a.slot /\ b.run = a.run /\ b.fin = a.fin
    /\ b.expired = a.expired

\* The counts move with the record of flow f.
CountsMove(f, after) ==
    /\ counts' \in [Users -> Nat]
    /\ \A u \in Users : counts'[u] = counts[u]
          + (IF u = UserOf(f) THEN Delta(flow[f].reg, after) ELSE 0)

\* Release removes the record and its count, if they are still there.
LEMMA ReleaseDoes ==
    ASSUME ProxyInv, NEW f \in Requests, NEW fl \in FlowRecs, fl.reg = flow[f].reg,
           fl.target => fl.reg, UserOf(f) \in Users, ReleaseFlow(f, fl)
    PROVE  /\ CountsMove(f, FALSE)
           /\ \E q \in FlowRecs : /\ flow' = [flow EXCEPT ![f] = q] /\ SameButRecord(fl, q)
                                  /\ ~q.reg /\ ~q.target
  <1>1. counts \in [Users -> Nat] /\ ProxyTyped
    BY DEF ProxyInv, ProxyTyped
  <1>2. CASE rt # "closed" /\ fl.reg
    <2> DEFINE q == [fl EXCEPT !.reg = FALSE, !.target = FALSE]
    <2>1. q \in FlowRecs /\ SameButRecord(fl, q) /\ ~q.reg /\ ~q.target
      BY Zenon DEF FlowRecs, SameButRecord
    <2>2. /\ flow' = [flow EXCEPT ![f] = q]
          /\ counts' = [counts EXCEPT ![UserOf(f)] = IF counts[UserOf(f)] <= 1 THEN 0
                                                     ELSE counts[UserOf(f)] - 1]
      BY <1>2 DEF ReleaseFlow
    <2>3. counts[UserOf(f)] >= 1
      BY <1>1, <1>2, RecordCounted, Zenon DEF ProxyInv
    <2>4. CountsMove(f, FALSE)
      BY <1>1, <1>2, <2>2, <2>3 DEF CountsMove, Delta
    <2> HIDE DEF q
    <2> QED
      BY <2>1, <2>2, <2>4, Zenon
  <1>3. CASE ~(rt # "closed" /\ fl.reg)
    <2>1. ~flow[f].reg /\ ~fl.reg
      BY <1>3 DEF ProxyInv
    <2>2. flow' = [flow EXCEPT ![f] = fl] /\ counts' = counts
      BY <1>3 DEF ReleaseFlow
    <2>3. CountsMove(f, FALSE)
      BY <1>1, <2>1, <2>2 DEF CountsMove, Delta
    <2> QED
      BY <2>1, <2>2, <2>3, Zenon DEF SameButRecord
  <1> QED
    BY <1>2, <1>3, Zenon

\* A step of the request that created flow i, or of the flow's finish.
LEMMA OwnFlowStep ==
    ASSUME ProxyInv, NEW i \in Requests, NEW q \in FlowRecs, flow' = [flow EXCEPT ![i] = q],
           req[i].pc # "idle", req[i].kind # "resume",
           req' \in [Requests -> ReqRecs], req'[i].session = req[i].session,
           \A j \in Requests \ {i} : req'[j] = req[j],
           \A j \in Requests : Staged(req'[j]) /\ Resumes(j)', req'[i].kind # "resume",
           Matches(req'[i], q), rt' = rt, rt = "closed" => ~q.reg, CountsMove(i, q.reg),
           SlotsMove(req[i].session,
                     Delta(HoldsTCP(i), HoldsTCP(i)'), Delta(HoldsUDP(i), HoldsUDP(i)'),
                     Delta(Live(i), Live(i)'), Delta(Associated(i), Associated(i)')),
           raced \subseteq raced', i \notin raced' => (Bindings(i) => Bindings(i)')
    PROVE  ProxyInv'
  <1>1. /\ flow \in [Requests -> FlowRecs] /\ flow' \in [Requests -> FlowRecs] /\ flow'[i] = q
        /\ \A j \in Requests \ {i} : flow'[j] = flow[j]
    BY DEF ProxyInv, ProxyTyped
  <1>2. ProxyTyped'
    BY <1>1 DEF ProxyInv, ProxyTyped, SlotsMove, Moves, CountsMove
  <1>3. \A j \in Requests : Matches(req'[j], flow'[j])
    BY <1>1 DEF ProxyInv
  <1>4. rt' = "closed" => \A j \in Requests : ~flow'[j].reg
    BY <1>1 DEF ProxyInv
  <1>5. ASSUME NEW g \in Requests \ raced'
        PROVE  Bindings(g)'
    <2>1. Bindings(g)
      BY <1>5 DEF ProxyInv
    <2>2. CASE g = i
      BY <2>1, <2>2, <1>5
    <2>3. CASE g # i
      <3>1. ResumesKept(g)
        BY DEF ResumesKept, ResumeAt
      <3>2. BindingsShrink(g)
        BY <1>1, <2>3 DEF BindingsShrink
      <3> QED
        BY <2>1, <3>1, <3>2, BindingsKept
    <2> QED
      BY <2>2, <2>3
  <1>6. SlotsMatchHolders'
    <2>1. req[i].session \in CarrierSessions
      BY DEF ProxyInv, Staged
    <2>2. \A j \in Requests \ {i} : req'[j] = req[j] /\ flow'[j].slot = flow[j].slot
      BY <1>1
    <2> QED
      BY <1>1, <2>1, <2>2, SlotsFollow DEF ProxyInv
  <1>7. \A u \in Users : counts'[u] = Cardinality(OfUser(u)')
    <2>1. \A j \in Requests : req'[j].session = req[j].session
      OBVIOUS
    <2>2. \A j \in Requests \ {i} : flow'[j].reg = flow[j].reg
      BY <1>1
    <2>3. \A u \in Users : counts'[u] = counts[u]
                 + (IF u = UserOf(i) THEN Delta(flow[i].reg, flow'[i].reg) ELSE 0)
      BY <1>1 DEF CountsMove
    <2> QED
      BY <1>1, <2>1, <2>2, <2>3, CountsFollow DEF ProxyInv
  <1> QED
    BY <1>2, <1>3, <1>4, <1>5, <1>6, <1>7 DEF ProxyInv

\* The resumes of the flow that request i created are other requests.
LEMMA OwnResumesKept ==
    ASSUME NEW i \in Requests, req[i].kind # "resume", req'[i].kind # "resume",
           \A j \in Requests \ {i} : req'[j] = req[j]
    PROVE  ResumesKept(i)
  BY DEF ResumesKept, ResumeAt

\* The second half of finish.
LEMMA FinishFlowKeeps ==
    ASSUME ProxyInv, NEW f \in Requests, FinishFlow(f)
    PROVE  ProxyInv'
  <1> DEFINE fl == [flow[f] EXCEPT !.fin = "done", !.stream = FALSE, !.slot = FALSE]
  <1>1. flow[f] \in FlowRecs /\ flow[f].fin = "begun" /\ Matches(req[f], flow[f])
    BY DEF ProxyInv, ProxyTyped, FinishFlow
  <1>2. /\ fl \in FlowRecs /\ fl.reg = flow[f].reg /\ fl.target = flow[f].target
        /\ fl.table = flow[f].table /\ fl.control = flow[f].control /\ fl.bound = flow[f].bound
        /\ fl.fin = "done" /\ ~fl.stream /\ ~fl.slot
    BY <1>1, Zenon DEF FlowRecs
  <1>3. ReleaseFlow(f, fl) /\ UNCHANGED <<req, rt, raced>>
        /\ slots' = IF flow[f].slot THEN ReleaseTCP(slots, UserOf(f)) ELSE slots
    BY DEF FinishFlow
  <1> HIDE DEF fl
  <1>4. Created(req[f]) /\ req[f].pc # "register"
    BY <1>1, Admitted DEF Quiet
  <1>5. req[f].session \in CarrierSessions /\ UserOf(f) \in Users
    BY <1>4, Working DEF Created
  <1>6. CountsMove(f, FALSE)
    BY <1>1, <1>2, <1>3, <1>5, ReleaseDoes, Zenon DEF Matches
  <1>7. PICK q \in FlowRecs : /\ flow' = [flow EXCEPT ![f] = q] /\ SameButRecord(fl, q)
                              /\ ~q.reg /\ ~q.target
    BY <1>1, <1>2, <1>3, <1>5, ReleaseDoes, Zenon DEF Matches
  <1>8. flow'[f] = q
    BY <1>7 DEF ProxyInv, ProxyTyped
  <1>9. Matches(req[f], q)
    BY <1>1, <1>2, <1>4, <1>7 DEF Matches, SameButRecord
  <1>10. /\ HoldsTCP(f) <=> flow[f].slot
         /\ ~HoldsTCP(f)'
         /\ HoldsUDP(f)' <=> HoldsUDP(f)
         /\ Live(f)' <=> Live(f)
         /\ Associated(f)' <=> Associated(f)
    BY <1>2, <1>3, <1>4, <1>7, <1>8 DEF HoldsTCP, HoldsUDP, At, Created, Live, Associated, SameButRecord
  <1>11. SlotsMove(req[f].session, IF flow[f].slot THEN -1 ELSE 0, 0, 0, 0)
    <2>1. CASE flow[f].slot
      BY <1>3, <1>4, <1>5, <1>10, <2>1, LeaveHolding, Working DEF Created
    <2>2. CASE ~flow[f].slot
      BY <1>3, <1>4, <1>5, <2>2, MovesNot, Working DEF Created, SlotsMove
    <2> QED
      BY <2>1, <2>2
  <1>12. SlotsMove(req[f].session,
                   Delta(HoldsTCP(f), HoldsTCP(f)'), Delta(HoldsUDP(f), HoldsUDP(f)'),
                   Delta(Live(f), Live(f)'), Delta(Associated(f), Associated(f)'))
    BY <1>10, <1>11 DEF Delta
  <1>13. BindingsShrink(f)
    BY <1>1, <1>2, <1>7, <1>8 DEF BindingsShrink, SameButRecord
  <1>14. Bindings(f) => Bindings(f)'
    BY <1>3, <1>13, SameResumes, BindingsKept
  <1>15. \A j \in Requests : Staged(req'[j]) /\ Resumes(j)'
    BY <1>3 DEF ProxyInv, Resumes
  <1>16. req' \in [Requests -> ReqRecs] /\ req' = req /\ req[f].kind = "new" /\ req[f].pc # "idle"
    BY <1>3, <1>4 DEF ProxyInv, ProxyTyped, Created
  <1>17. CountsMove(f, q.reg)
    BY <1>6, <1>7 DEF CountsMove, Delta
  <1> QED
    BY <1>3, <1>7, <1>9, <1>12, <1>14, <1>15, <1>16, <1>17, OwnFlowStep, Zenon

\* The registry creates the record, or the handler gives all back.
LEMMA CreateFlowKeeps ==
    ASSUME ProxyInv, NEW i \in Requests, CreateFlow(i)
    PROVE  ProxyInv'
  <1> DEFINE s == req[i].session
             q == [NoFlow EXCEPT !.reg = TRUE, !.epoch = 1, !.record = s, !.control = s,
                                 !.lease = s, !.stream = TRUE, !.target = TRUE, !.slot = TRUE]
  <1>1. req[i].kind = "new" /\ req[i].pc = "accept" /\ UNCHANGED <<rt, raced>>
    BY DEF CreateFlow, At
  <1>2. ~Created(req[i]) /\ s \in CarrierSessions /\ UserOf(i) \in Users /\ ProxyTyped
    BY <1>1, Working DEF Created
  <1>3. CASE /\ rt # "closed" /\ flow' = [flow EXCEPT ![i] = q]
             /\ counts' = [counts EXCEPT ![UserOf(i)] = @ + 1]
             /\ req' = [req EXCEPT ![i].pc = "register", ![i].target = FALSE]
             /\ UNCHANGED slots
    <2>1. Advance(i, "register", req[i].old)
      BY <1>2, <1>3, Advances, Zenon DEF Stages
    <2>2. /\ q \in FlowRecs /\ q.reg /\ q.slot /\ q.target /\ q.control = s /\ q.bound = {}
          /\ Quiet(q)
      BY <1>2, Zenon DEF FlowRecs, NoFlow, Leases, Quiet
    <2> HIDE DEF q
    <2>3. Matches(req'[i], q)
      BY <1>1, <2>1, <2>2 DEF Matches, Created, Quiet, Advance
    <2>4. Staged(req'[i])
      BY <1>1, <1>2, <2>1 DEF Staged, Advance, Resuming
    <2>5. \A j \in Requests : Staged(req'[j]) /\ Resumes(j)'
      <3>1. ASSUME NEW j \in Requests
            PROVE  Staged(req'[j])
        BY <2>1, <2>4 DEF ProxyInv, Advance
      <3>2. ASSUME NEW j \in Requests
            PROVE  Resumes(j)'
        <4>1. Resumes(j)
          BY DEF ProxyInv
        <4> QED
          BY <1>1, <2>1, <4>1 DEF Resumes, Advance
      <3> QED
        BY <3>1, <3>2
    <2>6. ~flow[i].reg /\ ~flow[i].slot /\ flow[i].fin = "no" /\ HoldsTCP(i)
      BY <1>1, <1>2, NoFlowHolds DEF Quiet
    <2>7. flow'[i] = q
      BY <1>3 DEF ProxyInv, ProxyTyped
    <2>8. HoldsTCP(i)' /\ (HoldsUDP(i)' <=> HoldsUDP(i)) /\ (Live(i)' <=> Live(i))
                       /\ (Associated(i)' <=> Associated(i))
      BY <1>1, <2>1, <2>2, <2>7 DEF HoldsTCP, HoldsUDP, At, Live, Associated, Advance
    <2>9. SlotsMove(s, Delta(HoldsTCP(i), HoldsTCP(i)'), Delta(HoldsUDP(i), HoldsUDP(i)'),
                    Delta(Live(i), Live(i)'), Delta(Associated(i), Associated(i)'))
      <3>1. SlotsMove(s, 0, 0, 0, 0)
        BY <1>1, <1>3, HandlerMoves
      <3> QED
        BY <2>6, <2>8, <3>1 DEF Delta
    <2>10. CountsMove(i, q.reg)
      BY <1>2, <1>3, <2>2, <2>6 DEF CountsMove, Delta, ProxyTyped
    <2>11. Bindings(i) => Bindings(i)'
      <3>1. ResumesKept(i)
        BY <1>1, <2>1, OwnResumesKept DEF Advance
      <3>2. ASSUME NEW j \in Requests
            PROVE  ~ResumeAt(j, i, "replace") /\ ~ResumeAt(j, i, "bind")
        BY <1>1 DEF ProxyInv, Resumes, ResumeAt, Resuming
      <3>3. Replacing(i)' = {} /\ \A j \in Requests : ~ResumeAt(j, i, "bind")'
        BY <3>1, <3>2 DEF ResumesKept, Replacing
      <3> QED
        BY <2>2, <2>7, <3>3 DEF Bindings, Quiet
    <2> QED
      BY <1>1, <1>3, <2>1, <2>2, <2>3, <2>5, <2>9, <2>10, <2>11, OwnFlowStep, Zenon DEF Advance
  <1>4. CASE /\ req' = [req EXCEPT ![i].pc = "done", ![i].target = FALSE]
             /\ slots' = Leave(ReleaseTCP(slots, UserOf(i)), i)
             /\ UNCHANGED <<flow, counts>>
    <2>1. Advance(i, "done", req[i].old) /\ "done" \in Stages
      BY <1>2, <1>4, Advances, Zenon DEF Stages
    <2>2. SlotsMove(s, -1, 0, -1, 0)
      BY <1>1, <1>4, HandlerMoves DEF TcpAt
    <2>3. /\ Delta(TcpAt("new", "accept"), TcpAt("new", "done")) = -1
          /\ Delta(UdpAt("new", "accept"), UdpAt("new", "done")) = 0
          /\ Delta(LiveAt("new", "accept"), LiveAt("new", "done")) = -1
          /\ Delta(AssocAt("new", "accept"), AssocAt("new", "done")) = 0
      BY DEF Delta, TcpAt, UdpAt, LiveAt, AssocAt
    <2> QED
      BY <1>1, <1>4, <2>1, <2>2, <2>3, HandlerStep DEF Resuming
  <1> QED
    BY <1>3, <1>4 DEF CreateFlow

\* What the two later steps of an admission share: no one else's stage moves.
LEMMA AdmissionLocal ==
    ASSUME ProxyInv, NEW i \in Requests, NEW pc, req[i].kind = "new",
           req[i].pc \in {"register", "publish"}, pc \in {"publish", "done"},
           Advance(i, pc, req[i].old)
    PROVE  /\ \A j \in Requests : Staged(req'[j]) /\ Resumes(j)'
           /\ ResumesKept(i)
           /\ req'[i].kind = "new" /\ req'[i].pc = pc /\ req'[i].session = req[i].session
           /\ req' \in [Requests -> ReqRecs] /\ \A j \in Requests \ {i} : req'[j] = req[j]
           /\ HoldsTCP(i) <=> flow[i].slot
           /\ HoldsTCP(i)' <=> flow'[i].slot
           /\ ~HoldsUDP(i) /\ ~HoldsUDP(i)' /\ ~Associated(i) /\ ~Associated(i)'
           /\ Live(i) /\ (Live(i)' <=> pc # "done")
  <1>1. /\ req'[i].kind = "new" /\ req'[i].pc = pc /\ req'[i].session = req[i].session
        /\ req' \in [Requests -> ReqRecs] /\ \A j \in Requests \ {i} : req'[j] = req[j]
    BY DEF Advance
  <1>2. req[i].session \in CarrierSessions
    BY Working
  <1>3. Staged(req'[i])
    BY <1>1, <1>2 DEF Staged, Resuming
  <1>4. ASSUME NEW j \in Requests
        PROVE  Staged(req'[j])
    BY <1>1, <1>3 DEF ProxyInv
  <1>5. ASSUME NEW j \in Requests
        PROVE  Resumes(j)'
    <2>1. Resumes(j)
      BY DEF ProxyInv
    <2> QED
      BY <1>1, <2>1 DEF Resumes
  <1>6. ResumesKept(i)
    BY <1>1, OwnResumesKept
  <1>7. /\ HoldsTCP(i) <=> flow[i].slot
        /\ HoldsTCP(i)' <=> flow'[i].slot
    BY <1>1 DEF HoldsTCP, At
  <1>8. /\ ~HoldsUDP(i) /\ ~HoldsUDP(i)' /\ ~Associated(i) /\ ~Associated(i)'
        /\ Live(i) /\ (Live(i)' <=> pc # "done")
    BY <1>1 DEF HoldsUDP, At, Associated, Live
  <1> QED
    BY <1>1, <1>4, <1>5, <1>6, <1>7, <1>8

\* A new flow is bound to its control channel, or undone.
LEMMA RegisterNewKeeps ==
    ASSUME ProxyInv, NEW i \in Requests, RegisterNew(i)
    PROVE  ProxyInv'
  <1> DEFINE s == req[i].session
  <1>1. /\ req[i].kind = "new" /\ req[i].pc = "register" /\ UNCHANGED <<rt, raced>>
        /\ flow[i] \in FlowRecs /\ Matches(req[i], flow[i]) /\ ProxyTyped
    BY DEF RegisterNew, At, ProxyInv, ProxyTyped
  <1>2. s \in CarrierSessions /\ UserOf(i) \in Users /\ slots \in SlotRecs /\ SlotsMatchHolders
    BY <1>1, Working
  <1>3. Quiet(flow[i]) /\ flow[i].slot /\ flow[i].control = s
    BY <1>1 DEF Matches
  <1>4. CASE flow' = [flow EXCEPT ![i].bound = {s}] /\ Step(i, "publish")
                                                    /\ UNCHANGED <<slots, counts>>
    <2> DEFINE q == [flow[i] EXCEPT !.bound = {s}]
    <2>1. Advance(i, "publish", req[i].old)
      BY <1>1, <1>4, Advances, Zenon DEF Stages
    <2>2. flow' = [flow EXCEPT ![i] = q]
      BY <1>4
    <2>3. /\ q \in FlowRecs /\ q.bound = {s} /\ q.control = s /\ q.slot = flow[i].slot
          /\ q.reg = flow[i].reg /\ q.target = flow[i].target /\ q.table = flow[i].table
          /\ q.fin = flow[i].fin /\ q.stream = flow[i].stream
      BY <1>1, <1>2, <1>3, Zenon DEF FlowRecs
    <2>4. flow'[i] = q
      BY <1>1, <2>2 DEF ProxyTyped
    <2> HIDE DEF q
    <2>5. Matches(req'[i], q)
      BY <1>1, <1>3, <2>1, <2>3, SMTT(30) DEF Matches, Created, Quiet, Advance
    <2>6. SlotsMove(s, Delta(HoldsTCP(i), HoldsTCP(i)'), Delta(HoldsUDP(i), HoldsUDP(i)'),
                    Delta(Live(i), Live(i)'), Delta(Associated(i), Associated(i)'))
      <3>1. SlotsMove(s, 0, 0, 0, 0)
        BY <1>1, <1>4, HandlerMoves
      <3> QED
        BY <1>1, <2>1, <2>3, <2>4, <3>1, AdmissionLocal DEF Delta
    <2>7. CountsMove(i, q.reg)
      BY <1>1, <1>4, <2>3 DEF CountsMove, Delta, ProxyTyped
    <2>8. Bindings(i)'
      <3>1. ASSUME NEW j \in Requests
            PROVE  ~ResumeAt(j, i, "replace") /\ ~ResumeAt(j, i, "bind")
        BY <1>1 DEF ProxyInv, Resumes, ResumeAt, Resuming
      <3>2. Replacing(i)' = {} /\ \A j \in Requests : ~ResumeAt(j, i, "bind")'
        BY <1>1, <2>1, <3>1, AdmissionLocal DEF ResumesKept, Replacing
      <3> QED
        BY <1>3, <2>3, <2>4, <3>2 DEF Bindings, Quiet
    <2>9. rt = "closed" => ~q.reg
      BY <2>3 DEF ProxyInv
    <2> QED
      BY <1>1, <2>1, <2>2, <2>3, <2>5, <2>6, <2>7, <2>8, <2>9, AdmissionLocal, OwnFlowStep, Zenon
  <1>5. CASE /\ ReleaseFlow(i, [flow[i] EXCEPT !.stream = FALSE, !.slot = FALSE])
             /\ Step(i, "done") /\ slots' = Leave(ReleaseTCP(slots, UserOf(i)), i)
    <2> DEFINE fl == [flow[i] EXCEPT !.stream = FALSE, !.slot = FALSE]
    <2>1. Advance(i, "done", req[i].old)
      BY <1>1, <1>5, Advances, Zenon DEF Stages
    <2>2. /\ fl \in FlowRecs /\ fl.bound = flow[i].bound /\ fl.control = flow[i].control
          /\ ~fl.slot /\ ~fl.stream /\ fl.reg = flow[i].reg /\ fl.target = flow[i].target
          /\ fl.table = flow[i].table /\ fl.fin = flow[i].fin
      BY <1>1, Zenon DEF FlowRecs
    <2>3. ReleaseFlow(i, fl)
      BY <1>5
    <2> HIDE DEF fl
    <2>4. /\ CountsMove(i, FALSE)
          /\ \E q \in FlowRecs : /\ flow' = [flow EXCEPT ![i] = q] /\ SameButRecord(fl, q)
                                 /\ ~q.reg /\ ~q.target
      BY <1>1, <1>2, <2>2, <2>3, ReleaseDoes, Zenon DEF Matches
    <2>5. PICK q \in FlowRecs : /\ flow' = [flow EXCEPT ![i] = q] /\ SameButRecord(fl, q)
                                /\ ~q.reg /\ ~q.target
      BY <2>4, Zenon
    <2>6. flow'[i] = q
      BY <1>1, <2>5 DEF ProxyTyped
    <2>7. Matches(req'[i], q)
      BY <1>1, <1>3, <2>1, <2>2, <2>5 DEF Matches, Created, Quiet, Advance, SameButRecord
    <2>8. SlotsMove(s, Delta(HoldsTCP(i), HoldsTCP(i)'), Delta(HoldsUDP(i), HoldsUDP(i)'),
                    Delta(Live(i), Live(i)'), Delta(Associated(i), Associated(i)'))
      <3>1. /\ HoldsTCP(i) /\ ~HoldsTCP(i)' /\ ~HoldsUDP(i) /\ ~HoldsUDP(i)'
            /\ Live(i) /\ ~Live(i)' /\ ~Associated(i) /\ ~Associated(i)'
        BY <1>1, <1>3, <2>1, <2>2, <2>5, <2>6, AdmissionLocal DEF SameButRecord
      <3>2. SlotsMove(s, -1, 0, -1, 0)
        BY <1>2, <1>5, <3>1, LeaveHolding
      <3> QED
        BY <3>1, <3>2, SMTT(30) DEF Delta
    <2>9. CountsMove(i, q.reg)
      BY <2>4, <2>5 DEF CountsMove, Delta
    <2>10. BindingsShrink(i)
      BY <2>2, <2>5, <2>6, SMTT(30) DEF BindingsShrink, SameButRecord
    <2>11. Bindings(i) => Bindings(i)'
      BY <1>1, <2>1, <2>10, AdmissionLocal, BindingsKept
    <2> QED
      BY <1>1, <2>1, <2>5, <2>7, <2>8, <2>9, <2>11, AdmissionLocal, OwnFlowStep, Zenon
  <1> QED
    BY <1>4, <1>5 DEF RegisterNew

\* A new flow enters the runtime's map, or is undone.
LEMMA AdmitNewKeeps ==
    ASSUME ProxyInv, NEW i \in Requests, AdmitNew(i)
    PROVE  ProxyInv'
  <1> DEFINE s == req[i].session
  <1>1. /\ req[i].kind = "new" /\ req[i].pc = "publish" /\ UNCHANGED rt /\ Step(i, "done")
        /\ flow[i] \in FlowRecs /\ Matches(req[i], flow[i]) /\ ProxyTyped
    BY DEF AdmitNew, At, ProxyInv, ProxyTyped
  <1>2. s \in CarrierSessions /\ UserOf(i) \in Users /\ slots \in SlotRecs /\ SlotsMatchHolders
    BY <1>1, Working
  <1>3. Advance(i, "done", req[i].old)
    BY <1>1, Advances, Zenon DEF Stages
  <1>4. CASE /\ flow' = [flow EXCEPT ![i].table = TRUE, ![i].run = TRUE]
             /\ slots' = Leave(slots, i) /\ UNCHANGED counts
             /\ raced' = IF flow[i].fin = "no" THEN raced ELSE raced \cup {i}
    <2> DEFINE q == [flow[i] EXCEPT !.table = TRUE, !.run = TRUE]
    <2>1. flow' = [flow EXCEPT ![i] = q]
      BY <1>4, Zenon
    <2>2. /\ q \in FlowRecs /\ q.bound = flow[i].bound /\ q.control = flow[i].control
          /\ q.slot = flow[i].slot /\ q.reg = flow[i].reg /\ q.target = flow[i].target
          /\ q.table /\ q.fin = flow[i].fin /\ q.stream = flow[i].stream
      BY <1>1, Zenon DEF FlowRecs
    <2>3. flow'[i] = q
      BY <1>1, <2>1 DEF ProxyTyped
    <2> HIDE DEF q
    <2>4. Matches(req'[i], q)
      BY <1>1, <1>3, <2>2, SMTT(30) DEF Matches, Created, Advance
    <2>5. SlotsMove(s, Delta(HoldsTCP(i), HoldsTCP(i)'), Delta(HoldsUDP(i), HoldsUDP(i)'),
                    Delta(Live(i), Live(i)'), Delta(Associated(i), Associated(i)'))
      <3>1. SlotsMove(s, 0, 0, -1, 0)
        BY <1>1, <1>4, HandlerMoves
      <3> QED
        BY <1>1, <1>3, <2>2, <2>3, <3>1, AdmissionLocal DEF Delta
    <2>6. CountsMove(i, q.reg)
      BY <1>1, <1>4, <2>2 DEF CountsMove, Delta, ProxyTyped
    <2>7. raced \subseteq raced' /\ (i \notin raced' => flow[i].fin = "no")
      BY <1>4
    <2>8. i \notin raced' => BindingsShrink(i)
      BY <2>2, <2>3, <2>7 DEF BindingsShrink
    <2>9. i \notin raced' => (Bindings(i) => Bindings(i)')
      BY <1>1, <1>3, <2>8, AdmissionLocal, BindingsKept
    <2>10. rt = "closed" => ~q.reg
      BY <2>2 DEF ProxyInv
    <2> QED
      BY <1>1, <1>3, <2>1, <2>2, <2>4, <2>5, <2>6, <2>7, <2>9, <2>10, AdmissionLocal, OwnFlowStep, Zenon
  <1>5. CASE /\ ReleaseFlow(i, [flow[i] EXCEPT !.bound = @ \ {s}, !.stream = FALSE, !.slot = FALSE])
             /\ slots' = Leave(IF flow[i].slot THEN ReleaseTCP(slots, UserOf(i)) ELSE slots, i)
             /\ UNCHANGED raced
    <2> DEFINE b  == flow[i].bound \ {s}
               fl == [flow[i] EXCEPT !.bound = b, !.stream = FALSE, !.slot = FALSE]
    <2>1. b \in SUBSET CarrierSessions /\ b \subseteq flow[i].bound
      BY <1>1 DEF FlowRecs
    <2>2. ReleaseFlow(i, fl)
      BY <1>5
    <2> HIDE DEF b
    <2>3. /\ fl \in FlowRecs /\ fl.bound = b /\ fl.control = flow[i].control
          /\ ~fl.slot /\ ~fl.stream /\ fl.reg = flow[i].reg /\ fl.target = flow[i].target
          /\ fl.table = flow[i].table /\ fl.fin = flow[i].fin
      BY <1>1, <2>1, Zenon DEF FlowRecs
    <2> HIDE DEF fl
    <2>4. /\ CountsMove(i, FALSE)
          /\ \E q \in FlowRecs : /\ flow' = [flow EXCEPT ![i] = q] /\ SameButRecord(fl, q)
                                 /\ ~q.reg /\ ~q.target
      BY <1>1, <1>2, <2>2, <2>3, ReleaseDoes, Zenon DEF Matches
    <2>5. PICK q \in FlowRecs : /\ flow' = [flow EXCEPT ![i] = q] /\ SameButRecord(fl, q)
                                /\ ~q.reg /\ ~q.target
      BY <2>4, Zenon
    <2>6. flow'[i] = q
      BY <1>1, <2>5 DEF ProxyTyped
    <2>7. Matches(req'[i], q)
      BY <1>1, <1>3, <2>3, <2>5, SMTT(30) DEF Matches, Created, Advance, SameButRecord
    <2>8. SlotsMove(s, Delta(HoldsTCP(i), HoldsTCP(i)'), Delta(HoldsUDP(i), HoldsUDP(i)'),
                    Delta(Live(i), Live(i)'), Delta(Associated(i), Associated(i)'))
      <3>1. /\ HoldsTCP(i) <=> flow[i].slot
            /\ ~HoldsTCP(i)' /\ ~HoldsUDP(i) /\ ~HoldsUDP(i)'
            /\ Live(i) /\ ~Live(i)' /\ ~Associated(i) /\ ~Associated(i)'
        BY <1>1, <1>3, <2>3, <2>5, <2>6, AdmissionLocal DEF SameButRecord
      <3>2. SlotsMove(s, IF flow[i].slot THEN -1 ELSE 0, 0, -1, 0)
        <4>1. CASE flow[i].slot
          BY <1>2, <1>5, <3>1, <4>1, LeaveHolding
        <4>2. CASE ~flow[i].slot
          BY <1>1, <1>5, <4>2, HandlerMoves
        <4> QED
          BY <4>1, <4>2
      <3> QED
        BY <3>1, <3>2, SMTT(30) DEF Delta
    <2>9. CountsMove(i, q.reg)
      BY <2>4, <2>5 DEF CountsMove, Delta
    <2>10. BindingsShrink(i)
      BY <2>1, <2>3, <2>5, <2>6, SMTT(30) DEF BindingsShrink, SameButRecord
    <2>11. Bindings(i) => Bindings(i)'
      BY <1>1, <1>3, <2>10, AdmissionLocal, BindingsKept
    <2> QED
      BY <1>1, <1>3, <1>5, <2>5, <2>7, <2>8, <2>9, <2>11, AdmissionLocal, OwnFlowStep, Zenon
  <1> QED
    BY <1>4, <1>5, Zenon DEF AdmitNew

-----------------------------------------------------------------------------
(* The steps of a resume.                                                  *)

\* A resume finds the flow in the map, or is refused.
LEMMA ResumeKeeps ==
    ASSUME ProxyInv, NEW i \in Requests, Resume(i)
    PROVE  ProxyInv'
  <1>1. req[i].kind = "resume" /\ req[i].pc = "handle" /\ UNCHANGED <<flow, counts, rt, raced>>
    BY DEF Resume, At
  <1>2. ProxyTyped
    BY DEF ProxyInv
  <1>3. CASE flow[req[i].flow].table /\ Step(i, "attach") /\ UNCHANGED slots
    <2>1. Advance(i, "attach", req[i].old) /\ "attach" \in Stages
      BY <1>2, <1>3, Advances, Zenon DEF Stages, Resuming
    <2>2. SlotsMove(req[i].session, 0, 0, 0, 0)
      BY <1>1, <1>3, HandlerMoves
    <2>3. req[req[i].flow].pc = "done"
      BY <1>1, <1>3 DEF ProxyInv, Resumes, Matches
    <2>4. /\ Delta(TcpAt("resume", "handle"), TcpAt("resume", "attach")) = 0
          /\ Delta(UdpAt("resume", "handle"), UdpAt("resume", "attach")) = 0
          /\ Delta(LiveAt("resume", "handle"), LiveAt("resume", "attach")) = 0
          /\ Delta(AssocAt("resume", "handle"), AssocAt("resume", "attach")) = 0
      BY DEF Delta, TcpAt, UdpAt, LiveAt, AssocAt
    <2> QED
      BY <1>1, <2>1, <2>2, <2>3, <2>4, HandlerStep
  <1>4. CASE Step(i, "done") /\ slots' = Leave(slots, i)
    <2>1. Advance(i, "done", req[i].old) /\ "done" \in Stages
      BY <1>2, <1>4, Advances, Zenon DEF Stages
    <2>2. SlotsMove(req[i].session, 0, 0, -1, 0)
      BY <1>1, <1>4, HandlerMoves
    <2>3. /\ Delta(TcpAt("resume", "handle"), TcpAt("resume", "done")) = 0
          /\ Delta(UdpAt("resume", "handle"), UdpAt("resume", "done")) = 0
          /\ Delta(LiveAt("resume", "handle"), LiveAt("resume", "done")) = -1
          /\ Delta(AssocAt("resume", "handle"), AssocAt("resume", "done")) = 0
      BY DEF Delta, TcpAt, UdpAt, LiveAt, AssocAt
    <2> QED
      BY <1>1, <2>1, <2>2, <2>3, HandlerStep DEF Resuming
  <1> QED
    BY <1>3, <1>4 DEF Resume

\* A resume in progress names an admitted flow, whose creator is another request.
LEMMA Resumed ==
    ASSUME ProxyInv, NEW i \in Requests, req[i].kind = "resume", req[i].pc \in Resuming
    PROVE  LET f == req[i].flow IN
           /\ f \in Requests /\ f # i /\ req[f].kind = "new" /\ req[f].pc = "done"
           /\ flow[f] \in FlowRecs /\ UserOf(f) \in Users /\ Matches(req[f], flow[f])
           /\ ProxyTyped /\ req[i].session \in CarrierSessions
           /\ ~Created(req[i])
  <1>1. /\ req[i].flow \in Requests /\ req[req[i].flow].kind = "new"
        /\ req[req[i].flow].pc = "done"
    BY DEF ProxyInv, Resumes
  <1>2. req[i].flow # i
    BY <1>1
  <1>3. UserOf(req[i].flow) \in Users
    BY <1>1, Working
  <1>4. req[i].session \in CarrierSessions
    BY Working DEF Resuming
  <1> QED
    BY <1>1, <1>2, <1>3, <1>4 DEF ProxyInv, ProxyTyped, Created

\* A step of a resume, which moves its own stage and the flow it names.
LEMMA ResumeStep ==
    ASSUME ProxyInv, NEW i \in Requests, NEW f, req[i].kind = "resume", req[i].pc \in Resuming,
           f = req[i].flow, NEW pc \in Resuming \cup {"done"}, NEW old, Advance(i, pc, old),
           NEW q \in FlowRecs, flow' = [flow EXCEPT ![f] = q], q.slot = flow[f].slot,
           Matches(req[f], q), rt' = rt, rt = "closed" => ~q.reg, CountsMove(f, q.reg),
           SlotsMove(req[i].session, 0, 0, IF pc = "done" THEN -1 ELSE 0, 0),
           raced \subseteq raced', f \notin raced' => Bindings(f)'
    PROVE  ProxyInv'
  <1>1. f \in Requests /\ f # i /\ req[f].pc = "done" /\ ~Created(req[i])
    BY Resumed
  <1>2. /\ flow \in [Requests -> FlowRecs] /\ flow' \in [Requests -> FlowRecs] /\ flow'[f] = q
        /\ \A j \in Requests \ {f} : flow'[j] = flow[j]
    BY <1>1 DEF ProxyInv, ProxyTyped
  <1>3. /\ req' \in [Requests -> ReqRecs] /\ req'[i].kind = "resume" /\ req'[i].pc = pc
        /\ req'[i].session = req[i].session /\ req'[i].flow = f
        /\ \A j \in Requests \ {i} : req'[j] = req[j]
    BY SMTT(30) DEF Advance
  <1>4. ProxyTyped'
    BY <1>2, <1>3, SMTT(30) DEF ProxyInv, ProxyTyped, SlotsMove, Moves, CountsMove
  <1>5. \A j \in Requests : Staged(req'[j]) /\ Matches(req'[j], flow'[j]) /\ Resumes(j)'
    <2>1. Staged(req'[i])
      BY <1>3, Resumed DEF Staged, Resuming
    <2>2. Matches(req'[i], flow'[i])
      <3>1. flow'[i] = flow[i]
        BY <1>1, <1>2
      <3> QED
        BY <1>1, <1>3, <3>1, NoFlowHolds, Zenon DEF Matches, Quiet, Resuming
    <2>3. \A j \in Requests : Matches(req'[j], flow'[j])
      <3> SUFFICES ASSUME NEW j \in Requests
                   PROVE  Matches(req'[j], flow'[j])
        OBVIOUS
      <3>1. CASE j = f
        BY <1>1, <1>2, <1>3, <3>1, SMTT(30)
      <3>2. CASE j # f /\ j # i
        BY <1>2, <1>3, <3>2 DEF ProxyInv
      <3> QED
        BY <2>2, <3>1, <3>2
    <2>4. pc \in Stages /\ pc # "idle" /\ req[i].pc \notin {"idle", "done"}
      BY DEF Stages, Resuming
    <2> QED
      BY <1>1, <2>1, <2>3, <2>4, AdvanceLocal, SMTT(30)
  <1>6. rt' = "closed" => \A j \in Requests : ~flow'[j].reg
    BY <1>2 DEF ProxyInv
  <1>7. ASSUME NEW g \in Requests \ raced'
        PROVE  Bindings(g)'
    <2>1. CASE g = f
      BY <1>7, <2>1
    <2>2. CASE g # f
      <3>1. ResumesKept(g)
        BY <1>3, <2>2 DEF ResumesKept, ResumeAt
      <3>2. BindingsShrink(g)
        BY <1>2, <2>2 DEF BindingsShrink
      <3>3. Bindings(g)
        BY <1>7 DEF ProxyInv
      <3> QED
        BY <3>1, <3>2, <3>3, BindingsKept, SMTT(30)
    <2> QED
      BY <2>1, <2>2
  <1>8. SlotsMatchHolders'
    <2>1. \A j \in Requests : flow'[j].slot = flow[j].slot
      BY <1>2
    <2>2. \A j \in Requests \ {i} : req'[j] = req[j] /\ flow'[j].slot = flow[j].slot
      BY <1>3, <2>1, SMTT(30)
    <2>3. /\ HoldsTCP(i)' <=> HoldsTCP(i)
          /\ ~HoldsUDP(i) /\ ~HoldsUDP(i)' /\ ~Associated(i) /\ ~Associated(i)'
          /\ Live(i) /\ (Live(i)' <=> pc # "done")
      BY <1>3, <2>1, SMTT(30) DEF HoldsTCP, HoldsUDP, At, Associated, Live, Resuming
    <2>4. SlotsMove(req[i].session,
                    Delta(HoldsTCP(i), HoldsTCP(i)'), Delta(HoldsUDP(i), HoldsUDP(i)'),
                    Delta(Live(i), Live(i)'), Delta(Associated(i), Associated(i)'))
      BY <2>3 DEF Delta
    <2> QED
      BY <1>2, <1>3, <2>2, <2>4, Resumed, SlotsFollow, ZenonT(30) DEF ProxyInv
  <1>9. \A u \in Users : counts'[u] = Cardinality(OfUser(u)')
    <2>1. \A j \in Requests : req'[j].session = req[j].session
      BY <1>3
    <2>2. \A j \in Requests \ {f} : flow'[j].reg = flow[j].reg
      BY <1>2
    <2>3. \A u \in Users : counts'[u] = counts[u]
                 + (IF u = UserOf(f) THEN Delta(flow[f].reg, flow'[f].reg) ELSE 0)
      BY <1>2 DEF CountsMove
    <2> QED
      BY <1>1, <1>2, <2>1, <2>2, <2>3, CountsFollow, ZenonT(30) DEF ProxyInv
  <1> QED
    BY <1>4, <1>5, <1>6, <1>7, <1>8, <1>9, SMTT(30) DEF ProxyInv

\* A resume that leaves the flow as it is, or its bindings no larger.
LEMMA ResumeShrinks ==
    ASSUME ProxyInv, NEW i \in Requests, NEW f, req[i].kind = "resume",
           req[i].pc \in Resuming \ {"replace"}, f = req[i].flow,
           NEW pc \in {"lookup", "conflict", "done"}, Advance(i, pc, req[i].old),
           NEW q \in FlowRecs, flow' = [flow EXCEPT ![f] = q], q.slot = flow[f].slot,
           Matches(req[f], q), UNCHANGED <<rt, raced>>, rt = "closed" => ~q.reg,
           CountsMove(f, q.reg), BindingsShrink(f),
           SlotsMove(req[i].session, 0, 0, IF pc = "done" THEN -1 ELSE 0, 0)
    PROVE  ProxyInv'
  <1>1. f \in Requests
    BY Resumed
  <1>2. ResumesKept(f)
    BY SMTT(30) DEF ResumesKept, ResumeAt, Advance
  <1>3. f \notin raced' => Bindings(f)'
    BY <1>1, <1>2, BindingsKept, SMTT(30) DEF ProxyInv
  <1>4. pc \in Resuming \cup {"done"} /\ req[i].pc \in Resuming
    BY DEF Resuming
  <1> QED
    BY <1>3, <1>4, ResumeStep, Zenon

\* A resume is refused and leaves the flow as it is.
LEMMA ResumeLeaves ==
    ASSUME ProxyInv, NEW i \in Requests, req[i].kind = "resume",
           req[i].pc \in Resuming \ {"replace"}, Step(i, "done"), slots' = Leave(slots, i),
           UNCHANGED <<flow, counts, rt, raced>>
    PROVE  ProxyInv'
  <1> DEFINE f == req[i].flow
  <1>1. f \in Requests /\ flow[f] \in FlowRecs /\ Matches(req[f], flow[f]) /\ ProxyTyped
    BY Resumed
  <1>2. flow' = [flow EXCEPT ![f] = flow[f]]
    BY <1>1 DEF ProxyTyped
  <1>3. Advance(i, "done", req[i].old)
    BY <1>1, Advances, Zenon DEF Stages
  <1>4. SlotsMove(req[i].session, 0, 0, -1, 0)
    BY HandlerMoves DEF Resuming
  <1>5. CountsMove(f, flow[f].reg)
    BY <1>1, SMTT(30) DEF CountsMove, Delta, ProxyTyped
  <1>6. BindingsShrink(f) /\ (rt = "closed" => ~flow[f].reg)
    BY <1>1 DEF BindingsShrink, ProxyInv
  <1> QED
    BY <1>1, <1>2, <1>3, <1>4, <1>5, <1>6, ResumeShrinks, ZenonT(30)

\* The registry attaches the new lease, refuses it, or drops the flow.
LEMMA AttachFlowKeeps ==
    ASSUME ProxyInv, NEW i \in Requests, AttachFlow(i)
    PROVE  ProxyInv'
  <1> DEFINE f == req[i].flow
  <1>1. /\ req[i].kind = "resume" /\ req[i].pc = "attach" /\ UNCHANGED <<rt, raced>>
        /\ "attach" \in Resuming /\ "attach" # "replace"
    BY DEF AttachFlow, At, Resuming
  <1>2. /\ f \in Requests /\ flow[f] \in FlowRecs /\ Matches(req[f], flow[f]) /\ ProxyTyped
        /\ req[i].session \in CarrierSessions /\ UserOf(f) \in Users
        /\ req[f].kind = "new" /\ req[f].pc = "done" /\ req[i] \in ReqRecs
    BY <1>1, Resumed DEF ProxyTyped
  <1>3. CASE Step(i, "done") /\ slots' = Leave(slots, i) /\ UNCHANGED <<flow, counts>>
    BY <1>1, <1>3, ResumeLeaves
  <1>4. CASE /\ flow' = [flow EXCEPT ![f].epoch = req[i].epoch, ![f].record = req[i].session]
             /\ Step(i, "lookup") /\ UNCHANGED <<slots, counts>>
    <2> DEFINE q == [flow[f] EXCEPT !.epoch = req[i].epoch, !.record = req[i].session]
    <2>1. flow' = [flow EXCEPT ![f] = q]
      BY <1>4, ZenonT(30)
    <2>2. req[i].epoch \in Nat /\ req[i].session \in Leases
      BY <1>2 DEF ReqRecs, Leases
    <2>3. /\ q \in FlowRecs /\ q.table = flow[f].table /\ q.reg = flow[f].reg
          /\ q.control = flow[f].control /\ q.bound = flow[f].bound /\ q.fin = flow[f].fin
          /\ q.slot = flow[f].slot /\ q.stream = flow[f].stream /\ q.target = flow[f].target
      BY <1>2, <2>2, Zenon DEF FlowRecs
    <2>4. flow'[f] = q
      BY <1>2, <2>1, ZenonT(30) DEF ProxyTyped
    <2> HIDE DEF q
    <2>5. Matches(req[f], q)
      BY <1>2, <2>3 DEF Matches, Created
    <2>6. CountsMove(f, q.reg)
      BY <1>2, <1>4, <2>3, SMTT(30) DEF CountsMove, Delta, ProxyTyped
    <2>7. BindingsShrink(f) /\ (rt = "closed" => ~q.reg)
      BY <1>2, <2>3, <2>4 DEF BindingsShrink, ProxyInv
    <2>8. Advance(i, "lookup", req[i].old)
      BY <1>2, <1>4, Advances, Zenon DEF Stages, Resuming
    <2>9. SlotsMove(req[i].session, 0, 0, 0, 0)
      BY <1>1, <1>4, HandlerMoves
    <2> QED
      BY <1>1, <1>2, <2>1, <2>3, <2>5, <2>6, <2>7, <2>8, <2>9, ResumeShrinks, Zenon
  <1>5. CASE Step(i, "conflict") /\ ReleaseFlow(f, flow[f]) /\ UNCHANGED slots
    <2>1. /\ CountsMove(f, FALSE)
          /\ \E q \in FlowRecs : /\ flow' = [flow EXCEPT ![f] = q] /\ SameButRecord(flow[f], q)
                                 /\ ~q.reg /\ ~q.target
      BY <1>2, <1>5, ReleaseDoes, Zenon DEF Matches
    <2>2. PICK q \in FlowRecs : /\ flow' = [flow EXCEPT ![f] = q] /\ SameButRecord(flow[f], q)
                                /\ ~q.reg /\ ~q.target
      BY <2>1, Zenon
    <2>3. flow'[f] = q
      BY <1>2, <2>2, SMTT(30) DEF ProxyTyped
    <2>4. Matches(req[f], q)
      BY <1>2, <2>2 DEF Matches, Created, SameButRecord
    <2>5. CountsMove(f, q.reg)
      BY <2>1, <2>2, SMTT(30) DEF CountsMove, Delta
    <2>6. BindingsShrink(f) /\ q.slot = flow[f].slot
      BY <2>2, <2>3 DEF BindingsShrink, SameButRecord
    <2>7. Advance(i, "conflict", req[i].old)
      BY <1>2, <1>5, Advances, Zenon DEF Stages, Resuming
    <2>8. SlotsMove(req[i].session, 0, 0, 0, 0)
      BY <1>1, <1>5, HandlerMoves
    <2> QED
      BY <1>1, <1>2, <2>2, <2>4, <2>5, <2>6, <2>7, <2>8, ResumeShrinks, Zenon
  <1> QED
    BY <1>3, <1>4, <1>5 DEF AttachFlow

\* A refused epoch finishes the flow.
LEMMA ConflictKeeps ==
    ASSUME ProxyInv, NEW i \in Requests, Conflict(i)
    PROVE  ProxyInv'
  <1> DEFINE f == req[i].flow
  <1>1. /\ req[i].kind = "resume" /\ req[i].pc = "conflict" /\ UNCHANGED <<counts, rt, raced>>
        /\ Step(i, "done") /\ slots' = Leave(slots, i)
        /\ "conflict" \in Resuming /\ "conflict" # "replace"
    BY DEF Conflict, At, Resuming
  <1>2. /\ f \in Requests /\ flow[f] \in FlowRecs /\ Matches(req[f], flow[f]) /\ ProxyTyped
        /\ req[f].kind = "new" /\ req[f].pc = "done"
    BY <1>1, Resumed
  <1>3. CASE UNCHANGED flow
    BY <1>1, <1>3, ResumeLeaves
  <1>4. CASE Finish(f)
    <2> DEFINE q == Unlisted(flow[f])
    <2>1. flow' = [flow EXCEPT ![f] = q] /\ flow[f].fin = "no"
      BY <1>4, SMTT(30) DEF Finish
    <2>2. /\ q \in FlowRecs /\ q.fin = "begun" /\ ~q.table /\ q.bound = flow[f].bound \ {flow[f].control}
          /\ q.reg = flow[f].reg /\ q.slot = flow[f].slot /\ q.target = flow[f].target
      BY <1>2, UnlistedFields
    <2>3. flow'[f] = q
      BY <1>2, <2>1, SMTT(30) DEF ProxyTyped
    <2> HIDE DEF q
    <2>4. Matches(req[f], q)
      BY <1>2, <2>2, SMTT(30) DEF Matches, Created
    <2>5. CountsMove(f, q.reg)
      BY <1>1, <1>2, <2>2, SMTT(30) DEF CountsMove, Delta, ProxyTyped
    <2>6. BindingsShrink(f) /\ (rt = "closed" => ~q.reg)
      BY <1>2, <2>1, <2>2, <2>3 DEF BindingsShrink, ProxyInv
    <2>7. Advance(i, "done", req[i].old)
      BY <1>1, <1>2, Advances, Zenon DEF Stages
    <2>8. SlotsMove(req[i].session, 0, 0, -1, 0)
      BY <1>1, HandlerMoves
    <2> QED
      BY <1>1, <1>2, <2>1, <2>2, <2>4, <2>5, <2>6, <2>7, <2>8, ResumeShrinks, ZenonT(30)
  <1> QED
    BY <1>3, <1>4 DEF Conflict

\* The flow's own record but for the fields a resume may write.
Rebound(fl, q) ==
    /\ q \in FlowRecs /\ q.table = fl.table /\ q.reg = fl.reg /\ q.fin = fl.fin
    /\ q.slot = fl.slot /\ q.stream = fl.stream /\ q.target = fl.target

\* A step of a resume that writes only the flow's control and bindings.
LEMMA ResumeBinds ==
    ASSUME ProxyInv, NEW i \in Requests, NEW f, req[i].kind = "resume",
           req[i].pc \in Resuming, f = req[i].flow,
           NEW pc \in Resuming \cup {"done"}, NEW old, Advance(i, pc, old),
           NEW q, flow' = [flow EXCEPT ![f] = q], Rebound(flow[f], q),
           UNCHANGED <<counts, rt>>,
           SlotsMove(req[i].session, 0, 0, IF pc = "done" THEN -1 ELSE 0, 0),
           raced \subseteq raced', f \notin raced' => Bindings(f)'
    PROVE  ProxyInv'
  <1>1. /\ f \in Requests /\ flow[f] \in FlowRecs /\ Matches(req[f], flow[f]) /\ ProxyTyped
        /\ req[f].kind = "new" /\ req[f].pc = "done"
    BY Resumed
  <1>2. Matches(req[f], q)
    BY <1>1, Zenon DEF Matches, Created, Rebound
  <1>3. CountsMove(f, q.reg)
    BY <1>1, SMTT(30) DEF CountsMove, Delta, ProxyTyped, Rebound
  <1>4. rt = "closed" => ~q.reg
    BY <1>1 DEF ProxyInv, Rebound
  <1> QED
    BY <1>2, <1>3, <1>4, ResumeStep, ZenonT(30) DEF Rebound

\* replace reads the control it will withdraw.
LEMMA ReadControlKeeps ==
    ASSUME ProxyInv, NEW i \in Requests, ReadControl(i)
    PROVE  ProxyInv'
  <1>0. PICK f, c : f = req[i].flow /\ c = flow[f].control
    OBVIOUS
  <1>1. /\ req[i].kind = "resume" /\ req[i].pc = "lookup" /\ UNCHANGED <<slots, flow, counts, rt, raced>>
        /\ "lookup" \in Resuming /\ "bind" \in Resuming
        /\ req' = [req EXCEPT ![i].pc = "bind", ![i].old = c]
    BY <1>0 DEF ReadControl, At, Resuming
  <1>2. f \in Requests /\ flow[f] \in FlowRecs /\ ProxyTyped /\ c \in Leases
    BY <1>0, <1>1, Resumed DEF FlowRecs
  <1>3. Advance(i, "bind", c)
    BY <1>1, <1>2, Advances, Zenon DEF Stages
  <1>4. flow' = [flow EXCEPT ![f] = flow[f]] /\ Rebound(flow[f], flow[f])
    BY <1>1, <1>2 DEF ProxyTyped, Rebound
  <1>5. SlotsMove(req[i].session, 0, 0, 0, 0)
    BY <1>1, HandlerMoves
  <1>6. ASSUME f \notin raced'
        PROVE  Bindings(f)'
    <2>1. Bindings(f)
      BY <1>1, <1>2, <1>6 DEF ProxyInv
    <2>2. /\ \A j \in Requests \ {i} : req'[j] = req[j]
          /\ req'[i].pc = "bind" /\ req'[i].old = c /\ req'[i].flow = f
      BY <1>0, <1>3 DEF Advance
    <2>3. Replacing(f)' = Replacing(f) /\ i \notin Replacing(f)
      BY <1>1, <2>2, Zenon DEF Replacing, ResumeAt
    <2>4. Withdrawn(f)' = Withdrawn(f)
      BY <2>2, <2>3 DEF Withdrawn, Replacing
    <2>5. ASSUME NEW j \in Requests, ResumeAt(j, f, "bind")', flow[f].fin = "no"
          PROVE  \/ flow[f].control = req'[j].old
                 \/ \E k \in Replacing(f) : flow[f].control = req[k].session
      BY <1>0, <2>1, <2>2, <2>5 DEF Bindings, ResumeAt
    <2>6. \A k \in Replacing(f) : req'[k] = req[k]
      BY <2>2, <2>3 DEF Replacing
    <2> QED
      BY <1>1, <2>1, <2>3, <2>4, <2>5, <2>6, Zenon DEF Bindings
  <1>7. /\ "bind" \in Resuming \cup {"done"} /\ raced \subseteq raced' /\ req[i].pc \in Resuming
        /\ SlotsMove(req[i].session, 0, 0, IF "bind" = "done" THEN -1 ELSE 0, 0)
    BY <1>1, <1>5
  <1> QED
    BY <1>0, <1>1, <1>3, <1>4, <1>6, <1>7, ResumeBinds, Zenon

\* The flow is bound to the new control as well.
LEMMA RegisterResumedKeeps ==
    ASSUME ProxyInv, NEW i \in Requests, RegisterResumed(i)
    PROVE  ProxyInv'
  <1>0. PICK f, s : f = req[i].flow /\ s = req[i].session
    OBVIOUS
  <1>1. /\ req[i].kind = "resume" /\ req[i].pc = "bind" /\ UNCHANGED <<counts, rt, raced>>
        /\ "bind" \in Resuming /\ "bind" # "replace" /\ "replace" \in Resuming
    BY DEF RegisterResumed, At, Resuming
  <1>2. /\ f \in Requests /\ flow[f] \in FlowRecs /\ ProxyTyped /\ s \in CarrierSessions
        /\ s \in Leases /\ req[i].old \in Leases
    BY <1>0, <1>1, Resumed, SMTT(30) DEF Leases, ProxyTyped, ReqRecs
  <1>3. CASE Step(i, "done") /\ slots' = Leave(slots, i) /\ UNCHANGED flow
    BY <1>1, <1>3, ResumeLeaves
  <1>4. CASE /\ flow' = [flow EXCEPT ![f].bound = @ \cup {s}, ![f].control = s, ![f].lease = s]
             /\ Step(i, "replace") /\ UNCHANGED slots
    <2> DEFINE b == flow[f].bound \cup {s}
               q == [flow[f] EXCEPT !.bound = b, !.control = s, !.lease = s]
    <2>1. flow' = [flow EXCEPT ![f] = q]
      BY <1>4, Zenon
    <2>2. b \in SUBSET CarrierSessions
      BY <1>2 DEF FlowRecs
    <2>3. \A t : t \in b <=> t \in flow[f].bound \/ t = s
      OBVIOUS
    <2> HIDE DEF b
    <2>4. Rebound(flow[f], q) /\ q.bound = b /\ q.control = s
      BY <1>2, <2>2, Zenon DEF FlowRecs, Rebound
    <2>5. flow'[f] = q
      BY <1>2, <2>1 DEF ProxyTyped
    <2> HIDE DEF q
    <2>6. Advance(i, "replace", req[i].old)
      BY <1>1, <1>2, <1>4, Advances, ZenonT(30) DEF Stages
    <2>7. SlotsMove(s, 0, 0, 0, 0)
      BY <1>0, <1>1, <1>4, HandlerMoves
    <2>8. ASSUME f \notin raced'
          PROVE  Bindings(f)'
      <3>1. Bindings(f)
        BY <1>1, <1>2, <2>8 DEF ProxyInv
      <3>2. /\ \A j \in Requests \ {i} : req'[j] = req[j]
            /\ req'[i].pc = "replace" /\ req'[i].old = req[i].old /\ req'[i].session = s
            /\ req'[i].flow = f /\ req'[i].kind = "resume"
        BY <1>0, <1>1, <2>6 DEF Advance
      <3>3. Replacing(f)' = Replacing(f) \cup {i} /\ i \notin Replacing(f)
        BY <1>0, <1>1, <3>2 DEF Replacing, ResumeAt
      <3>4. \A j \in Replacing(f) : req'[j] = req[j]
        BY <3>2, <3>3 DEF Replacing
      <3>5. \A t \in Withdrawn(f) : t \in Withdrawn(f)'
        BY <3>3, <3>4 DEF Withdrawn
      <3>6. s \in Withdrawn(f)' /\ req[i].old \in Withdrawn(f)'
        BY <1>2, <3>2, <3>3 DEF Withdrawn
      <3>7. ASSUME flow[f].fin = "no", flow[f].control \in Leases
            PROVE  flow[f].control \in Withdrawn(f)'
        <4>1. ResumeAt(i, f, "bind")
          BY <1>0, <1>1 DEF ResumeAt
        <4>2. CASE flow[f].control = req[i].old
          BY <3>6, <4>2
        <4>3. CASE \E j \in Replacing(f) : flow[f].control = req[j].session
          BY <3>3, <3>4, <3>7, <4>3 DEF Withdrawn
        <4> QED
          BY <3>1, <3>7, <4>1, <4>2, <4>3 DEF Bindings
      <3>8. flow[f].control \in Leases
        BY <1>2 DEF FlowRecs
      <3>9. q.bound \subseteq Withdrawn(f)'
        BY <2>3, <2>4, <3>1, <3>5, <3>6, <3>7, <3>8, SMTT(30) DEF Bindings
      <3>10. \E j \in Replacing(f)' : q.control = req'[j].session
        BY <2>4, <3>2, <3>3
      <3>11. q.fin # "no" => ~q.table
        BY <2>4, <3>1 DEF Bindings, Rebound
      <3> QED
        BY <2>5, <3>9, <3>10, <3>11 DEF Bindings
    <2>9. /\ "replace" \in Resuming \cup {"done"} /\ raced \subseteq raced' /\ req[i].pc \in Resuming
          /\ SlotsMove(req[i].session, 0, 0, IF "replace" = "done" THEN -1 ELSE 0, 0)
      BY <1>0, <1>1, <2>7
    <2> QED
      BY <1>0, <1>1, <2>1, <2>4, <2>6, <2>8, <2>9, ResumeBinds, Zenon
  <1> QED
    BY <1>0, <1>3, <1>4 DEF RegisterResumed

\* A replacement that nothing disturbed is the only resume of its flow.
LEMMA Undisturbed ==
    ASSUME ProxyInv, NEW i \in Requests, req[i].kind = "resume", req[i].pc = "replace",
           Disturbed(i), Advance(i, "done", req[i].old),
           NEW f, f = req[i].flow, NEW s, s = req[i].session
    PROVE  /\ raced \subseteq raced'
           /\ f \notin raced' =>
                /\ flow[f].fin = "no" /\ flow[f].control = s
                /\ flow[f].bound \subseteq {s, req[i].old}
                /\ Replacing(f)' = {} /\ \A j \in Requests : ~ResumeAt(j, f, "bind")'
  <1>1. raced \subseteq raced' /\ (f \notin raced' => f \notin raced /\ flow[f].fin = "no" /\ ~Overlaps(i))
    BY DEF Disturbed
  <1> SUFFICES ASSUME f \notin raced'
               PROVE  /\ flow[f].control = req[i].session
                      /\ flow[f].bound \subseteq {req[i].session, req[i].old}
                      /\ Replacing(f)' = {} /\ \A j \in Requests : ~ResumeAt(j, f, "bind")'
    BY <1>1
  <1>2. f \in Requests
    BY Resumed, SMTT(30) DEF Resuming
  <1>3. Bindings(f) /\ flow[f].fin = "no"
    BY <1>1, <1>2 DEF ProxyInv
  <1>4. \A j \in Requests \ {i} : ~ResumeAt(j, f, "replace") /\ ~ResumeAt(j, f, "bind")
    BY <1>1 DEF Overlaps, At, ResumeAt
  <1>5. Replacing(f) = {i}
    BY <1>4 DEF Replacing, ResumeAt
  <1>6. flow[f].control = req[i].session
    BY <1>3, <1>5 DEF Bindings
  <1>7. \A t \in Withdrawn(f) : t = req[i].session \/ t = req[i].old
    BY <1>5 DEF Withdrawn
  <1>8. flow[f].bound \subseteq {req[i].session, req[i].old}
    BY <1>3, <1>6, <1>7 DEF Bindings
  <1>9. \A j \in Requests : ~ResumeAt(j, f, "replace")' /\ ~ResumeAt(j, f, "bind")'
    BY <1>4 DEF Advance, ResumeAt
  <1> QED
    BY <1>6, <1>8, <1>9 DEF Replacing

\* A refused replacement puts the old control back.
LEMMA ReplaceFailsKeeps ==
    ASSUME ProxyInv, NEW i \in Requests, ReplaceFails(i)
    PROVE  ProxyInv'
  <1>0. PICK f, s, o : f = req[i].flow /\ s = req[i].session /\ o = req[i].old
    OBVIOUS
  <1>1. /\ req[i].kind = "resume" /\ req[i].pc = "replace" /\ UNCHANGED <<counts, rt>>
        /\ "replace" \in Resuming /\ Step(i, "done") /\ slots' = Leave(slots, i) /\ Disturbed(i)
    BY DEF ReplaceFails, At, Resuming
  <1>2. /\ f \in Requests /\ flow[f] \in FlowRecs /\ ProxyTyped /\ s \in CarrierSessions
        /\ o \in Leases
    BY <1>0, <1>1, Resumed DEF ProxyTyped, ReqRecs
  <1>3. Advance(i, "done", req[i].old)
    BY <1>1, <1>2, Advances, Zenon DEF Stages
  <1> DEFINE l == IF o = NoLease THEN flow[f].lease ELSE o
             b == IF o # s THEN flow[f].bound \ {s} ELSE flow[f].bound
             q == [flow[f] EXCEPT !.control = o, !.lease = l, !.bound = b]
  <1>4. flow' = [flow EXCEPT ![f] = q]
    BY <1>0, Zenon DEF ReplaceFails
  <1>5. l \in Leases /\ b \in SUBSET CarrierSessions
    BY <1>2 DEF FlowRecs
  <1>6. \A t \in b : t \in flow[f].bound /\ (t = s => o = s)
    OBVIOUS
  <1> HIDE DEF l, b
  <1>7. Rebound(flow[f], q) /\ q.control = o /\ q.bound = b
    BY <1>2, <1>5, Zenon DEF FlowRecs, Rebound
  <1>8. flow'[f] = q
    BY <1>2, <1>4, SMTT(30) DEF ProxyTyped
  <1> HIDE DEF q
  <1>9. /\ raced \subseteq raced'
        /\ f \notin raced' =>
             /\ flow[f].fin = "no" /\ flow[f].bound \subseteq {s, o}
             /\ Replacing(f)' = {} /\ \A j \in Requests : ~ResumeAt(j, f, "bind")'
    BY <1>0, <1>1, <1>3, Undisturbed, SMTT(30)
  <1>10. ASSUME f \notin raced'
         PROVE  Bindings(f)'
    <2>1. q.bound \subseteq {q.control} /\ q.fin = "no"
      BY <1>6, <1>7, <1>9, <1>10 DEF Rebound
    <2> QED
      BY <1>8, <1>9, <1>10, <2>1 DEF Bindings
  <1>11. /\ "done" \in Resuming \cup {"done"} /\ req[i].pc \in Resuming
         /\ SlotsMove(req[i].session, 0, 0, IF "done" = "done" THEN -1 ELSE 0, 0)
    BY <1>1, HandlerMoves
  <1> QED
    BY <1>0, <1>1, <1>3, <1>4, <1>7, <1>9, <1>10, <1>11, ResumeBinds, ZenonT(30)

\* A replacement withdraws the old control.
LEMMA replaceKeeps ==
    ASSUME ProxyInv, NEW i \in Requests, replace(i)
    PROVE  ProxyInv'
  <1>0. PICK f, s, o : f = req[i].flow /\ s = req[i].session /\ o = req[i].old
    OBVIOUS
  <1>1. /\ req[i].kind = "resume" /\ req[i].pc = "replace" /\ UNCHANGED <<counts, rt>>
        /\ "replace" \in Resuming /\ Step(i, "done") /\ slots' = Leave(slots, i) /\ Disturbed(i)
    BY DEF replace, At, Resuming
  <1>2. /\ f \in Requests /\ flow[f] \in FlowRecs /\ ProxyTyped /\ s \in CarrierSessions
        /\ o \in Leases
    BY <1>0, <1>1, Resumed DEF ProxyTyped, ReqRecs
  <1>3. Advance(i, "done", req[i].old)
    BY <1>1, <1>2, Advances, Zenon DEF Stages
  <1> DEFINE g == 1 - flow[f].gen
             b == IF o # s THEN flow[f].bound \ {o} ELSE flow[f].bound
             q == [flow[f] EXCEPT !.timer = {}, !.gen = g, !.bound = b]
  <1>4. flow' = [flow EXCEPT ![f] = q]
    BY <1>0, Zenon DEF replace
  <1>5. g \in {0, 1}
    BY <1>2 DEF FlowRecs
  <1>6. b \in SUBSET CarrierSessions
    BY <1>2 DEF FlowRecs
  <1>7. \A t \in b : t \in flow[f].bound /\ (t = o => o = s)
    OBVIOUS
  <1> HIDE DEF g, b
  <1>8. Rebound(flow[f], q) /\ q.control = flow[f].control /\ q.bound = b
    BY <1>2, <1>5, <1>6, Zenon DEF FlowRecs, Rebound
  <1>9. flow'[f] = q
    BY <1>2, <1>4, SMTT(30) DEF ProxyTyped
  <1> HIDE DEF q
  <1>10. /\ raced \subseteq raced'
         /\ f \notin raced' =>
              /\ flow[f].fin = "no" /\ flow[f].control = s /\ flow[f].bound \subseteq {s, o}
              /\ Replacing(f)' = {} /\ \A j \in Requests : ~ResumeAt(j, f, "bind")'
    BY <1>0, <1>1, <1>3, Undisturbed, SMTT(30)
  <1>11. ASSUME f \notin raced'
         PROVE  Bindings(f)'
    <2>1. q.bound \subseteq {q.control} /\ q.fin = "no"
      BY <1>7, <1>8, <1>10, <1>11, SMTT(30) DEF Rebound
    <2> QED
      BY <1>9, <1>10, <1>11, <2>1 DEF Bindings
  <1>12. /\ "done" \in Resuming \cup {"done"} /\ req[i].pc \in Resuming
         /\ SlotsMove(req[i].session, 0, 0, IF "done" = "done" THEN -1 ELSE 0, 0)
    BY <1>1, HandlerMoves
  <1> QED
    BY <1>0, <1>1, <1>3, <1>4, <1>8, <1>10, <1>11, <1>12, ResumeBinds, ZenonT(30)

-----------------------------------------------------------------------------
(* The steps of Serve, of a session's end, and of the runtime's Close.     *)

\* Serve accepts a stream.
LEMMA ServeKeeps ==
    ASSUME ProxyInv, NEW i \in Requests, NEW s \in CarrierSessions, NEW k \in Kinds, Serve(i, s, k)
    PROVE  ProxyInv'
  <1>1. PICK f \in Requests, e \in 1 .. MaxEpoch :
          /\ IF k = "resume" THEN f < i /\ req[f].kind = "new" ELSE f = i /\ e = 1
          /\ req' = [req EXCEPT ![i] = [NoRequest EXCEPT !.pc = "handle", !.kind = k,
                                        !.session = s, !.flow = f, !.epoch = e]]
    BY Zenon DEF Serve
  <1> DEFINE r == [NoRequest EXCEPT !.pc = "handle", !.kind = k,
                                    !.session = s, !.flow = f, !.epoch = e]
  <1>2. /\ req[i].pc = "idle" /\ UNCHANGED <<flow, counts, rt, raced>>
        /\ slots' = [slots EXCEPT !.sem[s] = @ + 1]
    BY DEF Serve
  <1>3. /\ ProxyTyped /\ req[i] \in ReqRecs /\ Staged(req[i]) /\ ~Created(req[i])
        /\ slots \in SlotRecs /\ flow \in [Requests -> FlowRecs]
    BY <1>2 DEF ProxyInv, ProxyTyped, Created
  <1>4. f \in Nat /\ e \in Nat /\ s \in Leases /\ "handle" \in Stages
    BY ProxyBounds DEF Requests, Leases, Stages
  <1>5. r \in ReqRecs /\ r.pc = "handle" /\ r.kind = k /\ r.session = s /\ r.flow = f
    BY <1>4, Zenon DEF ReqRecs, NoRequest, Leases
  <1> HIDE DEF r
  <1>6. /\ req' \in [Requests -> ReqRecs] /\ req'[i] = r
        /\ \A j \in Requests \ {i} : req'[j] = req[j]
    BY <1>1, <1>3, <1>5 DEF ProxyTyped, r
  <1>7. ~Created(r) /\ Staged(r)
    BY <1>5 DEF Created, Staged, Resuming
  <1>8. \A j \in Requests : Staged(req'[j]) /\ Matches(req'[j], flow'[j]) /\ Resumes(j)'
    <2>1. Matches(r, flow[i])
      BY <1>2, <1>3, <1>5, <1>7, NoFlowHolds DEF Matches, Quiet
    <2>2. \A j \in Requests : Staged(req'[j]) /\ Matches(req'[j], flow'[j])
      BY <1>2, <1>6, <1>7, <2>1 DEF ProxyInv
    <2>3. ASSUME NEW j \in Requests
          PROVE  Resumes(j)'
      <3>1. req[i].kind = "cluster"
        BY <1>2, <1>3 DEF Staged
      <3>2. CASE j = i
        <4>1. k = "resume" => f \in Requests /\ f # i /\ req[f].kind = "new"
          BY <1>1, ProxyBounds DEF Requests
        <4> QED
          BY <1>5, <1>6, <3>2, <4>1 DEF Resumes, Resuming
      <3>3. CASE j # i
        <4>1. Resumes(j) /\ req'[j] = req[j]
          BY <1>6, <3>3 DEF ProxyInv
        <4>2. req[j].kind = "resume" => req[j].flow # i
          BY <3>1, <4>1 DEF Resumes
        <4> QED
          BY <1>6, <4>1, <4>2, SMTT(30) DEF Resumes
      <3> QED
        BY <3>2, <3>3
    <2> QED
      BY <2>2, <2>3
  <1>9. ProxyTyped' /\ SlotsMove(s, 0, 0, 1, 0)
    <2>1. SlotsMove(s, 0, 0, 1, 0)
      BY <1>2, <1>3, MovesServe DEF SlotsMove
    <2> QED
      BY <1>2, <1>3, <1>6, <2>1 DEF ProxyTyped, SlotsMove, Moves
  <1>10. rt' = "closed" => \A j \in Requests : ~flow'[j].reg
    BY <1>2 DEF ProxyInv
  <1>11. ASSUME NEW g \in Requests \ raced'
         PROVE  Bindings(g)'
    <2>1. ResumesKept(g)
      BY <1>2, <1>5, <1>6 DEF ResumesKept, ResumeAt
    <2>2. BindingsShrink(g)
      BY <1>2 DEF BindingsShrink
    <2>3. Bindings(g)
      BY <1>2, <1>11 DEF ProxyInv
    <2> QED
      BY <2>1, <2>2, <2>3, BindingsKept
  <1>12. SlotsMatchHolders'
    <2>1. /\ ~HoldsTCP(i) /\ ~HoldsUDP(i) /\ ~Live(i) /\ ~Associated(i)
          /\ ~HoldsTCP(i)' /\ ~HoldsUDP(i)' /\ Live(i)' /\ ~Associated(i)'
      BY <1>2, <1>3, <1>5, <1>6, NoFlowHolds DEF HoldsTCP, HoldsUDP, At, Live, Associated
    <2>2. SlotsMove(s, Delta(HoldsTCP(i), HoldsTCP(i)'), Delta(HoldsUDP(i), HoldsUDP(i)'),
                    Delta(Live(i), Live(i)'), Delta(Associated(i), Associated(i)'))
      BY <1>9, <2>1 DEF Delta
    <2>3. \A j \in Requests \ {i} : req'[j] = req[j] /\ flow'[j].slot = flow[j].slot
      BY <1>2, <1>6
    <2>4. req'[i].session = s /\ flow' \in [Requests -> FlowRecs]
      BY <1>2, <1>3, <1>5, <1>6
    <2> QED
      BY <1>3, <1>6, <2>1, <2>2, <2>3, <2>4, SlotsFollow, ZenonT(30) DEF ProxyInv
  <1>13. \A u \in Users : counts'[u] = Cardinality(OfUser(u)')
    <2>1. ~flow[i].reg
      BY <1>3, NoFlowHolds
    <2>2. \A j \in Requests : flow[j].reg => req'[j].session = req[j].session
      BY <1>6, <2>1, SMTT(30)
    <2> QED
      BY <1>2, <2>2, CountsSame, SMTT(30) DEF ProxyInv
  <1> QED
    BY <1>8, <1>9, <1>10, <1>11, <1>12, <1>13 DEF ProxyInv

\* A session's end and Close's first step move no counter.
LEMMA IdleKeeps ==
    ASSUME ProxyInv, UNCHANGED <<req, slots, flow, counts, raced>>,
           rt' = "closed" => rt = "closed"
    PROVE  ProxyInv'
  <1>1. ProxyTyped' /\ SlotsMatchHolders'
    BY SlotsSame DEF ProxyInv, ProxyTyped
  <1>2. \A i \in Requests : Staged(req'[i]) /\ Matches(req'[i], flow'[i]) /\ Resumes(i)'
    BY DEF ProxyInv, Resumes
  <1>3. rt' = "closed" => \A f \in Requests : ~flow'[f].reg
    BY DEF ProxyInv
  <1>4. ASSUME NEW f \in Requests \ raced'
        PROVE  Bindings(f)'
    <2>1. BindingsShrink(f)
      BY DEF BindingsShrink
    <2> QED
      BY <1>4, <2>1, SameResumes, BindingsKept DEF ProxyInv
  <1>5. \A u \in Users : counts'[u] = Cardinality(OfUser(u)')
    BY CountsSame DEF ProxyInv
  <1> QED
    BY <1>1, <1>2, <1>3, <1>4, <1>5 DEF ProxyInv

\* Closing the registry drops every record and every count.
LEMMA CloseRegistryKeeps ==
    ASSUME ProxyInv, CloseRegistry
    PROVE  ProxyInv'
  <1>1. /\ UNCHANGED <<req, slots, raced>> /\ counts' = [u \in Users |-> 0]
        /\ flow' = [f \in Requests |-> [flow[f] EXCEPT !.reg = FALSE,
                                       !.target = IF flow[f].reg THEN FALSE ELSE @]]
    BY Zenon DEF CloseRegistry
  <1>2. ASSUME NEW f \in Requests
        PROVE  /\ flow'[f] \in FlowRecs /\ ~flow'[f].reg /\ ~flow'[f].target
               /\ SameButRecord(flow[f], flow'[f])
    <2> DEFINE fl == flow[f]
               b  == IF fl.reg THEN FALSE ELSE fl.target
               q  == [fl EXCEPT !.reg = FALSE, !.target = b]
    <2>1. fl \in FlowRecs /\ Matches(req[f], fl)
      BY DEF ProxyInv, ProxyTyped
    <2>2. flow'[f] = q
      BY <1>1, Zenon
    <2>3. b = FALSE
      BY <2>1 DEF Matches, FlowRecs
    <2> HIDE DEF b, fl
    <2>4. q \in FlowRecs /\ ~q.reg /\ ~q.target /\ SameButRecord(fl, q)
      BY <2>1, <2>3, Zenon DEF FlowRecs, SameButRecord
    <2> QED
      BY <2>2, <2>4 DEF fl
  <1>3. flow' \in [Requests -> FlowRecs]
    <2>1. DOMAIN flow' = Requests /\ flow' = [f \in Requests |-> flow'[f]]
      BY <1>1, Zenon
    <2> HIDE <1>1
    <2> QED
      BY <1>2, <2>1
  <1>4. ProxyTyped'
    BY <1>1, <1>3, Zenon DEF ProxyInv, ProxyTyped
  <1>5. SlotsMatchHolders'
    BY <1>1, <1>2, SlotsSame, Zenon DEF ProxyInv, SameButRecord
  <1>6. \A i \in Requests : Staged(req'[i]) /\ Matches(req'[i], flow'[i]) /\ Resumes(i)'
    <2>1. \A i \in Requests : Staged(req'[i]) /\ Resumes(i)'
      BY <1>1, ZenonT(30) DEF ProxyInv, Resumes
    <2>2. ASSUME NEW i \in Requests
          PROVE  Matches(req'[i], flow'[i])
      <3>1. /\ req'[i] = req[i] /\ Matches(req[i], flow[i]) /\ flow[i] \in FlowRecs
            /\ flow'[i] \in FlowRecs /\ ~flow'[i].reg /\ ~flow'[i].target
            /\ SameButRecord(flow[i], flow'[i])
        BY <1>1, <1>2, ZenonT(30) DEF ProxyInv, ProxyTyped
      <3>2. ASSUME NEW r, NEW a \in FlowRecs, NEW b \in FlowRecs, Matches(r, a),
                   SameButRecord(a, b), ~b.reg, ~b.target
            PROVE  Matches(r, b)
        BY <3>2 DEF Matches, Quiet, SameButRecord
      <3> QED
        BY <3>1, <3>2
    <2> QED
      BY <2>1, <2>2
  <1>7. ASSUME NEW f \in Requests \ raced'
        PROVE  Bindings(f)'
    <2>1. BindingsShrink(f)
      BY <1>2 DEF BindingsShrink, SameButRecord
    <2> QED
      BY <1>1, <1>7, <2>1, SameResumes, BindingsKept, ZenonT(30) DEF ProxyInv
  <1>8. ASSUME NEW u \in Users
        PROVE  counts'[u] = Cardinality(OfUser(u)')
    <2>1. OfUser(u)' = {}
      BY <1>2 DEF OfUser, Registered
    <2> QED
      BY <1>1, <2>1, FS_EmptySet, Zenon
  <1> QED
    BY <1>2, <1>4, <1>5, <1>6, <1>7, <1>8, Zenon DEF ProxyInv

\* Every step of a handler keeps the invariant.
LEMMA RequestStepsKeep ==
    ASSUME ProxyInv, NEW i \in Requests, RequestSteps(i)
    PROVE  ProxyInv'
  BY ClusterRequestKeeps, LimitTCPKeeps, DialFailsKeeps, dialResolvedKeeps, AcceptFailsKeeps,
     handleTCPIncomingKeeps, RelayEndsKeeps, acquireUDPAssociationKeeps, LimitUDPKeeps,
     handleUDPIncomingKeeps, UDPRelayEndsKeeps, CreateFlowKeeps, RegisterNewKeeps,
     AdmitNewKeeps, ResumeKeeps, AttachFlowKeeps, ReadControlKeeps, RegisterResumedKeeps,
     ReplaceFailsKeeps, replaceKeeps, ConflictKeeps, SMTT(30) DEF RequestSteps

\* Every step of a flow keeps the invariant.
LEMMA FlowStepsKeep ==
    ASSUME ProxyInv, NEW f \in Requests, FlowSteps(f)
    PROVE  ProxyInv'
  BY FinishFlowKeeps, runKeeps, TimerExpiresKeeps, MigrationExpiredKeeps, CloseFlowKeeps,
     AbortFlowKeeps, beginMigrationKeeps, SMTT(30) DEF FlowSteps

\* An idle server satisfies the invariant.
LEMMA ProxyStart == ProxyInit => ProxyInv
  <1> SUFFICES ASSUME ProxyInit
               PROVE  ProxyInv
    OBVIOUS
  <1>1. NoRequest \in ReqRecs /\ NoRequest.pc = "idle" /\ NoRequest.kind = "cluster"
        /\ NoRequest.session = NoLease
    BY DEF NoRequest, ReqRecs, Stages, Kinds, Leases
  <1>2. /\ NoFlow \in FlowRecs /\ Quiet(NoFlow) /\ ~NoFlow.slot /\ ~NoFlow.reg /\ ~NoFlow.stream
        /\ ~NoFlow.target
    BY Zenon DEF NoFlow, FlowRecs, Leases, Quiet
  <1>3. /\ req \in [Requests -> ReqRecs] /\ flow \in [Requests -> FlowRecs]
        /\ \A i \in Requests : req[i] = NoRequest /\ flow[i] = NoFlow
    BY <1>1, <1>2 DEF ProxyInit
  <1>4. ProxyTyped
    BY <1>3 DEF ProxyInit, ProxyTyped, SlotRecs
  <1>5. Staged(NoRequest) /\ ~Created(NoRequest)
    BY <1>1 DEF Staged, Created, Resuming
  <1>6. Matches(NoRequest, NoFlow)
    BY <1>1, <1>2, <1>5 DEF Matches, Quiet
  <1>7. \A i \in Requests : Staged(req[i]) /\ Matches(req[i], flow[i]) /\ Resumes(i)
    BY <1>1, <1>3, <1>5, <1>6, SMTT(30) DEF Resumes
  <1>8. ASSUME NEW f \in Requests
        PROVE  Bindings(f)
    <2>1. Replacing(f) = {} /\ \A i \in Requests : ~ResumeAt(i, f, "bind")
      BY <1>1, <1>3 DEF Replacing, ResumeAt
    <2> QED
      BY <1>2, <1>3, <2>1 DEF Bindings, Quiet
  <1>9. \A i \in Requests : ~HoldsTCP(i) /\ ~HoldsUDP(i)
    BY <1>1, <1>2, <1>3, SMTT(30) DEF HoldsTCP, HoldsUDP, At
  <1>10. SlotsMatchHolders
    <2>1. /\ {i \in Requests : HoldsTCP(i)} = {} /\ {i \in Requests : HoldsUDP(i)} = {}
          /\ \A u \in Users : /\ {i \in OwnedBy(u) : HoldsTCP(i)} = {}
                              /\ {i \in OwnedBy(u) : HoldsUDP(i)} = {}
      BY <1>9 DEF OwnedBy
    <2>2. \A s \in CarrierSessions : OnSession(s) = {}
      BY <1>1, <1>3 DEF OnSession
    <2>3. \A s \in CarrierSessions : {i \in OnSession(s) : req[i].kind = "udp"
                                                       /\ req[i].pc # "handle"} = {}
      BY <2>2
    <2>4. Cardinality({}) = 0
      BY FS_EmptySet
    <2>5. /\ slots.tcp = 0 /\ slots.udp = 0
          /\ \A u \in Users : slots.tcpOf[u] = 0 /\ slots.udpOf[u] = 0
          /\ \A s \in CarrierSessions : slots.sem[s] = 0 /\ slots.udpSem[s] = 0
      BY DEF ProxyInit
    <2> QED
      BY <2>1, <2>2, <2>3, <2>4, <2>5, SMTT(30) DEF SlotsMatchHolders
  <1>11. \A u \in Users : counts[u] = Cardinality(OfUser(u))
    <2>1. \A u \in Users : OfUser(u) = {} /\ counts[u] = 0
      BY <1>2, <1>3 DEF OfUser, Registered, ProxyInit
    <2> QED
      BY <2>1, FS_EmptySet
  <1>12. rt # "closed"
    BY DEF ProxyInit
  <1> QED
    BY <1>4, <1>7, <1>8, <1>10, <1>11, <1>12 DEF ProxyInv

\* Every step of the server keeps the invariant.
LEMMA ProxyStep == ProxyInv /\ [ProxyNext]_proxyVars => ProxyInv'
  <1> SUFFICES ASSUME ProxyInv, [ProxyNext]_proxyVars
               PROVE  ProxyInv'
    OBVIOUS
  <1>1. CASE \E i \in Requests : RequestSteps(i) \/ FlowSteps(i)
    BY <1>1, RequestStepsKeep, FlowStepsKeep
  <1>2. CASE \E i \in Requests, s \in CarrierSessions, k \in Kinds : Serve(i, s, k)
    BY <1>2, ServeKeeps
  <1>3. CASE \E s \in CarrierSessions : CarrierEnds(s)
    BY <1>3, IdleKeeps DEF CarrierEnds
  <1>4. CASE CloseRuntime
    BY <1>4, IdleKeeps DEF CloseRuntime
  <1>5. CASE CloseRegistry
    BY <1>5, CloseRegistryKeeps
  <1>6. CASE UNCHANGED proxyVars
    BY <1>6, IdleKeeps DEF proxyVars
  <1> QED
    BY <1>1, <1>2, <1>3, <1>4, <1>5, <1>6 DEF ProxyNext

-----------------------------------------------------------------------------
(* The theorems.                                                           *)

\* The invariant holds in every behaviour of Serve, its handlers and the flows.
THEOREM ProxyInductive == ProxySpec => []ProxyInv
  BY ProxyStart, ProxyStep, PTL DEF ProxySpec

\* For any number of sessions, streams and users and any limits: the limiter's
\* counters, Serve's two semaphores and FlowRegistry.principalCounts equal, at
\* every moment, the handlers and flows that hold a slot, a place or a record,
\* so no path of handleIncoming, Resume or finish releases twice or forgets;
\* and no record of the registry is left without an owner that releases it.
THEOREM CountsExact == ProxySpec => []CountsMatchHolders
  <1>1. ProxyInv => CountsMatchHolders
    BY DEF ProxyInv, CountsMatchHolders, RegistryCountsFlows, Registered, Matches
  <1> QED
    BY <1>1, ProxyInductive, PTL

\* For any number of sessions, streams and resumes: once finish has returned,
\* the flow holds no slot, stream, target or record, and, unless one of the two
\* windows named at Unlisted was met, no map entry and no handler on a control
\* channel but one a replacement in progress withdraws.
THEOREM FinishIsClean == ProxySpec => []FinishedLeavesNothing
  <1>1. ProxyInv => FinishedLeavesNothing
    <2> SUFFICES ASSUME ProxyInv, NEW f \in Requests, flow[f].fin = "done"
                 PROVE  /\ ~flow[f].stream /\ ~flow[f].slot /\ ~flow[f].reg /\ ~flow[f].target
                        /\ f \notin raced =>
                             /\ ~flow[f].table
                             /\ \A s \in flow[f].bound :
                                  \E i \in Requests :
                                     At(i, {"resume"}, "replace") /\ req[i].flow = f
                                       /\ s \in {req[i].session, req[i].old}
      BY SMTT(30) DEF FinishedLeavesNothing
    <2>1. ~flow[f].stream /\ ~flow[f].slot /\ ~flow[f].reg /\ ~flow[f].target
      BY SMTT(30) DEF ProxyInv, Matches
    <2>2. f \notin raced => ~flow[f].table /\ flow[f].bound \subseteq Withdrawn(f)
      BY DEF ProxyInv, Bindings
    <2>3. \A s \in Withdrawn(f) : \E i \in Requests :
             At(i, {"resume"}, "replace") /\ req[i].flow = f /\ s \in {req[i].session, req[i].old}
      BY DEF Withdrawn, Replacing, ResumeAt, At
    <2> QED
      BY <2>1, <2>2, <2>3
  <1> QED
    BY <1>1, ProxyInductive, PTL
=============================================================================
