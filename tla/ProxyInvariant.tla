---------------------------- MODULE ProxyInvariant ----------------------------
(***************************************************************************)
(* The inductive invariant of the server side of a session (ProxyServer),  *)
(* the calls of its counters, and the steps that keep the invariant while  *)
(* no flow is admitted, resumed or finished.  ProxyProofs goes on with the *)
(* others and with the theorems.                                           *)
(***************************************************************************)
EXTENDS ProxyServer, FiniteSetTheorems, TLAPS

-----------------------------------------------------------------------------
(* The invariant.                                                          *)

Leases == CarrierSessions \cup {NoLease}

Resuming == {"attach", "lookup", "bind", "replace", "conflict"}

Stages == {"idle", "handle", "dial", "accept", "relay", "limit", "listen", "register", "publish",
           "done"} \cup Resuming

ReqRecs == [pc : Stages, kind : Kinds, session : Leases, flow : Nat, epoch : Nat, old : Leases,
            target : BOOLEAN]

FlowRecs == [table : BOOLEAN, reg : BOOLEAN, epoch : Nat, record : Leases, control : Leases,
             lease : Leases, bound : SUBSET CarrierSessions, timer : SUBSET (Leases \X {0, 1}),
             gen : {0, 1}, stream : BOOLEAN, target : BOOLEAN, slot : BOOLEAN, run : BOOLEAN,
             fin : {"no", "begun", "done"}, expired : BOOLEAN]

SlotRecs == [sem : [CarrierSessions -> Int], udpSem : [CarrierSessions -> Int], tcp : Int,
             udp : Int, tcpOf : [Users -> Int], udpOf : [Users -> Int]]

ProxyTyped ==
    /\ req \in [Requests -> ReqRecs]
    /\ flow \in [Requests -> FlowRecs]
    /\ slots \in SlotRecs
    /\ counts \in [Users -> Nat]

\* The stages of each kind of request.
Staged(r) ==
    /\ r.pc = "idle" => r.session = NoLease /\ r.kind = "cluster"
    /\ r.pc # "idle" => r.session \in CarrierSessions
    /\ r.pc \in {"dial", "accept"} => r.kind \in {"tcp", "new"}
    /\ r.pc = "relay" => r.kind \in {"tcp", "udp"}
    /\ r.pc \in {"limit", "listen"} => r.kind = "udp"
    /\ r.pc \in {"register", "publish"} => r.kind = "new"
    /\ r.pc \in Resuming => r.kind = "resume"

Created(r) == r.kind = "new" /\ r.pc \in {"register", "publish", "done"}

\* Nothing can end this flow yet.
Quiet(fl) == /\ fl.fin = "no" /\ fl.bound = {} /\ fl.timer = {}
             /\ ~fl.run /\ ~fl.expired /\ ~fl.table

\* What a flow holds at the stages of the request that created it.
Matches(r, fl) ==
    /\ ~Created(r) => Quiet(fl) /\ ~fl.slot /\ ~fl.reg /\ ~fl.stream
    /\ r.pc = "register" => Quiet(fl) /\ fl.slot /\ fl.control = r.session
    /\ fl.table => r.pc = "done"
    /\ fl.target => fl.reg
    /\ fl.fin = "done" => ~fl.stream /\ ~fl.slot /\ ~fl.reg
    /\ fl.reg => r.pc \in {"register", "publish"} \/ fl.table \/ fl.fin = "begun"

\* A resume names a flow that was admitted.
Resumes(i) ==
    req[i].kind = "resume" =>
        /\ req[i].flow \in Requests /\ req[req[i].flow].kind = "new"
        /\ req[i].pc \in Resuming => req[req[i].flow].pc = "done"

\* The requests that are replacing, or about to replace, the carrier of f.
ResumeAt(i, f, pc) == req[i].kind = "resume" /\ req[i].pc = pc /\ req[i].flow = f
Replacing(f) == {i \in Requests : ResumeAt(i, f, "replace")}
Withdrawn(f) == {s \in Leases : \E i \in Replacing(f) : s = req[i].session \/ s = req[i].old}

\* The control channels a flow is bound to, unless two ends of it overlapped:
\* its own and those that a replacement in progress will withdraw.
Bindings(f) ==
    /\ flow[f].fin # "no" => ~flow[f].table /\ flow[f].bound \subseteq Withdrawn(f)
    /\ flow[f].fin = "no" =>
         /\ flow[f].bound \subseteq {flow[f].control} \cup Withdrawn(f)
         /\ Replacing(f) # {} => \E j \in Replacing(f) : flow[f].control = req[j].session
         /\ \A i \in Requests : ResumeAt(i, f, "bind") =>
               \/ flow[f].control = req[i].old
               \/ \E j \in Replacing(f) : flow[f].control = req[j].session

ProxyInv ==
    /\ ProxyTyped
    /\ \A i \in Requests : Staged(req[i]) /\ Matches(req[i], flow[i]) /\ Resumes(i)
    /\ rt = "closed" => \A f \in Requests : ~flow[f].reg
    /\ \A f \in Requests \ raced : Bindings(f)
    /\ SlotsMatchHolders
    /\ \A u \in Users : counts[u] = Cardinality(OfUser(u))

-----------------------------------------------------------------------------
(* Counting.                                                               *)

\* How much a set grows when one index may enter or leave it.
Delta(before, after) == (IF after THEN 1 ELSE 0) - (IF before THEN 1 ELSE 0)

\* Moving one index in or out of a set of requests moves its size by Delta.
LEMMA Counted ==
    ASSUME NEW S \in SUBSET Requests, NEW T \in SUBSET Requests, NEW i \in Requests,
           \A j \in Requests \ {i} : j \in T <=> j \in S
    PROVE  /\ Cardinality(S) \in Nat
           /\ Cardinality(T) = Cardinality(S) + Delta(i \in S, i \in T)
           /\ i \in S => Cardinality(S) >= 1
  <1>1. IsFiniteSet(Requests)
    BY ProxyBounds, FS_Interval DEF Requests
  <1>2. /\ IsFiniteSet(S) /\ IsFiniteSet(T) /\ Cardinality(S) \in Nat /\ Cardinality(T) \in Nat
    BY <1>1, FS_Subset, FS_CardinalityType
  <1>3. CASE i \in S <=> i \in T
    <2>1. S = T
      BY <1>3
    <2>2. i \in S => Cardinality(S) >= 1
      BY <1>2, FS_EmptySet
    <2> QED
      BY <1>2, <1>3, <2>1, <2>2 DEF Delta
  <1>4. CASE i \notin S /\ i \in T
    <2>1. T = S \cup {i}
      BY <1>4
    <2>2. Cardinality(S \cup {i}) = Cardinality(S) + 1
      BY <1>2, <1>4, FS_AddElement, Zenon
    <2> QED
      BY <1>2, <1>4, <2>1, <2>2 DEF Delta
  <1>5. CASE i \in S /\ i \notin T
    <2>1. S = T \cup {i}
      BY <1>5
    <2>2. Cardinality(T \cup {i}) = Cardinality(T) + 1
      BY <1>2, <1>5, FS_AddElement, Zenon
    <2> QED
      BY <1>2, <1>5, <2>1, <2>2 DEF Delta
  <1> QED
    BY <1>3, <1>4, <1>5

\* The sets behind the counters.
TcpOf(u) == {i \in OwnedBy(u) : HoldsTCP(i)}
UdpOf(u) == {i \in OwnedBy(u) : HoldsUDP(i)}
Tcp == {i \in Requests : HoldsTCP(i)}
Udp == {i \in Requests : HoldsUDP(i)}
Associated(i) == req[i].kind = "udp" /\ req[i].pc \notin {"idle", "done", "handle"}
Live(i) == req[i].pc \notin {"idle", "done"}

\* From a to b, the counters of session s and its owner move by these amounts,
\* and no others.
Moves(a, b, s, tcp, udp, live, assoc) ==
    /\ b \in SlotRecs
    /\ b.tcp = a.tcp + tcp
    /\ b.udp = a.udp + udp
    /\ \A u \in Users :
         /\ b.tcpOf[u] = a.tcpOf[u] + (IF u = Owner[s] THEN tcp ELSE 0)
         /\ b.udpOf[u] = a.udpOf[u] + (IF u = Owner[s] THEN udp ELSE 0)
    /\ \A t \in CarrierSessions :
         /\ b.sem[t] = a.sem[t] + (IF t = s THEN live ELSE 0)
         /\ b.udpSem[t] = a.udpSem[t] + (IF t = s THEN assoc ELSE 0)

SlotsMove(s, tcp, udp, live, assoc) == Moves(slots, slots', s, tcp, udp, live, assoc)

\* The counters keep matching when they move as one request does.
LEMMA SlotsFollow ==
    ASSUME ProxyTyped, SlotsMatchHolders, NEW i \in Requests, NEW s \in CarrierSessions,
           req' \in [Requests -> ReqRecs], flow' \in [Requests -> FlowRecs],
           \A j \in Requests \ {i} : req'[j] = req[j] /\ flow'[j].slot = flow[j].slot,
           req[i].session = s \/ (~HoldsTCP(i) /\ ~HoldsUDP(i) /\ ~Live(i) /\ ~Associated(i)),
           req'[i].session = s,
           SlotsMove(s, Delta(HoldsTCP(i), HoldsTCP(i)'), Delta(HoldsUDP(i), HoldsUDP(i)'),
                     Delta(Live(i), Live(i)'), Delta(Associated(i), Associated(i)'))
    PROVE  SlotsMatchHolders'
  <1>1. NoLease \notin CarrierSessions /\ s # NoLease
    BY ProxyBounds
  <1>2. \A j \in Requests \ {i} : /\ HoldsTCP(j)' <=> HoldsTCP(j)
                                  /\ HoldsUDP(j)' <=> HoldsUDP(j)
    BY DEF HoldsTCP, HoldsUDP, At
  <1>3. slots'.tcp = Cardinality(Tcp')
    <2>1. Tcp \in SUBSET Requests /\ Tcp' \in SUBSET Requests
      BY DEF Tcp
    <2>2. \A j \in Requests \ {i} : j \in Tcp' <=> j \in Tcp
      BY <1>2 DEF Tcp
    <2>3. (i \in Tcp <=> HoldsTCP(i)) /\ (i \in Tcp' <=> HoldsTCP(i)')
      BY DEF Tcp
    <2>4. Cardinality(Tcp') = Cardinality(Tcp) + Delta(i \in Tcp, i \in Tcp')
      BY <2>1, <2>2, Counted
    <2>5. slots.tcp = Cardinality(Tcp)
      BY DEF SlotsMatchHolders, Tcp
    <2> QED
      BY <2>3, <2>4, <2>5 DEF SlotsMove, Moves, Delta
  <1>4. slots'.udp = Cardinality(Udp')
    <2>1. Udp \in SUBSET Requests /\ Udp' \in SUBSET Requests
      BY DEF Udp
    <2>2. \A j \in Requests \ {i} : j \in Udp' <=> j \in Udp
      BY <1>2 DEF Udp
    <2>3. (i \in Udp <=> HoldsUDP(i)) /\ (i \in Udp' <=> HoldsUDP(i)')
      BY DEF Udp
    <2>4. Cardinality(Udp') = Cardinality(Udp) + Delta(i \in Udp, i \in Udp')
      BY <2>1, <2>2, Counted
    <2>5. slots.udp = Cardinality(Udp)
      BY DEF SlotsMatchHolders, Udp
    <2> QED
      BY <2>3, <2>4, <2>5 DEF SlotsMove, Moves, Delta
  <1>5. ASSUME NEW u \in Users
        PROVE  slots'.tcpOf[u] = Cardinality(TcpOf(u)')
    <2>1. TcpOf(u) \in SUBSET Requests /\ TcpOf(u)' \in SUBSET Requests
      BY DEF TcpOf, OwnedBy
    <2>2. \A j \in Requests \ {i} : j \in TcpOf(u)' <=> j \in TcpOf(u)
      BY <1>2 DEF TcpOf, OwnedBy, UserOf
    <2>3. /\ i \in TcpOf(u) <=> u = Owner[s] /\ HoldsTCP(i)
          /\ i \in TcpOf(u)' <=> u = Owner[s] /\ HoldsTCP(i)'
      BY <1>1 DEF TcpOf, OwnedBy, UserOf
    <2>4. Cardinality(TcpOf(u)') = Cardinality(TcpOf(u)) + Delta(i \in TcpOf(u), i \in TcpOf(u)')
      BY <2>1, <2>2, Counted
    <2>5. slots.tcpOf[u] = Cardinality(TcpOf(u)) /\ Cardinality(TcpOf(u)) \in Nat
      BY <2>1, <2>2, Counted, Zenon DEF SlotsMatchHolders, TcpOf
    <2> QED
      BY <2>3, <2>4, <2>5 DEF SlotsMove, Moves, Delta
  <1>6. ASSUME NEW u \in Users
        PROVE  slots'.udpOf[u] = Cardinality(UdpOf(u)')
    <2>1. UdpOf(u) \in SUBSET Requests /\ UdpOf(u)' \in SUBSET Requests
      BY DEF UdpOf, OwnedBy
    <2>2. \A j \in Requests \ {i} : j \in UdpOf(u)' <=> j \in UdpOf(u)
      BY <1>2 DEF UdpOf, OwnedBy, UserOf
    <2>3. /\ i \in UdpOf(u) <=> u = Owner[s] /\ HoldsUDP(i)
          /\ i \in UdpOf(u)' <=> u = Owner[s] /\ HoldsUDP(i)'
      BY <1>1 DEF UdpOf, OwnedBy, UserOf
    <2>4. Cardinality(UdpOf(u)') = Cardinality(UdpOf(u)) + Delta(i \in UdpOf(u), i \in UdpOf(u)')
      BY <2>1, <2>2, Counted
    <2>5. slots.udpOf[u] = Cardinality(UdpOf(u)) /\ Cardinality(UdpOf(u)) \in Nat
      BY <2>1, <2>2, Counted, Zenon DEF SlotsMatchHolders, UdpOf
    <2> QED
      BY <2>3, <2>4, <2>5 DEF SlotsMove, Moves, Delta
  <1>7. ASSUME NEW t \in CarrierSessions
        PROVE  slots'.sem[t] = Cardinality(OnSession(t)')
    <2>1. OnSession(t) \in SUBSET Requests /\ OnSession(t)' \in SUBSET Requests
      BY DEF OnSession
    <2>2. \A j \in Requests \ {i} : j \in OnSession(t)' <=> j \in OnSession(t)
      BY DEF OnSession
    <2>3. /\ i \in OnSession(t) <=> t = s /\ Live(i)
          /\ i \in OnSession(t)' <=> t = s /\ Live(i)'
      BY DEF OnSession, Live
    <2>4. Cardinality(OnSession(t)')
             = Cardinality(OnSession(t)) + Delta(i \in OnSession(t), i \in OnSession(t)')
      BY <2>1, <2>2, Counted
    <2>5. slots.sem[t] = Cardinality(OnSession(t)) /\ Cardinality(OnSession(t)) \in Nat
      BY <2>1, <2>2, Counted, Zenon DEF SlotsMatchHolders
    <2> QED
      BY <2>3, <2>4, <2>5 DEF SlotsMove, Moves, Delta
  <1>8. ASSUME NEW t \in CarrierSessions
        PROVE  slots'.udpSem[t] = Cardinality({j \in OnSession(t) : req[j].kind = "udp"
                                                                /\ req[j].pc # "handle"}')
    <2> DEFINE A == {j \in OnSession(t) : req[j].kind = "udp" /\ req[j].pc # "handle"}
    <2>1. A \in SUBSET Requests /\ A' \in SUBSET Requests
      BY DEF OnSession
    <2>2. \A j \in Requests \ {i} : j \in A' <=> j \in A
      BY DEF OnSession
    <2>3. /\ i \in A <=> t = s /\ Associated(i)
          /\ i \in A' <=> t = s /\ Associated(i)'
      BY DEF OnSession, Associated
    <2>4. slots.udpSem[t] = Cardinality(A)
      BY DEF SlotsMatchHolders
    <2> HIDE DEF A
    <2>5. Cardinality(A') = Cardinality(A) + Delta(i \in A, i \in A') /\ Cardinality(A) \in Nat
      BY <2>1, <2>2, Counted
    <2>6. slots'.udpSem[t] = Cardinality(A')
      BY <2>3, <2>4, <2>5 DEF SlotsMove, Moves, Delta
    <2> QED
      BY <2>6 DEF A
  <1> QED
    BY <1>3, <1>4, <1>5, <1>6, <1>7, <1>8 DEF SlotsMatchHolders, Tcp, Udp, TcpOf, UdpOf

-----------------------------------------------------------------------------
(* The calls of the limiter and the semaphores.                            *)

\* The guards of ReleaseTCP and ReleaseUDP never meet a counter at zero.
LEMMA HolderCounted ==
    ASSUME SlotsMatchHolders, NEW i \in Requests, req[i].session \in CarrierSessions
    PROVE  /\ UserOf(i) \in Users
           /\ HoldsTCP(i) => slots.tcp >= 1 /\ slots.tcpOf[UserOf(i)] >= 1
           /\ HoldsUDP(i) => slots.udp >= 1 /\ slots.udpOf[UserOf(i)] >= 1
  <1>1. UserOf(i) \in Users /\ i \in OwnedBy(UserOf(i))
    BY ProxyBounds DEF UserOf, Users, OwnedBy
  <1>2. \A S \in SUBSET Requests : i \in S => Cardinality(S) >= 1
    BY Counted
  <1>3. HoldsTCP(i) => /\ Tcp \in SUBSET Requests /\ i \in Tcp
                       /\ TcpOf(UserOf(i)) \in SUBSET Requests /\ i \in TcpOf(UserOf(i))
    BY <1>1 DEF Tcp, TcpOf, OwnedBy
  <1>4. HoldsUDP(i) => /\ Udp \in SUBSET Requests /\ i \in Udp
                       /\ UdpOf(UserOf(i)) \in SUBSET Requests /\ i \in UdpOf(UserOf(i))
    BY <1>1 DEF Udp, UdpOf, OwnedBy
  <1>5. HoldsTCP(i) => slots.tcp >= 1 /\ slots.tcpOf[UserOf(i)] >= 1
    BY <1>1, <1>2, <1>3, Zenon DEF SlotsMatchHolders, Tcp, TcpOf
  <1>6. HoldsUDP(i) => slots.udp >= 1 /\ slots.udpOf[UserOf(i)] >= 1
    BY <1>1, <1>2, <1>4, Zenon DEF SlotsMatchHolders, Udp, UdpOf
  <1> QED
    BY <1>1, <1>5, <1>6

\* Two movements of the counters of one session add up.
LEMMA MovesTwice ==
    ASSUME NEW a \in SlotRecs, NEW b \in SlotRecs, NEW c, NEW s \in CarrierSessions,
           NEW t1 \in Int, NEW u1 \in Int, NEW l1 \in Int, NEW a1 \in Int,
           NEW t2 \in Int, NEW u2 \in Int, NEW l2 \in Int, NEW a2 \in Int,
           Moves(a, b, s, t1, u1, l1, a1), Moves(b, c, s, t2, u2, l2, a2)
    PROVE  Moves(a, c, s, t1 + t2, u1 + u2, l1 + l2, a1 + a2)
  <1>1. c \in SlotRecs /\ c.tcp = a.tcp + (t1 + t2) /\ c.udp = a.udp + (u1 + u2)
    BY DEF Moves, SlotRecs
  <1>2. ASSUME NEW u \in Users
        PROVE  /\ c.tcpOf[u] = a.tcpOf[u] + (IF u = Owner[s] THEN t1 + t2 ELSE 0)
               /\ c.udpOf[u] = a.udpOf[u] + (IF u = Owner[s] THEN u1 + u2 ELSE 0)
    BY DEF Moves, SlotRecs
  <1>3. ASSUME NEW t \in CarrierSessions
        PROVE  /\ c.sem[t] = a.sem[t] + (IF t = s THEN l1 + l2 ELSE 0)
               /\ c.udpSem[t] = a.udpSem[t] + (IF t = s THEN a1 + a2 ELSE 0)
    BY DEF Moves, SlotRecs
  <1> QED
    BY <1>1, <1>2, <1>3 DEF Moves

\* Doing nothing moves nothing.
LEMMA MovesNot ==
    ASSUME NEW sl \in SlotRecs, NEW s \in CarrierSessions
    PROVE  Moves(sl, sl, s, 0, 0, 0, 0)
  BY DEF Moves, SlotRecs

\* Serve's semaphore takes one stream.
LEMMA MovesServe ==
    ASSUME NEW sl \in SlotRecs, NEW s \in CarrierSessions
    PROVE  Moves(sl, [sl EXCEPT !.sem[s] = @ + 1], s, 0, 0, 1, 0)
  BY DEF Moves, SlotRecs

\* The deferred receive frees one place of Serve's semaphore.
LEMMA MovesLeave ==
    ASSUME NEW sl \in SlotRecs, NEW i, req[i].session \in CarrierSessions
    PROVE  Moves(sl, Leave(sl, i), req[i].session, 0, 0, -1, 0)
  BY DEF Moves, SlotRecs, Leave

\* acquireUDPAssociation takes one place of the association semaphore.
LEMMA MovesAssociate ==
    ASSUME NEW sl \in SlotRecs, NEW s \in CarrierSessions
    PROVE  Moves(sl, [sl EXCEPT !.udpSem[s] = @ + 1], s, 0, 0, 0, 1)
  BY DEF Moves, SlotRecs

\* releaseUDPAssociation frees one place of it.
LEMMA MovesDissociate ==
    ASSUME NEW sl \in SlotRecs, NEW i, req[i].session \in CarrierSessions
    PROVE  Moves(sl, releaseUDPAssociation(sl, i), req[i].session, 0, 0, 0, -1)
  BY DEF Moves, SlotRecs, releaseUDPAssociation

\* AcquireTCP counts one slot, in total and for the user.
LEMMA MovesAcquireTCP ==
    ASSUME NEW sl \in SlotRecs, NEW s \in CarrierSessions
    PROVE  Moves(sl, AcquireTCP(sl, Owner[s]), s, 1, 0, 0, 0)
  <1> DEFINE u == Owner[s]
             x == sl.tcp + 1
             g == [sl.tcpOf EXCEPT ![u] = sl.tcpOf[u] + 1]
             q == [sl EXCEPT !.tcp = x, !.tcpOf = g]
  <1>1. u \in Users
    BY DEF Users
  <1>2. AcquireTCP(sl, u) = q
    BY DEF AcquireTCP
  <1>3. /\ x = sl.tcp + 1 /\ x \in Int /\ g \in [Users -> Int]
        /\ \A v \in Users : g[v] = sl.tcpOf[v] + (IF v = u THEN 1 ELSE 0)
    BY <1>1 DEF SlotRecs
  <1> HIDE DEF x, g
  <1>4. /\ q \in SlotRecs /\ q.tcp = x /\ q.tcpOf = g /\ q.sem = sl.sem /\ q.udpSem = sl.udpSem
        /\ q.udp = sl.udp /\ q.udpOf = sl.udpOf
    BY <1>3, Zenon DEF SlotRecs
  <1> HIDE DEF q
  <1> QED
    BY <1>2, <1>3, <1>4 DEF Moves, SlotRecs

\* AcquireUDP counts one slot, in total and for the user.
LEMMA MovesAcquireUDP ==
    ASSUME NEW sl \in SlotRecs, NEW s \in CarrierSessions
    PROVE  Moves(sl, AcquireUDP(sl, Owner[s]), s, 0, 1, 0, 0)
  <1> DEFINE u == Owner[s]
             x == sl.udp + 1
             g == [sl.udpOf EXCEPT ![u] = sl.udpOf[u] + 1]
             q == [sl EXCEPT !.udp = x, !.udpOf = g]
  <1>1. u \in Users
    BY DEF Users
  <1>2. AcquireUDP(sl, u) = q
    BY DEF AcquireUDP
  <1>3. /\ x = sl.udp + 1 /\ x \in Int /\ g \in [Users -> Int]
        /\ \A v \in Users : g[v] = sl.udpOf[v] + (IF v = u THEN 1 ELSE 0)
    BY <1>1 DEF SlotRecs
  <1> HIDE DEF x, g
  <1>4. /\ q \in SlotRecs /\ q.udp = x /\ q.udpOf = g /\ q.sem = sl.sem /\ q.udpSem = sl.udpSem
        /\ q.tcp = sl.tcp /\ q.tcpOf = sl.tcpOf
    BY <1>3, Zenon DEF SlotRecs
  <1> HIDE DEF q
  <1> QED
    BY <1>2, <1>3, <1>4 DEF Moves, SlotRecs

\* ReleaseTCP gives one slot back where one is counted.
LEMMA MovesReleaseTCP ==
    ASSUME NEW sl \in SlotRecs, NEW s \in CarrierSessions,
           sl.tcp >= 1, sl.tcpOf[Owner[s]] >= 1
    PROVE  Moves(sl, ReleaseTCP(sl, Owner[s]), s, -1, 0, 0, 0)
  <1> DEFINE u == Owner[s]
             x == IF sl.tcp > 0 THEN sl.tcp - 1 ELSE sl.tcp
             g == [sl.tcpOf EXCEPT ![u] = IF sl.tcpOf[u] > 0 THEN sl.tcpOf[u] - 1 ELSE sl.tcpOf[u]]
             q == [sl EXCEPT !.tcp = x, !.tcpOf = g]
  <1>1. u \in Users
    BY DEF Users
  <1>2. ReleaseTCP(sl, u) = q
    BY DEF ReleaseTCP
  <1>3. /\ x = sl.tcp + -1 /\ x \in Int /\ g \in [Users -> Int]
        /\ \A v \in Users : g[v] = sl.tcpOf[v] + (IF v = u THEN -1 ELSE 0)
    BY <1>1 DEF SlotRecs
  <1> HIDE DEF x, g
  <1>4. /\ q \in SlotRecs /\ q.tcp = x /\ q.tcpOf = g /\ q.sem = sl.sem /\ q.udpSem = sl.udpSem
        /\ q.udp = sl.udp /\ q.udpOf = sl.udpOf
    BY <1>3, Zenon DEF SlotRecs
  <1> HIDE DEF q
  <1> QED
    BY <1>2, <1>3, <1>4 DEF Moves, SlotRecs

\* ReleaseUDP gives one slot back where one is counted.
LEMMA MovesReleaseUDP ==
    ASSUME NEW sl \in SlotRecs, NEW s \in CarrierSessions,
           sl.udp >= 1, sl.udpOf[Owner[s]] >= 1
    PROVE  Moves(sl, ReleaseUDP(sl, Owner[s]), s, 0, -1, 0, 0)
  <1> DEFINE u == Owner[s]
             x == IF sl.udp > 0 THEN sl.udp - 1 ELSE sl.udp
             g == [sl.udpOf EXCEPT ![u] = IF sl.udpOf[u] > 0 THEN sl.udpOf[u] - 1 ELSE sl.udpOf[u]]
             q == [sl EXCEPT !.udp = x, !.udpOf = g]
  <1>1. u \in Users
    BY DEF Users
  <1>2. ReleaseUDP(sl, u) = q
    BY DEF ReleaseUDP
  <1>3. /\ x = sl.udp + -1 /\ x \in Int /\ g \in [Users -> Int]
        /\ \A v \in Users : g[v] = sl.udpOf[v] + (IF v = u THEN -1 ELSE 0)
    BY <1>1 DEF SlotRecs
  <1> HIDE DEF x, g
  <1>4. /\ q \in SlotRecs /\ q.udp = x /\ q.udpOf = g /\ q.sem = sl.sem /\ q.udpSem = sl.udpSem
        /\ q.tcp = sl.tcp /\ q.tcpOf = sl.tcpOf
    BY <1>3, Zenon DEF SlotRecs
  <1> HIDE DEF q
  <1> QED
    BY <1>2, <1>3, <1>4 DEF Moves, SlotRecs

\* A handler that gives back what it holds and returns.
LEMMA LeaveHolding ==
    ASSUME slots \in SlotRecs, SlotsMatchHolders, NEW i \in Requests,
           req[i].session \in CarrierSessions
    PROVE  /\ HoldsTCP(i) /\ slots' = ReleaseTCP(slots, UserOf(i))
                => SlotsMove(req[i].session, -1, 0, 0, 0)
           /\ HoldsTCP(i) /\ slots' = Leave(ReleaseTCP(slots, UserOf(i)), i)
                => SlotsMove(req[i].session, -1, 0, -1, 0)
           /\ slots' = Leave(releaseUDPAssociation(slots, i), i)
                => SlotsMove(req[i].session, 0, 0, -1, -1)
           /\ HoldsUDP(i) /\ slots' = Leave(releaseUDPAssociation(ReleaseUDP(slots, UserOf(i)), i), i)
                => SlotsMove(req[i].session, 0, -1, -1, -1)
  <1> DEFINE s == req[i].session
  <1>0. s \in CarrierSessions /\ UserOf(i) = Owner[s] /\ 0 \in Int /\ -1 \in Int
    BY DEF UserOf
  <1>1. ASSUME NEW sl \in SlotRecs, NEW t \in Int, NEW u \in Int, NEW a \in Int, NEW c,
               Moves(slots, sl, s, t, u, 0, a), c = Leave(sl, i)
        PROVE  Moves(slots, c, s, t, u, -1, a)
    <2>1. Moves(sl, c, s, 0, 0, -1, 0)
      BY <1>1, MovesLeave
    <2>2. Moves(slots, c, s, t + 0, u + 0, 0 + (-1), a + 0)
      BY <1>0, <1>1, <2>1, MovesTwice
    <2>3. t + 0 = t /\ u + 0 = u /\ 0 + (-1) = -1 /\ a + 0 = a
      BY <1>1
    <2> QED
      BY <2>2, <2>3
  <1>2. ASSUME NEW sl \in SlotRecs, NEW u \in Int,
               Moves(slots, sl, s, 0, u, 0, 0)
        PROVE  Moves(slots, releaseUDPAssociation(sl, i), s, 0, u, 0, -1)
    <2>1. Moves(sl, releaseUDPAssociation(sl, i), s, 0, 0, 0, -1)
      BY <1>0, MovesDissociate
    <2>2. Moves(slots, releaseUDPAssociation(sl, i), s, 0 + 0, u + 0, 0 + 0, 0 + (-1))
      BY <1>0, <1>2, <2>1, MovesTwice
    <2>3. u + 0 = u /\ 0 + (-1) = -1 /\ 0 + 0 = 0
      BY <1>2
    <2> QED
      BY <2>2, <2>3
  <1>3. HoldsTCP(i) => Moves(slots, ReleaseTCP(slots, UserOf(i)), s, -1, 0, 0, 0)
    BY <1>0, HolderCounted, MovesReleaseTCP
  <1>4. HoldsUDP(i) => Moves(slots, ReleaseUDP(slots, UserOf(i)), s, 0, -1, 0, 0)
    BY <1>0, HolderCounted, MovesReleaseUDP
  <1>5. Moves(slots, slots, s, 0, 0, 0, 0)
    BY <1>0, MovesNot
  <1>6. \A sl, t, u, l, a : Moves(slots, sl, s, t, u, l, a) => sl \in SlotRecs
    BY DEF Moves
  <1> HIDE DEF s
  <1>7. HoldsTCP(i) /\ slots' = Leave(ReleaseTCP(slots, UserOf(i)), i)
                => Moves(slots, slots', s, -1, 0, -1, 0)
    BY <1>0, <1>1, <1>3, <1>6
  <1>8. slots' = Leave(releaseUDPAssociation(slots, i), i)
                => Moves(slots, slots', s, 0, 0, -1, -1)
    BY <1>0, <1>1, <1>2, <1>5, <1>6
  <1>9. HoldsUDP(i) /\ slots' = Leave(releaseUDPAssociation(ReleaseUDP(slots, UserOf(i)), i), i)
                => Moves(slots, slots', s, 0, -1, -1, -1)
    BY <1>0, <1>1, <1>2, <1>4, <1>6
  <1> QED
    BY <1>3, <1>7, <1>8, <1>9 DEF SlotsMove, s

-----------------------------------------------------------------------------
(* One request advances.                                                   *)

Advance(i, pc, old) ==
    /\ req' \in [Requests -> ReqRecs]
    /\ \A j \in Requests \ {i} : req'[j] = req[j]
    /\ req'[i].pc = pc /\ req'[i].old = old
    /\ req'[i].kind = req[i].kind /\ req'[i].session = req[i].session
    /\ req'[i].flow = req[i].flow

\* The three forms in which the handlers write their stage.
LEMMA Advances ==
    ASSUME ProxyTyped, NEW i \in Requests, NEW pc \in Stages
    PROVE  /\ Step(i, pc) => Advance(i, pc, req[i].old)
           /\ \A b \in BOOLEAN : req' = [req EXCEPT ![i].pc = pc, ![i].target = b]
                                   => Advance(i, pc, req[i].old)
           /\ \A o \in Leases : req' = [req EXCEPT ![i].pc = pc, ![i].old = o]
                                   => Advance(i, pc, o)
  <1>1. req \in [Requests -> ReqRecs] /\ req[i] \in ReqRecs
    BY DEF ProxyTyped
  <1>2. ASSUME NEW r \in ReqRecs, req' = [req EXCEPT ![i] = r], r.pc = pc,
               r.kind = req[i].kind, r.session = req[i].session, r.flow = req[i].flow
        PROVE  Advance(i, pc, r.old)
    BY <1>1, <1>2 DEF Advance
  <1>3. Step(i, pc) => Advance(i, pc, req[i].old)
    <2> DEFINE r == [req[i] EXCEPT !.pc = pc]
    <2>1. /\ r \in ReqRecs /\ r.pc = pc /\ r.kind = req[i].kind /\ r.session = req[i].session
          /\ r.flow = req[i].flow /\ r.old = req[i].old
      BY <1>1 DEF ReqRecs
    <2>2. Step(i, pc) => req' = [req EXCEPT ![i] = r]
      BY DEF Step
    <2> HIDE DEF r
    <2> QED
      BY <1>2, <2>1, <2>2
  <1>4. ASSUME NEW b \in BOOLEAN, req' = [req EXCEPT ![i].pc = pc, ![i].target = b]
        PROVE  Advance(i, pc, req[i].old)
    <2> DEFINE r == [req[i] EXCEPT !.pc = pc, !.target = b]
    <2>1. /\ r \in ReqRecs /\ r.pc = pc /\ r.kind = req[i].kind /\ r.session = req[i].session
          /\ r.flow = req[i].flow /\ r.old = req[i].old
      BY <1>1, Zenon DEF ReqRecs
    <2>2. req' = [req EXCEPT ![i] = r]
      BY <1>4, Zenon
    <2> HIDE DEF r
    <2> QED
      BY <1>2, <2>1, <2>2, Zenon
  <1>5. ASSUME NEW o \in Leases, req' = [req EXCEPT ![i].pc = pc, ![i].old = o]
        PROVE  Advance(i, pc, o)
    <2> DEFINE r == [req[i] EXCEPT !.pc = pc, !.old = o]
    <2>1. /\ r \in ReqRecs /\ r.pc = pc /\ r.kind = req[i].kind /\ r.session = req[i].session
          /\ r.flow = req[i].flow /\ r.old = o
      BY <1>1, Zenon DEF ReqRecs
    <2>2. req' = [req EXCEPT ![i] = r]
      BY <1>5, Zenon
    <2> HIDE DEF r
    <2> QED
      BY <1>2, <2>1, <2>2, Zenon
  <1> QED
    BY <1>3, <1>4, <1>5

\* The flow a request advances with, its own or the one it resumes, changes
\* only as Matches allows.
LEMMA AdvanceLocal ==
    ASSUME ProxyInv, NEW i \in Requests, NEW pc \in Stages, NEW old, Advance(i, pc, old),
           req[i].pc \notin {"idle", "done"}, pc # "idle", Staged(req'[i]),
           \A j \in Requests : Matches(req'[j], flow'[j]),
           req[i].kind = "resume" /\ pc \in Resuming => req[req[i].flow].pc = "done"
    PROVE  \A j \in Requests : Staged(req'[j]) /\ Matches(req'[j], flow'[j]) /\ Resumes(j)'
  <1>1. ASSUME NEW j \in Requests
        PROVE  Staged(req'[j])
    BY DEF ProxyInv, Advance
  <1>2. ASSUME NEW j \in Requests
        PROVE  Resumes(j)'
    <2>1. Resumes(j) /\ Resumes(i)
      BY DEF ProxyInv
    <2>2. req'[j].kind = req[j].kind /\ req'[j].flow = req[j].flow
      BY DEF Advance
    <2>3. ASSUME req[j].kind = "resume"
          PROVE  /\ req'[req[j].flow].kind = req[req[j].flow].kind
                 /\ req[req[j].flow].pc = "done" => req'[req[j].flow].pc = "done"
      BY <2>1, <2>3 DEF Advance, Resumes
    <2>4. ASSUME req[j].kind = "resume", req'[j].pc \in Resuming
          PROVE  req[req[j].flow].pc = "done"
      BY <2>1, <2>2, <2>4 DEF Advance, Resumes
    <2> QED
      BY <2>1, <2>2, <2>3, <2>4 DEF Resumes
  <1> QED
    BY <1>1, <1>2

-----------------------------------------------------------------------------
(* Bindings, and the counts of the registry.                               *)

\* The resumes of flow f stand where they stood.
ResumesKept(f) ==
    \A j \in Requests :
       /\ ResumeAt(j, f, "replace")' <=> ResumeAt(j, f, "replace")
       /\ ResumeAt(j, f, "bind")' => ResumeAt(j, f, "bind")
       /\ ResumeAt(j, f, "replace") \/ ResumeAt(j, f, "bind")' =>
            req'[j].session = req[j].session /\ req'[j].old = req[j].old

\* A flow's bindings shrink, or its finish withdraws its own.
BindingsShrink(f) ==
    /\ flow'[f].bound \subseteq flow[f].bound
    /\ \/ /\ flow'[f].control = flow[f].control
          /\ flow'[f].fin = "no" <=> flow[f].fin = "no"
          /\ flow'[f].table => flow[f].table \/ flow'[f].fin = "no"
       \/ /\ flow[f].fin = "no" /\ flow'[f].fin # "no" /\ ~flow'[f].table
          /\ flow[f].control \notin flow'[f].bound

\* A flow's bindings stay accounted for when they shrink.
LEMMA BindingsKept ==
    ASSUME NEW f \in Requests, Bindings(f), ResumesKept(f), BindingsShrink(f)
    PROVE  Bindings(f)'
  <1>1. Replacing(f)' = Replacing(f)
    BY DEF Replacing, ResumesKept
  <1>2. \A j \in Replacing(f) : req'[j].session = req[j].session /\ req'[j].old = req[j].old
    BY DEF Replacing, ResumesKept
  <1>3. Withdrawn(f)' = Withdrawn(f)
    BY <1>1, <1>2 DEF Withdrawn
  <1>4. ASSUME flow'[f].fin # "no"
        PROVE  ~flow'[f].table /\ flow'[f].bound \subseteq Withdrawn(f)'
    BY <1>3, <1>4 DEF Bindings, BindingsShrink
  <1>5. ASSUME flow'[f].fin = "no"
        PROVE  flow[f].fin = "no" /\ flow'[f].control = flow[f].control
    BY <1>5 DEF BindingsShrink
  <1>6. ASSUME flow'[f].fin = "no"
        PROVE  flow'[f].bound \subseteq {flow'[f].control} \cup Withdrawn(f)'
    BY <1>3, <1>5, <1>6 DEF Bindings, BindingsShrink
  <1>7. ASSUME flow'[f].fin = "no", Replacing(f)' # {}
        PROVE  \E j \in Replacing(f)' : flow'[f].control = req'[j].session
    BY <1>1, <1>2, <1>5, <1>7 DEF Bindings
  <1>8. ASSUME flow'[f].fin = "no", NEW i \in Requests, ResumeAt(i, f, "bind")'
        PROVE  \/ flow'[f].control = req'[i].old
               \/ \E j \in Replacing(f)' : flow'[f].control = req'[j].session
    <2>1. ResumeAt(i, f, "bind") /\ req'[i].old = req[i].old
      BY <1>8 DEF ResumesKept
    <2> QED
      BY <1>1, <1>2, <1>5, <1>8, <2>1 DEF Bindings
  <1> QED
    BY <1>4, <1>6, <1>7, <1>8 DEF Bindings

\* A request that is neither at bind nor at replace leaves every flow's
\* resumes alone.
LEMMA AdvanceResumes ==
    ASSUME NEW i \in Requests, NEW pc, Advance(i, pc, req[i].old),
           NEW f, req[i].kind = "resume" /\ req[i].flow = f =>
                    {req[i].pc, pc} \cap {"bind", "replace"} = {}
    PROVE  ResumesKept(f)
  <1>1. ASSUME NEW j \in Requests, j # i
        PROVE  req'[j] = req[j]
    BY <1>1 DEF Advance
  <1>2. ~ResumeAt(i, f, "replace") /\ ~ResumeAt(i, f, "bind")
    BY Zenon DEF ResumeAt
  <1>3. ~ResumeAt(i, f, "replace")' /\ ~ResumeAt(i, f, "bind")'
    BY Zenon DEF ResumeAt, Advance
  <1> QED
    BY <1>1, <1>2, <1>3 DEF ResumesKept, ResumeAt

\* No request moves, so no resume does.
LEMMA SameResumes ==
    ASSUME UNCHANGED req, NEW f
    PROVE  ResumesKept(f)
  BY DEF ResumesKept, ResumeAt

\* The registry's counts follow the record of one flow.
LEMMA CountsFollow ==
    ASSUME ProxyTyped, \A u \in Users : counts[u] = Cardinality(OfUser(u)),
           NEW f \in Requests, flow' \in [Requests -> FlowRecs],
           \A j \in Requests \ {f} : flow'[j].reg = flow[j].reg,
           \A j \in Requests : flow[j].reg \/ flow'[j].reg => req'[j].session = req[j].session,
           \A u \in Users : counts'[u] = counts[u]
                 + (IF u = UserOf(f) THEN Delta(flow[f].reg, flow'[f].reg) ELSE 0)
    PROVE  \A u \in Users : counts'[u] = Cardinality(OfUser(u)')
  <1> SUFFICES ASSUME NEW u \in Users
               PROVE  counts'[u] = Cardinality(OfUser(u)')
    OBVIOUS
  <1>1. OfUser(u) \in SUBSET Requests /\ OfUser(u)' \in SUBSET Requests
    BY DEF OfUser, Registered
  <1>2. \A j \in Requests \ {f} : j \in OfUser(u)' <=> j \in OfUser(u)
    BY DEF OfUser, Registered, UserOf
  <1>3. /\ f \in OfUser(u) <=> flow[f].reg /\ u = UserOf(f)
        /\ f \in OfUser(u)' <=> flow'[f].reg /\ u = UserOf(f)
    BY DEF OfUser, Registered, UserOf
  <1>4. /\ Cardinality(OfUser(u)') = Cardinality(OfUser(u)) + Delta(f \in OfUser(u), f \in OfUser(u)')
        /\ Cardinality(OfUser(u)) \in Nat
    BY <1>1, <1>2, Counted
  <1>5. counts[u] = Cardinality(OfUser(u))
    OBVIOUS
  <1> QED
    BY <1>3, <1>4, <1>5 DEF Delta

\* The registry's counts stay right when no record comes or goes.
LEMMA CountsSame ==
    ASSUME \A u \in Users : counts[u] = Cardinality(OfUser(u)), UNCHANGED counts,
           \A j \in Requests : flow'[j].reg = flow[j].reg,
           \A j \in Requests : flow[j].reg => req'[j].session = req[j].session
    PROVE  \A u \in Users : counts'[u] = Cardinality(OfUser(u)')
  <1>1. \A u \in Users : OfUser(u)' = OfUser(u)
    BY DEF OfUser, Registered, UserOf
  <1> QED
    BY <1>1

\* Every record counts, so Release's guard on the count never hides one.
LEMMA RecordCounted ==
    ASSUME ProxyTyped, \A u \in Users : counts[u] = Cardinality(OfUser(u)),
           NEW f \in Requests, flow[f].reg, UserOf(f) \in Users
    PROVE  counts[UserOf(f)] >= 1
  <1>1. OfUser(UserOf(f)) \in SUBSET Requests /\ f \in OfUser(UserOf(f))
    BY DEF OfUser, Registered
  <1>2. Cardinality(OfUser(UserOf(f))) >= 1
    BY <1>1, Counted
  <1> QED
    BY <1>2

-----------------------------------------------------------------------------
(* The steps of a request that touch no flow.                              *)

\* What slots a request that has created no flow holds.
LEMMA NoFlowHolds ==
    ASSUME ProxyInv, NEW i \in Requests, ~Created(req[i])
    PROVE  /\ HoldsTCP(i) <=> \/ req[i].kind \in {"tcp", "new"} /\ req[i].pc \in {"dial", "accept"}
                              \/ req[i].kind = "tcp" /\ req[i].pc = "relay"
           /\ ~flow[i].slot /\ ~flow[i].reg /\ ~flow[i].target /\ ~flow[i].stream
           /\ Quiet(flow[i])
  <1>1. Matches(req[i], flow[i])
    BY SMTT(30) DEF ProxyInv
  <1> QED
    BY <1>1 DEF Matches, HoldsTCP, At

\* A request without a flow advances, and the counters move with it.
LEMMA RequestOnly ==
    ASSUME ProxyInv, NEW i \in Requests, NEW pc \in Stages, Advance(i, pc, req[i].old),
           UNCHANGED <<flow, counts, rt, raced>>, ~Created(req[i]),
           req[i].pc \notin {"idle", "done"}, pc \notin {"idle", "register"}, Staged(req'[i]),
           req[i].kind = "resume" => {req[i].pc, pc} \cap {"bind", "replace"} = {},
           req[i].kind = "resume" /\ pc \in Resuming => req[req[i].flow].pc = "done",
           SlotsMove(req[i].session,
                     Delta(HoldsTCP(i), HoldsTCP(i)'), Delta(HoldsUDP(i), HoldsUDP(i)'),
                     Delta(Live(i), Live(i)'), Delta(Associated(i), Associated(i)'))
    PROVE  ProxyInv'
  <1>1. ProxyTyped'
    BY DEF ProxyInv, ProxyTyped, Advance, SlotsMove, Moves
  <1>2. \A j \in Requests : Matches(req'[j], flow'[j])
    <2>1. Matches(req'[i], flow'[i])
      BY NoFlowHolds DEF Matches, Created, Quiet, Advance
    <2>2. \A j \in Requests \ {i} : Matches(req'[j], flow'[j])
      BY DEF ProxyInv, Advance
    <2> QED
      BY <2>1, <2>2, SMTT(30)
  <1>3. \A j \in Requests : Staged(req'[j]) /\ Matches(req'[j], flow'[j]) /\ Resumes(j)'
    BY <1>2, AdvanceLocal, SMTT(30)
  <1>4. rt' = "closed" => \A f \in Requests : ~flow'[f].reg
    BY DEF ProxyInv
  <1>5. ASSUME NEW f \in Requests \ raced'
        PROVE  Bindings(f)'
    <2>1. ResumesKept(f)
      BY AdvanceResumes
    <2>2. BindingsShrink(f)
      BY DEF BindingsShrink
    <2> QED
      BY <1>5, <2>1, <2>2, BindingsKept DEF ProxyInv
  <1>6. SlotsMatchHolders'
    <2>0. Staged(req[i])
      BY DEF ProxyInv
    <2>1. req[i].session \in CarrierSessions
      BY <2>0 DEF Staged
    <2>2. req'[i].session = req[i].session
      BY DEF Advance
    <2>3. \A j \in Requests \ {i} : req'[j] = req[j] /\ flow'[j].slot = flow[j].slot
      BY SMTT(30) DEF Advance
    <2> QED
      BY <1>1, <2>1, <2>2, <2>3, SlotsFollow, SMTT(30) DEF ProxyInv, ProxyTyped
  <1>7. \A u \in Users : counts'[u] = Cardinality(OfUser(u)')
    BY CountsSame DEF ProxyInv, Advance
  <1> QED
    BY <1>1, <1>3, <1>4, <1>5, <1>6, <1>7 DEF ProxyInv

\* A stream that Serve accepted has a session, and the session a user.
LEMMA Working ==
    ASSUME ProxyInv, NEW i \in Requests, req[i].pc # "idle"
    PROVE  /\ req[i].session \in CarrierSessions /\ UserOf(i) \in Users
           /\ UserOf(i) = Owner[req[i].session] /\ slots \in SlotRecs /\ SlotsMatchHolders
           /\ ProxyTyped /\ req[i].kind \in Kinds
  BY DEF ProxyInv, Staged, UserOf, Users, ProxyTyped, ReqRecs

\* The slots and places held by a handler of kind k at stage p.
TcpAt(k, p)   == \/ k \in {"tcp", "new"} /\ p \in {"dial", "accept"}
                 \/ k = "tcp" /\ p = "relay"
UdpAt(k, p)   == k = "udp" /\ p \in {"listen", "relay"}
LiveAt(k, p)  == p \notin {"idle", "done"}
AssocAt(k, p) == k = "udp" /\ p \notin {"idle", "done", "handle"}

\* The same, with what a handler holds read off its kind and stage.
LEMMA HandlerStep ==
    ASSUME ProxyInv, NEW i \in Requests, NEW k, NEW p, NEW pc \in Stages,
           req[i].kind = k, req[i].pc = p, Advance(i, pc, req[i].old),
           UNCHANGED <<flow, counts, rt, raced>>,
           p \notin {"idle", "done", "register", "publish", "bind", "replace"},
           pc \notin {"idle", "register", "publish", "bind", "replace"},
           pc \in {"dial", "accept"} => k \in {"tcp", "new"},
           pc = "relay" => k \in {"tcp", "udp"},
           pc \in {"limit", "listen"} => k = "udp",
           pc \in Resuming => k = "resume" /\ req[req[i].flow].pc = "done",
           SlotsMove(req[i].session, Delta(TcpAt(k, p), TcpAt(k, pc)),
                     Delta(UdpAt(k, p), UdpAt(k, pc)), Delta(LiveAt(k, p), LiveAt(k, pc)),
                     Delta(AssocAt(k, p), AssocAt(k, pc)))
    PROVE  ProxyInv'
  <1>1. req'[i].kind = k /\ req'[i].pc = pc /\ req'[i].session = req[i].session /\ flow' = flow
    BY DEF Advance
  <1>2. ~Created(req[i])
    BY SMTT(30) DEF Created
  <1>3. Staged(req'[i])
    BY <1>1, Working, SMTT(30) DEF Staged
  <1>4. /\ HoldsTCP(i) <=> TcpAt(k, p)
        /\ HoldsTCP(i)' <=> TcpAt(k, pc)
    <2>1. ~flow[i].slot
      BY <1>2, NoFlowHolds
    <2>2. ~flow'[i].slot /\ req'[i].kind = k /\ req'[i].pc = pc
      BY <1>1, <2>1
    <2>3. HoldsTCP(i) <=> TcpAt(k, p)
      BY <2>1 DEF HoldsTCP, At, TcpAt
    <2>. QED
      BY <2>2, <2>3 DEF HoldsTCP, At, TcpAt
  <1>5. /\ HoldsUDP(i) <=> UdpAt(k, p)
        /\ HoldsUDP(i)' <=> UdpAt(k, pc)
    BY <1>1, SMTT(30) DEF HoldsUDP, At, UdpAt
  <1>6. /\ Live(i) <=> LiveAt(k, p) 
        /\ Live(i)' <=> LiveAt(k, pc)
        /\ Associated(i) <=> AssocAt(k, p)
        /\ Associated(i)' <=> AssocAt(k, pc)
    BY <1>1, SMTT(30) DEF Live, LiveAt, Associated, AssocAt
  <1>7. SlotsMove(req[i].session,
                  Delta(HoldsTCP(i), HoldsTCP(i)'), Delta(HoldsUDP(i), HoldsUDP(i)'),
                  Delta(Live(i), Live(i)'), Delta(Associated(i), Associated(i)'))
    BY <1>4, <1>5, <1>6 DEF Delta
  <1> QED
    BY <1>2, <1>3, <1>7, RequestOnly, SMTT(30)

\* What each handler step does to the slots.
LEMMA HandlerMoves ==
    ASSUME ProxyInv, NEW i \in Requests, req[i].pc # "idle"
    PROVE  LET s == req[i].session  k == req[i].kind  p == req[i].pc IN
           /\ UNCHANGED slots => SlotsMove(s, 0, 0, 0, 0)
           /\ slots' = Leave(slots, i) => SlotsMove(s, 0, 0, -1, 0)
           /\ slots' = AcquireTCP(slots, UserOf(i)) => SlotsMove(s, 1, 0, 0, 0)
           /\ slots' = AcquireUDP(slots, UserOf(i)) => SlotsMove(s, 0, 1, 0, 0)
           /\ slots' = [slots EXCEPT !.udpSem[s] = @ + 1] => SlotsMove(s, 0, 0, 0, 1)
           /\ TcpAt(k, p) /\ slots' = Leave(ReleaseTCP(slots, UserOf(i)), i)
                => SlotsMove(s, -1, 0, -1, 0)
           /\ slots' = Leave(releaseUDPAssociation(slots, i), i) => SlotsMove(s, 0, 0, -1, -1)
           /\ UdpAt(k, p) /\ slots' = Leave(releaseUDPAssociation(ReleaseUDP(slots, UserOf(i)), i), i)
                => SlotsMove(s, 0, -1, -1, -1)
  <1>1. TcpAt(req[i].kind, req[i].pc) => HoldsTCP(i)
    BY DEF TcpAt, HoldsTCP, At
  <1>2. UdpAt(req[i].kind, req[i].pc) => HoldsUDP(i)
    BY DEF UdpAt, HoldsUDP, At
  <1>3. UNCHANGED slots => SlotsMove(req[i].session, 0, 0, 0, 0)
    BY Working, MovesNot DEF SlotsMove
  <1>4. slots' = Leave(slots, i) => SlotsMove(req[i].session, 0, 0, -1, 0)
    BY Working, MovesLeave DEF SlotsMove
  <1>5. slots' = AcquireTCP(slots, UserOf(i)) => SlotsMove(req[i].session, 1, 0, 0, 0)
    BY Working, MovesAcquireTCP DEF SlotsMove
  <1>6. slots' = AcquireUDP(slots, UserOf(i)) => SlotsMove(req[i].session, 0, 1, 0, 0)
    BY Working, MovesAcquireUDP DEF SlotsMove
  <1>7. slots' = [slots EXCEPT !.udpSem[req[i].session] = @ + 1]
           => SlotsMove(req[i].session, 0, 0, 0, 1)
    BY Working, MovesAssociate DEF SlotsMove
  <1> QED
    BY <1>1, <1>2, <1>3, <1>4, <1>5, <1>6, <1>7, Working, LeaveHolding

\* A cluster request is answered and leaves.
LEMMA ClusterRequestKeeps ==
    ASSUME ProxyInv, NEW i \in Requests, ClusterRequest(i)
    PROVE  ProxyInv'
  <1> DEFINE k == req[i].kind
  <1>1. k \in {"cluster"} /\ req[i].pc = "handle" /\ UNCHANGED <<flow, counts, rt, raced>>
    BY DEF ClusterRequest, At
  <1>2. Advance(i, "done", req[i].old) /\ "done" \in Stages
    BY <1>1, Advances, Working, Zenon DEF ClusterRequest, Stages
  <1>3. SlotsMove(req[i].session, 0, 0, -1, 0)
    BY <1>1, HandlerMoves DEF ClusterRequest, TcpAt, UdpAt
  <1>4. /\ Delta(TcpAt(k, "handle"), TcpAt(k, "done")) = 0
        /\ Delta(UdpAt(k, "handle"), UdpAt(k, "done")) = 0
        /\ Delta(LiveAt(k, "handle"), LiveAt(k, "done")) = -1
        /\ Delta(AssocAt(k, "handle"), AssocAt(k, "done")) = 0
    BY <1>1 DEF Delta, TcpAt, UdpAt, LiveAt, AssocAt
  <1> QED
    BY <1>1, <1>2, <1>3, <1>4, HandlerStep DEF Resuming

\* AcquireTCP succeeds, or the handler is refused and leaves.
LEMMA LimitTCPKeeps ==
    ASSUME ProxyInv, NEW i \in Requests, LimitTCP(i)
    PROVE  ProxyInv'
  <1> DEFINE k == req[i].kind
  <1>1. k \in {"tcp", "new"} /\ req[i].pc = "handle" /\ UNCHANGED <<flow, counts, rt, raced>>
    BY DEF LimitTCP, At
  <1>2. CASE Step(i, "dial") /\ slots' = AcquireTCP(slots, UserOf(i))
    <2>1. Advance(i, "dial", req[i].old) /\ "dial" \in Stages
      BY <1>1, <1>2, Advances, Working, Zenon DEF Stages
    <2>2. SlotsMove(req[i].session, 1, 0, 0, 0)
      BY <1>1, <1>2, HandlerMoves DEF TcpAt, UdpAt
    <2>3. /\ Delta(TcpAt(k, "handle"), TcpAt(k, "dial")) = 1
          /\ Delta(UdpAt(k, "handle"), UdpAt(k, "dial")) = 0
          /\ Delta(LiveAt(k, "handle"), LiveAt(k, "dial")) = 0
          /\ Delta(AssocAt(k, "handle"), AssocAt(k, "dial")) = 0
      BY <1>1 DEF Delta, TcpAt, UdpAt, LiveAt, AssocAt
    <2> QED
      BY <1>1, <1>2, <2>1, <2>2, <2>3, HandlerStep DEF Resuming
  <1>3. CASE Step(i, "done") /\ slots' = Leave(slots, i)
    <2>1. Advance(i, "done", req[i].old) /\ "done" \in Stages
      BY <1>1, <1>3, Advances, Working, Zenon DEF Stages
    <2>2. SlotsMove(req[i].session, 0, 0, -1, 0)
      BY <1>1, <1>3, HandlerMoves DEF TcpAt, UdpAt
    <2>3. /\ Delta(TcpAt(k, "handle"), TcpAt(k, "done")) = 0
          /\ Delta(UdpAt(k, "handle"), UdpAt(k, "done")) = 0
          /\ Delta(LiveAt(k, "handle"), LiveAt(k, "done")) = -1
          /\ Delta(AssocAt(k, "handle"), AssocAt(k, "done")) = 0
      BY <1>1 DEF Delta, TcpAt, UdpAt, LiveAt, AssocAt
    <2> QED
      BY <1>1, <1>3, <2>1, <2>2, <2>3, HandlerStep DEF Resuming
  <1> QED
    BY <1>2, <1>3 DEF LimitTCP

\* A failed dial gives the slot back.
LEMMA DialFailsKeeps ==
    ASSUME ProxyInv, NEW i \in Requests, DialFails(i)
    PROVE  ProxyInv'
  <1> DEFINE k == req[i].kind
  <1>1. k \in {"tcp", "new"} /\ req[i].pc = "dial" /\ UNCHANGED <<flow, counts, rt, raced>>
    BY DEF DialFails, At
  <1>2. Advance(i, "done", req[i].old) /\ "done" \in Stages
    BY <1>1, Advances, Working, Zenon DEF DialFails, Stages
  <1>3. SlotsMove(req[i].session, -1, 0, -1, 0)
    BY <1>1, HandlerMoves DEF DialFails, TcpAt, UdpAt
  <1>4. /\ Delta(TcpAt(k, "dial"), TcpAt(k, "done")) = -1
        /\ Delta(UdpAt(k, "dial"), UdpAt(k, "done")) = 0
        /\ Delta(LiveAt(k, "dial"), LiveAt(k, "done")) = -1
        /\ Delta(AssocAt(k, "dial"), AssocAt(k, "done")) = 0
    BY <1>1 DEF Delta, TcpAt, UdpAt, LiveAt, AssocAt
  <1> QED
    BY <1>1, <1>2, <1>3, <1>4, HandlerStep DEF Resuming

\* A dialled target keeps the slot.
LEMMA dialResolvedKeeps ==
    ASSUME ProxyInv, NEW i \in Requests, dialResolved(i)
    PROVE  ProxyInv'
  <1> DEFINE k == req[i].kind
  <1>1. k \in {"tcp", "new"} /\ req[i].pc = "dial" /\ UNCHANGED <<flow, counts, rt, raced>>
    BY DEF dialResolved, At
  <1>2. Advance(i, "accept", req[i].old) /\ "accept" \in Stages
    BY <1>1, Advances, Working, Zenon DEF dialResolved, Stages
  <1>3. SlotsMove(req[i].session, 0, 0, 0, 0)
    BY <1>1, HandlerMoves DEF dialResolved, TcpAt, UdpAt
  <1>4. /\ Delta(TcpAt(k, "dial"), TcpAt(k, "accept")) = 0
        /\ Delta(UdpAt(k, "dial"), UdpAt(k, "accept")) = 0
        /\ Delta(LiveAt(k, "dial"), LiveAt(k, "accept")) = 0
        /\ Delta(AssocAt(k, "dial"), AssocAt(k, "accept")) = 0
    BY <1>1 DEF Delta, TcpAt, UdpAt, LiveAt, AssocAt
  <1> QED
    BY <1>1, <1>2, <1>3, <1>4, HandlerStep DEF Resuming

\* A failed Accept closes the target and gives the slot back.
LEMMA AcceptFailsKeeps ==
    ASSUME ProxyInv, NEW i \in Requests, AcceptFails(i)
    PROVE  ProxyInv'
  <1> DEFINE k == req[i].kind
  <1>1. k \in {"tcp", "new"} /\ req[i].pc = "accept" /\ UNCHANGED <<flow, counts, rt, raced>>
    BY DEF AcceptFails, At
  <1>2. Advance(i, "done", req[i].old) /\ "done" \in Stages
    BY <1>1, Advances, Working, Zenon DEF AcceptFails, Stages
  <1>3. SlotsMove(req[i].session, -1, 0, -1, 0)
    BY <1>1, HandlerMoves DEF AcceptFails, TcpAt, UdpAt
  <1>4. /\ Delta(TcpAt(k, "accept"), TcpAt(k, "done")) = -1
        /\ Delta(UdpAt(k, "accept"), UdpAt(k, "done")) = 0
        /\ Delta(LiveAt(k, "accept"), LiveAt(k, "done")) = -1
        /\ Delta(AssocAt(k, "accept"), AssocAt(k, "done")) = 0
    BY <1>1 DEF Delta, TcpAt, UdpAt, LiveAt, AssocAt
  <1> QED
    BY <1>1, <1>2, <1>3, <1>4, HandlerStep DEF Resuming

\* The relay of a TCP stream starts.
LEMMA handleTCPIncomingKeeps ==
    ASSUME ProxyInv, NEW i \in Requests, handleTCPIncoming(i)
    PROVE  ProxyInv'
  <1> DEFINE k == req[i].kind
  <1>1. k \in {"tcp"} /\ req[i].pc = "accept" /\ UNCHANGED <<flow, counts, rt, raced>>
    BY DEF handleTCPIncoming, At
  <1>2. Advance(i, "relay", req[i].old) /\ "relay" \in Stages
    BY <1>1, Advances, Working, Zenon DEF handleTCPIncoming, Stages
  <1>3. SlotsMove(req[i].session, 0, 0, 0, 0)
    BY <1>1, HandlerMoves DEF handleTCPIncoming, TcpAt, UdpAt
  <1>4. /\ Delta(TcpAt(k, "accept"), TcpAt(k, "relay")) = 0
        /\ Delta(UdpAt(k, "accept"), UdpAt(k, "relay")) = 0
        /\ Delta(LiveAt(k, "accept"), LiveAt(k, "relay")) = 0
        /\ Delta(AssocAt(k, "accept"), AssocAt(k, "relay")) = 0
    BY <1>1 DEF Delta, TcpAt, UdpAt, LiveAt, AssocAt
  <1> QED
    BY <1>1, <1>2, <1>3, <1>4, HandlerStep DEF Resuming

\* The relay of a TCP stream ends.
LEMMA RelayEndsKeeps ==
    ASSUME ProxyInv, NEW i \in Requests, RelayEnds(i)
    PROVE  ProxyInv'
  <1> DEFINE k == req[i].kind
  <1>1. k \in {"tcp"} /\ req[i].pc = "relay" /\ UNCHANGED <<flow, counts, rt, raced>>
    BY DEF RelayEnds, At
  <1>2. Advance(i, "done", req[i].old) /\ "done" \in Stages
    BY <1>1, Advances, Working, Zenon DEF RelayEnds, Stages
  <1>3. SlotsMove(req[i].session, -1, 0, -1, 0)
    BY <1>1, HandlerMoves DEF RelayEnds, TcpAt, UdpAt
  <1>4. /\ Delta(TcpAt(k, "relay"), TcpAt(k, "done")) = -1
        /\ Delta(UdpAt(k, "relay"), UdpAt(k, "done")) = 0
        /\ Delta(LiveAt(k, "relay"), LiveAt(k, "done")) = -1
        /\ Delta(AssocAt(k, "relay"), AssocAt(k, "done")) = 0
    BY <1>1 DEF Delta, TcpAt, UdpAt, LiveAt, AssocAt
  <1> QED
    BY <1>1, <1>2, <1>3, <1>4, HandlerStep DEF Resuming

\* The association semaphore is taken, or the handler leaves.
LEMMA acquireUDPAssociationKeeps ==
    ASSUME ProxyInv, NEW i \in Requests, acquireUDPAssociation(i)
    PROVE  ProxyInv'
  <1> DEFINE k == req[i].kind
  <1>1. k \in {"udp"} /\ req[i].pc = "handle" /\ UNCHANGED <<flow, counts, rt, raced>>
    BY DEF acquireUDPAssociation, At
  <1>2. CASE Step(i, "limit") /\ slots' = [slots EXCEPT !.udpSem[req[i].session] = @ + 1]
    <2>1. Advance(i, "limit", req[i].old) /\ "limit" \in Stages
      BY <1>1, <1>2, Advances, Working, Zenon DEF Stages
    <2>2. SlotsMove(req[i].session, 0, 0, 0, 1)
      BY <1>1, <1>2, HandlerMoves DEF TcpAt, UdpAt
    <2>3. /\ Delta(TcpAt(k, "handle"), TcpAt(k, "limit")) = 0
          /\ Delta(UdpAt(k, "handle"), UdpAt(k, "limit")) = 0
          /\ Delta(LiveAt(k, "handle"), LiveAt(k, "limit")) = 0
          /\ Delta(AssocAt(k, "handle"), AssocAt(k, "limit")) = 1
      BY <1>1 DEF Delta, TcpAt, UdpAt, LiveAt, AssocAt
    <2> QED
      BY <1>1, <1>2, <2>1, <2>2, <2>3, HandlerStep DEF Resuming
  <1>3. CASE Step(i, "done") /\ slots' = Leave(slots, i)
    <2>1. Advance(i, "done", req[i].old) /\ "done" \in Stages
      BY <1>1, <1>3, Advances, Working, Zenon DEF Stages
    <2>2. SlotsMove(req[i].session, 0, 0, -1, 0)
      BY <1>1, <1>3, HandlerMoves DEF TcpAt, UdpAt
    <2>3. /\ Delta(TcpAt(k, "handle"), TcpAt(k, "done")) = 0
          /\ Delta(UdpAt(k, "handle"), UdpAt(k, "done")) = 0
          /\ Delta(LiveAt(k, "handle"), LiveAt(k, "done")) = -1
          /\ Delta(AssocAt(k, "handle"), AssocAt(k, "done")) = 0
      BY <1>1 DEF Delta, TcpAt, UdpAt, LiveAt, AssocAt
    <2> QED
      BY <1>1, <1>3, <2>1, <2>2, <2>3, HandlerStep DEF Resuming
  <1> QED
    BY <1>2, <1>3 DEF acquireUDPAssociation

\* AcquireUDP succeeds, or the association is given back.
LEMMA LimitUDPKeeps ==
    ASSUME ProxyInv, NEW i \in Requests, LimitUDP(i)
    PROVE  ProxyInv'
  <1> DEFINE k == req[i].kind
  <1>1. k \in {"udp"} /\ req[i].pc = "limit" /\ UNCHANGED <<flow, counts, rt, raced>>
    BY DEF LimitUDP, At
  <1>2. CASE Step(i, "listen") /\ slots' = AcquireUDP(slots, UserOf(i))
    <2>1. Advance(i, "listen", req[i].old) /\ "listen" \in Stages
      BY <1>1, <1>2, Advances, Working, Zenon DEF Stages
    <2>2. SlotsMove(req[i].session, 0, 1, 0, 0)
      BY <1>1, <1>2, HandlerMoves DEF TcpAt, UdpAt
    <2>3. /\ Delta(TcpAt(k, "limit"), TcpAt(k, "listen")) = 0
          /\ Delta(UdpAt(k, "limit"), UdpAt(k, "listen")) = 1
          /\ Delta(LiveAt(k, "limit"), LiveAt(k, "listen")) = 0
          /\ Delta(AssocAt(k, "limit"), AssocAt(k, "listen")) = 0
      BY <1>1 DEF Delta, TcpAt, UdpAt, LiveAt, AssocAt
    <2> QED
      BY <1>1, <1>2, <2>1, <2>2, <2>3, HandlerStep DEF Resuming
  <1>3. CASE Step(i, "done") /\ slots' = Leave(releaseUDPAssociation(slots, i), i)
    <2>1. Advance(i, "done", req[i].old) /\ "done" \in Stages
      BY <1>1, <1>3, Advances, Working, Zenon DEF Stages
    <2>2. SlotsMove(req[i].session, 0, 0, -1, -1)
      BY <1>1, <1>3, HandlerMoves DEF TcpAt, UdpAt
    <2>3. /\ Delta(TcpAt(k, "limit"), TcpAt(k, "done")) = 0
          /\ Delta(UdpAt(k, "limit"), UdpAt(k, "done")) = 0
          /\ Delta(LiveAt(k, "limit"), LiveAt(k, "done")) = -1
          /\ Delta(AssocAt(k, "limit"), AssocAt(k, "done")) = -1
      BY <1>1 DEF Delta, TcpAt, UdpAt, LiveAt, AssocAt
    <2> QED
      BY <1>1, <1>3, <2>1, <2>2, <2>3, HandlerStep DEF Resuming
  <1> QED
    BY <1>2, <1>3 DEF LimitUDP

\* The UDP relay starts, or everything taken is given back.
LEMMA handleUDPIncomingKeeps ==
    ASSUME ProxyInv, NEW i \in Requests, handleUDPIncoming(i)
    PROVE  ProxyInv'
  <1> DEFINE k == req[i].kind
  <1>1. k \in {"udp"} /\ req[i].pc = "listen" /\ UNCHANGED <<flow, counts, rt, raced>>
    BY DEF handleUDPIncoming, At
  <1>2. CASE req' = [req EXCEPT ![i].pc = "relay", ![i].target = TRUE] /\ UNCHANGED slots
    <2>1. Advance(i, "relay", req[i].old) /\ "relay" \in Stages
      BY <1>1, <1>2, Advances, Working, Zenon DEF Stages
    <2>2. SlotsMove(req[i].session, 0, 0, 0, 0)
      BY <1>1, <1>2, HandlerMoves DEF TcpAt, UdpAt
    <2>3. /\ Delta(TcpAt(k, "listen"), TcpAt(k, "relay")) = 0
          /\ Delta(UdpAt(k, "listen"), UdpAt(k, "relay")) = 0
          /\ Delta(LiveAt(k, "listen"), LiveAt(k, "relay")) = 0
          /\ Delta(AssocAt(k, "listen"), AssocAt(k, "relay")) = 0
      BY <1>1 DEF Delta, TcpAt, UdpAt, LiveAt, AssocAt
    <2> QED
      BY <1>1, <1>2, <2>1, <2>2, <2>3, HandlerStep DEF Resuming
  <1>3. CASE Step(i, "done") /\ slots' = Leave(releaseUDPAssociation(ReleaseUDP(slots, UserOf(i)), i), i)
    <2>1. Advance(i, "done", req[i].old) /\ "done" \in Stages
      BY <1>1, <1>3, Advances, Working, Zenon DEF Stages
    <2>2. SlotsMove(req[i].session, 0, -1, -1, -1)
      BY <1>1, <1>3, HandlerMoves DEF TcpAt, UdpAt
    <2>3. /\ Delta(TcpAt(k, "listen"), TcpAt(k, "done")) = 0
          /\ Delta(UdpAt(k, "listen"), UdpAt(k, "done")) = -1
          /\ Delta(LiveAt(k, "listen"), LiveAt(k, "done")) = -1
          /\ Delta(AssocAt(k, "listen"), AssocAt(k, "done")) = -1
      BY <1>1 DEF Delta, TcpAt, UdpAt, LiveAt, AssocAt
    <2> QED
      BY <1>1, <1>3, <2>1, <2>2, <2>3, HandlerStep DEF Resuming
  <1> QED
    BY <1>2, <1>3 DEF handleUDPIncoming

\* The UDP relay ends.
LEMMA UDPRelayEndsKeeps ==
    ASSUME ProxyInv, NEW i \in Requests, UDPRelayEnds(i)
    PROVE  ProxyInv'
  <1> DEFINE k == req[i].kind
  <1>1. k \in {"udp"} /\ req[i].pc = "relay" /\ UNCHANGED <<flow, counts, rt, raced>>
    BY DEF UDPRelayEnds, At
  <1>2. Advance(i, "done", req[i].old) /\ "done" \in Stages
    BY <1>1, Advances, Working, ZenonT(30) DEF UDPRelayEnds, Stages
  <1>3. SlotsMove(req[i].session, 0, -1, -1, -1)
    BY <1>1, HandlerMoves DEF UDPRelayEnds, TcpAt, UdpAt
  <1>4. /\ Delta(TcpAt(k, "relay"), TcpAt(k, "done")) = 0
        /\ Delta(UdpAt(k, "relay"), UdpAt(k, "done")) = -1
        /\ Delta(LiveAt(k, "relay"), LiveAt(k, "done")) = -1
        /\ Delta(AssocAt(k, "relay"), AssocAt(k, "done")) = -1
    BY <1>1 DEF Delta, TcpAt, UdpAt, LiveAt, AssocAt
  <1> QED
    BY <1>1, <1>2, <1>3, <1>4, HandlerStep DEF Resuming

-----------------------------------------------------------------------------
(* The ends of a flow, while no request moves.                             *)

\* A flow that something can end was admitted.
LEMMA Admitted ==
    ASSUME ProxyInv, NEW f \in Requests, ~Quiet(flow[f])
    PROVE  Created(req[f]) /\ req[f].pc # "register"
  BY DEF ProxyInv, Matches

\* The counters keep matching when no request moves and no flow's slot does.
LEMMA SlotsSame ==
    ASSUME SlotsMatchHolders, UNCHANGED <<req, slots>>,
           \A j \in Requests : flow'[j].slot = flow[j].slot
    PROVE  SlotsMatchHolders'
  <1>1. \A j \in Requests : (HoldsTCP(j)' <=> HoldsTCP(j)) /\ (HoldsUDP(j)' <=> HoldsUDP(j))
    BY DEF HoldsTCP, HoldsUDP, At
  <1>2. Tcp' = Tcp /\ Udp' = Udp
    BY <1>1 DEF Tcp, Udp
  <1>3. \A u \in Users : TcpOf(u)' = TcpOf(u) /\ UdpOf(u)' = UdpOf(u)
    BY <1>1 DEF TcpOf, UdpOf, OwnedBy, UserOf
  <1>4. \A s \in CarrierSessions : OnSession(s)' = OnSession(s)
    BY DEF OnSession
  <1>5. slots' = slots /\ SlotsMatchHolders
    OBVIOUS
  <1>6. slots'.tcp = Cardinality(Tcp') /\ slots'.udp = Cardinality(Udp')
    BY <1>2, <1>5, Zenon DEF SlotsMatchHolders, Tcp, Udp
  <1>7. ASSUME NEW u \in Users
        PROVE  /\ slots'.tcpOf[u] = Cardinality(TcpOf(u)')
               /\ slots'.udpOf[u] = Cardinality(UdpOf(u)')
    BY <1>3, <1>5, Zenon DEF SlotsMatchHolders, TcpOf, UdpOf
  <1>8. ASSUME NEW s \in CarrierSessions
        PROVE  /\ slots'.sem[s] = Cardinality(OnSession(s)')
               /\ slots'.udpSem[s] = Cardinality({i \in OnSession(s)' : req'[i].kind = "udp"
                                                              /\ req'[i].pc # "handle"})
    BY <1>4, <1>5, SMTT(30) DEF SlotsMatchHolders
  <1> QED
    BY <1>6, <1>7, <1>8, Zenon DEF SlotsMatchHolders, Tcp, Udp, TcpOf, UdpOf

\* A flow's bindings shrink while its slot and record stay.
LEMMA FlowOnly ==
    ASSUME ProxyInv, NEW f \in Requests, NEW q \in FlowRecs, flow' = [flow EXCEPT ![f] = q],
           UNCHANGED <<req, slots, counts, rt, raced>>,
           q.slot = flow[f].slot, q.reg = flow[f].reg, Matches(req[f], q), BindingsShrink(f)
    PROVE  ProxyInv'
  <1>1. /\ flow \in [Requests -> FlowRecs] /\ flow' \in [Requests -> FlowRecs] /\ flow'[f] = q
        /\ \A j \in Requests \ {f} : flow'[j] = flow[j]
    BY DEF ProxyInv, ProxyTyped
  <1>2. \A j \in Requests : flow'[j].slot = flow[j].slot /\ flow'[j].reg = flow[j].reg
    BY <1>1
  <1>3. ProxyTyped'
    BY <1>1, SMTT(30) DEF ProxyInv, ProxyTyped
  <1>4. \A j \in Requests : Staged(req'[j]) /\ Matches(req'[j], flow'[j]) /\ Resumes(j)'
    <2>1. \A j \in Requests : Staged(req'[j]) /\ Resumes(j)'
      BY DEF ProxyInv, Resumes
    <2>2. \A j \in Requests : Matches(req'[j], flow'[j])
      BY <1>1 DEF ProxyInv
    <2> QED
      BY <2>1, <2>2
  <1>5. rt' = "closed" => \A j \in Requests : ~flow'[j].reg
    BY <1>2 DEF ProxyInv
  <1>6. ASSUME NEW g \in Requests \ raced'
        PROVE  Bindings(g)'
    <2>1. BindingsShrink(g)
      BY <1>1, SMTT(30) DEF BindingsShrink
    <2> QED
      BY <1>6, <2>1, SameResumes, BindingsKept DEF ProxyInv
  <1>7. SlotsMatchHolders'
    BY <1>2, SlotsSame DEF ProxyInv
  <1>8. \A u \in Users : counts'[u] = Cardinality(OfUser(u)')
    BY <1>2, CountsSame DEF ProxyInv
  <1> QED
    BY <1>3, <1>4, <1>5, <1>6, <1>7, <1>8 DEF ProxyInv

\* What the first half of finish writes.
LEMMA UnlistedFields ==
    ASSUME NEW fl \in FlowRecs
    PROVE  LET q == Unlisted(fl) IN
           /\ q \in FlowRecs
           /\ q.fin = "begun" /\ ~q.table /\ q.bound = fl.bound \ {fl.control} /\ q.timer = {}
           /\ q.reg = fl.reg /\ q.stream = fl.stream /\ q.target = fl.target
           /\ q.slot = fl.slot /\ q.run = fl.run /\ q.expired = fl.expired
  <1>1. 1 - fl.gen \in {0, 1}
    BY DEF FlowRecs
  <1>2. NoLease \in Leases /\ {} \in SUBSET (Leases \X {0, 1}) /\ "begun" \in {"no", "begun", "done"}
    BY DEF Leases
  <1>3. fl.bound \ {fl.control} \in SUBSET CarrierSessions
    BY DEF FlowRecs
  <1>4. Unlisted(fl) \in FlowRecs
    BY <1>1, <1>2, <1>3, Zenon DEF Unlisted, FlowRecs
  <1>5. LET q == Unlisted(fl) IN
           /\ q.fin = "begun" /\ ~q.table /\ q.bound = fl.bound \ {fl.control} /\ q.timer = {}
           /\ q.reg = fl.reg /\ q.stream = fl.stream /\ q.target = fl.target
           /\ q.slot = fl.slot /\ q.run = fl.run /\ q.expired = fl.expired
    BY DEF Unlisted, FlowRecs
  <1> QED
    BY <1>4, <1>5

\* A record q that is fl, or fl unlisted, but for run, expired and target.
Ended(fl, q) ==
    /\ q \in FlowRecs /\ q.reg = fl.reg /\ q.stream = fl.stream /\ q.slot = fl.slot
    /\ q.target => fl.target
    /\ \/ q.fin = fl.fin /\ q.table = fl.table /\ q.bound = fl.bound /\ q.control = fl.control
       \/ fl.fin = "no" /\ q.fin = "begun" /\ ~q.table /\ q.bound = fl.bound \ {fl.control}

\* A flow that can be ended is ended, or one of its triggers is spent.
LEMMA EndKeeps ==
    ASSUME ProxyInv, NEW f \in Requests, NEW q, Ended(flow[f], q),
           ~Quiet(flow[f]), flow' = [flow EXCEPT ![f] = q],
           UNCHANGED <<req, slots, counts, rt, raced>>
    PROVE  ProxyInv'
  <1>1. flow'[f] = q /\ q \in FlowRecs
    BY DEF ProxyInv, ProxyTyped, Ended
  <1>2. Matches(req[f], q)
    <2>1. Created(req[f]) /\ req[f].pc # "register" /\ Matches(req[f], flow[f])
      BY Admitted, Zenon DEF ProxyInv
    <2> QED
      BY <2>1 DEF Matches, Ended
  <1>3. BindingsShrink(f)
    BY <1>1 DEF BindingsShrink, Ended
  <1> QED
    BY <1>1, <1>2, <1>3, FlowOnly, ZenonT(30) DEF Ended

\* The first half of finish.
LEMMA FinishKeeps ==
    ASSUME ProxyInv, NEW f \in Requests, ~Quiet(flow[f]), Finish(f),
           UNCHANGED <<req, slots, counts, rt, raced>>
    PROVE  ProxyInv'
  <1>1. flow[f] \in FlowRecs
    BY DEF ProxyInv, ProxyTyped
  <1>2. Ended(flow[f], Unlisted(flow[f]))
    BY <1>1, UnlistedFields DEF Ended, Finish
  <1> QED
    BY <1>2, EndKeeps, Zenon DEF Finish

\* A binding is aborted by the peer.
LEMMA AbortFlowKeeps ==
    ASSUME ProxyInv, NEW f \in Requests, NEW s \in CarrierSessions, AbortFlow(f, s)
    PROVE  ProxyInv'
  <1>1. ~Quiet(flow[f]) /\ Finish(f) /\ UNCHANGED <<req, slots, counts, rt, raced>>
    BY DEF AbortFlow, Quiet
  <1> QED
    BY <1>1, FinishKeeps

\* Close finishes a listed flow.
LEMMA CloseFlowKeeps ==
    ASSUME ProxyInv, NEW f \in Requests, CloseFlow(f)
    PROVE  ProxyInv'
  <1>1. ~Quiet(flow[f]) /\ Finish(f) /\ UNCHANGED <<req, slots, counts, rt, raced>>
    BY DEF CloseFlow, Quiet
  <1> QED
    BY <1>1, FinishKeeps

\* The relay of a flow returns.
LEMMA runKeeps ==
    ASSUME ProxyInv, NEW f \in Requests, run(f)
    PROVE  ProxyInv'
  <1> DEFINE fl == IF flow[f].fin = "no" THEN Unlisted(flow[f]) ELSE flow[f]
             q  == [fl EXCEPT !.run = FALSE, !.target = FALSE]
  <1>1. flow[f] \in FlowRecs
    BY DEF ProxyInv, ProxyTyped
  <1>2. Ended(flow[f], fl) /\ fl \in FlowRecs
    BY <1>1, UnlistedFields DEF Ended
  <1>3. flow' = [flow EXCEPT ![f] = q] /\ UNCHANGED <<req, slots, counts, rt, raced>>
    BY DEF run
  <1>4. ~Quiet(flow[f])
    BY DEF run, Quiet
  <1> HIDE DEF fl
  <1>5. /\ q \in FlowRecs /\ q.reg = fl.reg /\ q.stream = fl.stream /\ q.slot = fl.slot
        /\ ~q.target /\ q.fin = fl.fin /\ q.table = fl.table /\ q.bound = fl.bound
        /\ q.control = fl.control
    BY <1>2, Zenon DEF FlowRecs
  <1> HIDE DEF q
  <1>6. Ended(flow[f], q)
    BY <1>2, <1>5 DEF Ended
  <1> QED
    BY <1>3, <1>4, <1>6, EndKeeps, Zenon

\* The migration timer's callback finishes the flow.
LEMMA MigrationExpiredKeeps ==
    ASSUME ProxyInv, NEW f \in Requests, MigrationExpired(f)
    PROVE  ProxyInv'
  <1> DEFINE fl == IF flow[f].fin = "no" THEN Unlisted(flow[f]) ELSE flow[f]
             q  == [fl EXCEPT !.expired = FALSE]
  <1>1. flow[f] \in FlowRecs
    BY DEF ProxyInv, ProxyTyped
  <1>2. Ended(flow[f], fl) /\ fl \in FlowRecs
    BY <1>1, UnlistedFields DEF Ended
  <1>3. flow' = [flow EXCEPT ![f] = q] /\ UNCHANGED <<req, slots, counts, rt, raced>>
    BY DEF MigrationExpired
  <1>4. ~Quiet(flow[f])
    BY DEF MigrationExpired, Quiet
  <1> HIDE DEF fl
  <1>5. /\ q \in FlowRecs /\ q.reg = fl.reg /\ q.stream = fl.stream /\ q.slot = fl.slot
        /\ q.target = fl.target /\ q.fin = fl.fin /\ q.table = fl.table /\ q.bound = fl.bound
        /\ q.control = fl.control
    BY <1>2, Zenon DEF FlowRecs
  <1> HIDE DEF q
  <1>6. Ended(flow[f], q)
    BY <1>2, <1>5 DEF Ended
  <1> QED
    BY <1>3, <1>4, <1>6, EndKeeps, Zenon

\* The migration timer fires.
LEMMA TimerExpiresKeeps ==
    ASSUME ProxyInv, NEW f \in Requests, TimerExpires(f)
    PROVE  ProxyInv'
  <1> DEFINE q == [flow[f] EXCEPT !.timer = {}, !.expired = TRUE]
  <1>1. flow[f] \in FlowRecs
    BY DEF ProxyInv, ProxyTyped
  <1>2. flow' = [flow EXCEPT ![f] = q] /\ UNCHANGED <<req, slots, counts, rt, raced>>
    BY Zenon DEF TimerExpires
  <1>3. ~Quiet(flow[f])
    BY DEF TimerExpires, Quiet
  <1>4. Ended(flow[f], q)
    BY <1>1, Zenon DEF Ended, FlowRecs
  <1> HIDE DEF q
  <1> QED
    BY <1>2, <1>3, <1>4, EndKeeps, Zenon

\* A lost control channel starts the migration.
LEMMA beginMigrationKeeps ==
    ASSUME ProxyInv, NEW f \in Requests, NEW s \in CarrierSessions, beginMigration(f, s)
    PROVE  ProxyInv'
  <1> DEFINE fl == flow[f]
             b == fl.bound \ {s}
             t == IF fl.lease = s THEN {<<s, 1 - fl.gen>>} ELSE fl.timer
             g == IF fl.lease = s THEN 1 - fl.gen ELSE fl.gen
             q == [fl EXCEPT !.bound = b, !.timer = t, !.gen = g]
  <1>1. fl \in FlowRecs
    BY DEF ProxyInv, ProxyTyped
  <1>2. flow' = [flow EXCEPT ![f] = q] /\ UNCHANGED <<req, slots, counts, rt, raced>>
    BY Zenon DEF beginMigration
  <1>3. ~Quiet(fl)
    BY DEF beginMigration, Quiet
  <1>4. g \in {0, 1}
    BY <1>1 DEF FlowRecs
  <1>5. b \in SUBSET CarrierSessions /\ b \subseteq fl.bound
    BY <1>1 DEF FlowRecs
  <1>6. t \in SUBSET (Leases \X {0, 1})
    <2>1. CASE fl.lease = s
      <3>1. 1 - fl.gen \in {0, 1} /\ s \in Leases
        BY <1>1 DEF FlowRecs, Leases
      <3> QED
        BY <2>1, <3>1
    <2>2. CASE fl.lease # s
      BY <1>1, <2>2 DEF FlowRecs
    <2> QED
      BY <2>1, <2>2
  <1> HIDE DEF b, t, g
  <1>7. /\ q \in FlowRecs /\ q.bound = b /\ q.control = fl.control /\ q.fin = fl.fin
        /\ q.table = fl.table /\ q.reg = fl.reg /\ q.slot = fl.slot /\ q.stream = fl.stream
        /\ q.target = fl.target
    BY <1>1, <1>4, <1>5, <1>6, Zenon DEF FlowRecs
  <1>8. Created(req[f]) /\ req[f].pc # "register" /\ Matches(req[f], fl)
    BY <1>3, Admitted DEF ProxyInv
  <1> HIDE DEF q
  <1>9. Matches(req[f], q)
    BY <1>7, <1>8 DEF Matches
  <1>10. flow'[f] = q
    BY <1>2 DEF ProxyInv, ProxyTyped
  <1>11. BindingsShrink(f)
    BY <1>5, <1>7, <1>10 DEF BindingsShrink
  <1> QED
    BY <1>2, <1>7, <1>9, <1>11, FlowOnly, Zenon

=============================================================================
