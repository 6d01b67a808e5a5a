----------------------------- MODULE RelayProofs -----------------------------
(***************************************************************************)
(* Proofs about the data plane between nodes (ClusterRelay): flows end at  *)
(* the exit their route names without visiting a node twice, pools hold    *)
(* every session they opened, and no edge routes by a policy superseded    *)
(* longer ago than the staleness limit.                                    *)
(***************************************************************************)
EXTENDS ClusterRelay, SequenceTheorems, WellFoundedInduction, TLAPS

-----------------------------------------------------------------------------
(* The invariant.                                                          *)

Actions == {CurrentState, Invalid} \cup Hints \cup {p.action : p \in Policies}

Frames == [node : AllNodes, to : AllNodes, visited : Seq(AllNodes), remaining : Seq(AllNodes),
           attempt : {1, 2}, session : 0 .. MaxPeerings]

Stages == {"idle", "session", "connecting", "open", "refused", "up"}

Flows == [pc : Stages, stack : Seq(Frames), from : AllNodes, exit : AllNodes, rev : Nat,
          action : Actions]

\* Where a flow's action sends it, and where the frame of one open does.
Wanted(from, path) == IF path = <<>> THEN from ELSE path[Len(path)]
Ends(t) == Wanted(t.to, t.remaining)

\* A frame has visited the nodes of the frames below it and its own, and what
\* remains of its path ends where the action does.
Chained(stack, goal) ==
    \A i \in 1 .. Len(stack) :
        /\ Len(stack[i].visited) = i
        /\ \A j \in 1 .. i : stack[i].visited[j] = stack[j].node
        /\ Ends(stack[i]) = goal

\* No node of the stack occurs twice, nor is one the exit.
Simple(stack, exit) ==
    /\ Len(stack) <= MaxRouteHops
    /\ \A i, j \in 1 .. Len(stack) : stack[i].node = stack[j].node => i = j
    /\ \A i \in 1 .. Len(stack) : stack[i].node # exit

FlowInv(r) ==
    /\ r \in Flows
    /\ r.pc = "idle" => r.stack = <<>>
    /\ r.pc \notin {"idle", "up"} => r.stack # <<>>
    /\ Chained(r.stack, Wanted(r.from, r.action.path))
    /\ r.pc = "up" => r.exit = Wanted(r.from, r.action.path) /\ Simple(r.stack, r.exit)

RelayedInv == relayed \in [Relayed -> Flows] /\ \A f \in Relayed : FlowInv(relayed[f])

PoolInv ==
    /\ pool \in [AllNodes -> [AllNodes -> 0 .. MaxPeerings]]
    /\ muxes \in [Peerings -> {"none", "up", "broken", "closed"}]
    /\ SessionsAreHeld

\* What an edge has cached was current when it was fetched: whatever
\* supersedes it was published later.
CacheInv ==
    /\ clock \in Nat
    /\ published \in Seq([policy : Policies, at : Nat]) /\ published # <<>>
    /\ cache \in [Edges -> [rev : Nat, at : Nat]]
    /\ \A e \in Edges :
         /\ cache[e].rev <= Len(published)
         /\ cache[e].at <= clock
         /\ 0 < cache[e].rev /\ cache[e].rev < Len(published)
               => published[cache[e].rev + 1].at >= cache[e].at

RelayInv == RelayedInv /\ PoolInv /\ CacheInv

-----------------------------------------------------------------------------
(* Operators of the model.                                                 *)

\* A set of numbers that is not empty has its minimum.
LEMMA MinIn ==
    ASSUME NEW S \in SUBSET Nat, S # {}
    PROVE  Min(S) \in S /\ \A y \in S : Min(S) <= y
  <1>1. PICK x \in S : \A y \in S : ~(<<y, x>> \in OpToRel(<, Nat))
    BY NatLessThanWellFounded, WFMin
  <1>2. \A y \in S : ~(y < x)
    BY <1>1, Zenon DEF OpToRel
  <1>3. \E z \in S : \A y \in S : z <= y
    BY <1>2
  <1> QED
    BY <1>3 DEF Min

\* A new session is one that was never connected.
LEMMA FreshIsUnconnected ==
    ASSUME Unconnected # {}
    PROVE  Fresh \in Peerings /\ muxes[Fresh] = "none"
  <1>1. Unconnected \in SUBSET Nat
    BY RelayBounds DEF Unconnected, Peerings
  <1>2. Fresh \in Unconnected
    BY <1>1, MinIn DEF Fresh
  <1> QED
    BY <1>2 DEF Unconnected

\* Every action a policy or a client can ask for names nodes.
LEMMA ActionPaths == \A a \in Actions : a.path \in Seq(AllNodes)
  <1>1. <<>> \in Seq(AllNodes)
    BY EmptySeq
  <1>2. CurrentState.path = <<>> /\ Invalid.path = <<>>
    BY DEF CurrentState, Invalid
  <1>3. \A p \in Policies : p.action.path \in Seq(AllNodes)
    BY RelayBounds
  <1>4. \A h \in Hints : h.path \in Seq(AllNodes)
    BY RelayBounds
  <1> QED
    BY <1>1, <1>2, <1>3, <1>4, Zenon DEF Actions

\* Resolution yields one of them.
LEMMA Resolved ==
    ASSUME NEW p \in Policies, NEW h \in Hints
    PROVE  Resolve(p, h) \in Actions
  <1>1. ResolveRouteForUser(p) \in Actions
    BY DEF ResolveRouteForUser, Actions
  <1>2. ResolveClientRouteForUser(p, h) \in Actions
    BY <1>1 DEF ResolveClientRouteForUser, Actions
  <1> QED
    BY <1>1, <1>2 DEF Resolve

-----------------------------------------------------------------------------
(* The stack of opens.                                                     *)

\* The top frame of an open may change its session and its attempt.
LEMMA ChainTop ==
    ASSUME NEW stack \in Seq(Frames), stack # <<>>, NEW goal, Chained(stack, goal),
           NEW x \in Frames,
           x.node = Last(stack).node, x.to = Last(stack).to,
           x.visited = Last(stack).visited, x.remaining = Last(stack).remaining
    PROVE  /\ Append(Front(stack), x) \in Seq(Frames)
           /\ Append(Front(stack), x) # <<>>
           /\ Chained(Append(Front(stack), x), goal)
  <1> DEFINE n == Len(stack)
             s == Append(Front(stack), x)
  <1>1. n \in Nat /\ n >= 1 /\ \A i \in 1 .. n : stack[i] \in Frames
    BY EmptySeq, LenProperties, ElementOfSeq
  <1>2. /\ Front(stack) \in Seq(Frames) /\ Len(Front(stack)) = n - 1
        /\ \A i \in 1 .. n - 1 : Front(stack)[i] = stack[i]
    <2>1. 1 \in Int /\ n - 1 \in Int /\ \A i \in 1 .. n - 1 : stack[i] \in Frames
      BY <1>1
    <2>2. /\ SubSeq(stack, 1, n - 1) \in Seq(Frames)
          /\ Len(SubSeq(stack, 1, n - 1)) = IF 1 <= n - 1 THEN (n - 1) - 1 + 1 ELSE 0
          /\ \A i \in 1 .. (n - 1) - 1 + 1 : SubSeq(stack, 1, n - 1)[i] = stack[1 + i - 1]
      BY <2>1, SubSeqProperties
    <2> HIDE DEF n
    <2>3. (n - 1) - 1 + 1 = n - 1 /\ \A i \in 1 .. n - 1 : 1 + i - 1 = i
      BY <1>1
    <2>4. /\ Len(SubSeq(stack, 1, n - 1)) = n - 1
          /\ \A i \in 1 .. n - 1 : SubSeq(stack, 1, n - 1)[i] = stack[i]
      BY <1>1, <2>2, <2>3
    <2> QED
      BY <2>2, <2>4 DEF Front, n
  <1>3. /\ s \in Seq(Frames) /\ s # <<>> /\ Len(s) = n
        /\ \A i \in 1 .. n - 1 : s[i] = stack[i]
        /\ s[n] = x
    BY <1>1, <1>2, AppendProperties
  <1>4. Last(stack) = stack[n]
    BY DEF Last
  <1>5. \A i \in 1 .. n : /\ s[i].node = stack[i].node /\ s[i].to = stack[i].to
                          /\ s[i].visited = stack[i].visited /\ s[i].remaining = stack[i].remaining
    BY <1>1, <1>3, <1>4
  <1> HIDE DEF s
  <1>6. Chained(s, goal)
    BY <1>1, <1>3, <1>5 DEF Chained, Ends
  <1> QED
    BY <1>3, <1>6 DEF s

\* A stack cut at a frame.
LEMMA ChainCut ==
    ASSUME NEW stack \in Seq(Frames), NEW goal, Chained(stack, goal), NEW k \in 1 .. Len(stack)
    PROVE  /\ SubSeq(stack, 1, k) \in Seq(Frames)
           /\ SubSeq(stack, 1, k) # <<>>
           /\ Chained(SubSeq(stack, 1, k), goal)
  <1> DEFINE s == SubSeq(stack, 1, k)
  <1>1. Len(stack) \in Nat /\ k \in Nat /\ \A i \in 1 .. k : stack[i] \in Frames
    BY LenProperties, ElementOfSeq
  <1>2. s \in Seq(Frames) /\ Len(s) = k /\ \A i \in 1 .. k : s[i] = stack[i]
    BY <1>1, SubSeqProperties
  <1>3. s # <<>>
    BY <1>1, <1>2, EmptySeq
  <1> HIDE DEF s
  <1>4. Chained(s, goal)
    BY <1>1, <1>2 DEF Chained
  <1> QED
    BY <1>2, <1>3, <1>4 DEF s

\* HandleRelay's own open continues the path of the frame below it.
LEMMA ChainPush ==
    ASSUME NEW stack \in Seq(Frames), stack # <<>>, NEW goal, Chained(stack, goal),
           NEW y \in Frames, Last(stack).remaining # <<>>,
           y.node = Last(stack).to, y.to = Head(Last(stack).remaining),
           y.visited = Append(Last(stack).visited, Last(stack).to),
           y.remaining = Tail(Last(stack).remaining)
    PROVE  /\ Append(stack, y) \in Seq(Frames)
           /\ Append(stack, y) # <<>>
           /\ Chained(Append(stack, y), goal)
  <1> DEFINE n == Len(stack)
             t == stack[n]
             s == Append(stack, y)
  <1>1. n \in Nat /\ n >= 1 /\ t \in Frames
    BY EmptySeq, LenProperties, ElementOfSeq
  <1>2. Last(stack) = t
    BY DEF Last
  <1>3. /\ s \in Seq(Frames) /\ s # <<>> /\ Len(s) = n + 1
        /\ \A i \in 1 .. n : s[i] = stack[i]
        /\ s[n + 1] = y
    BY <1>1, AppendProperties
  <1>4. /\ Len(t.visited) = n
        /\ \A j \in 1 .. n : t.visited[j] = stack[j].node
        /\ Ends(t) = goal
    BY <1>1 DEF Chained
  <1>5. t.visited \in Seq(AllNodes) /\ t.to \in AllNodes /\ t.remaining \in Seq(AllNodes)
    BY <1>1 DEF Frames
  <1>6. /\ Len(y.visited) = n + 1
        /\ \A j \in 1 .. n : y.visited[j] = stack[j].node
        /\ y.visited[n + 1] = y.node
    BY <1>1, <1>2, <1>4, <1>5, AppendProperties
  <1>7. Ends(y) = goal
    <2>1. Len(t.remaining) \in Nat /\ Len(t.remaining) >= 1
      BY <1>2, <1>5, EmptySeq
    <2>2. /\ y.remaining \in Seq(AllNodes)
          /\ Len(y.remaining) = Len(t.remaining) - 1
          /\ \A i \in 1 .. Len(y.remaining) : y.remaining[i] = t.remaining[i + 1]
          /\ y.to = t.remaining[1]
      BY <1>2, <1>5, HeadTailProperties DEF Head
    <2>3. goal = t.remaining[Len(t.remaining)]
      BY <1>2, <1>4 DEF Ends, Wanted
    <2>4. CASE y.remaining = <<>>
      <3>a. <<>> \in Seq(AllNodes) /\ Len(<<>>) = 0
        BY EmptySeq
      <3>0. Len(y.remaining) = 0
        BY <2>4, <3>a
      <3> HIDE DEF t
      <3>1. Len(t.remaining) = 1
        BY <2>1, <2>2, <3>0
      <3>2. Ends(y) = y.to
        BY <2>4 DEF Ends, Wanted
      <3> QED
        BY <2>2, <2>3, <3>1, <3>2
    <2>5. CASE y.remaining # <<>>
      <3>1. Len(y.remaining) \in 1 .. Len(y.remaining)
        BY <2>2, <2>5, EmptySeq
      <3>2. Ends(y) = y.remaining[Len(y.remaining)]
        BY <2>5 DEF Ends, Wanted
      <3>3. Len(y.remaining) + 1 = Len(t.remaining)
        BY <2>1, <2>2
      <3> QED
        BY <2>2, <2>3, <3>1, <3>2, <3>3
    <2> QED
      BY <2>4, <2>5
  <1>8. \A j \in 1 .. n + 1 : y.visited[j] = s[j].node
    BY <1>1, <1>3, <1>6
  <1> HIDE DEF s
  <1>9. Chained(s, goal)
    <2> SUFFICES ASSUME NEW i \in 1 .. n + 1
                 PROVE  /\ Len(s[i].visited) = i
                        /\ \A j \in 1 .. i : s[i].visited[j] = s[j].node
                        /\ Ends(s[i]) = goal
      BY <1>3 DEF Chained
    <2>1. CASE i = n + 1
      BY <1>3, <1>6, <1>7, <1>8, <2>1
    <2>2. CASE i \in 1 .. n
      <3>1. \A j \in 1 .. i : s[j] = stack[j]
        BY <1>1, <1>3, <2>2
      <3> QED
        BY <1>1, <1>3, <2>2, <3>1 DEF Chained
    <2> QED
      BY <1>1, <2>1, <2>2
  <1> QED
    BY <1>3, <1>9 DEF s

-----------------------------------------------------------------------------
(* A flow's record.                                                        *)

\* A relay that has not started satisfies the invariant.
LEMMA IdleFlow == FlowInv(NoRelay)
  <1>1. <<>> \in Seq(Frames) /\ Len(<<>>) = 0
    BY EmptySeq
  <1>2. NoRelay \in Flows
    BY <1>1 DEF NoRelay, Flows, Stages, AllNodes, Actions
  <1>3. Chained(<<>>, Wanted(NoRelay.from, NoRelay.action.path))
    BY <1>1 DEF Chained
  <1> QED
    BY <1>2, <1>3 DEF FlowInv, NoRelay

\* An open in progress with another stack for the same action.
LEMMA StackReplaced ==
    ASSUME NEW r, FlowInv(r), NEW pc \in Stages \ {"idle", "up"},
           NEW s \in Seq(Frames), s # <<>>, Chained(s, Wanted(r.from, r.action.path))
    PROVE  FlowInv([r EXCEPT !.pc = pc, !.stack = s])
  <1> DEFINE q == [r EXCEPT !.pc = pc, !.stack = s]
  <1>1. r \in Flows
    BY DEF FlowInv
  <1>2. /\ q.pc = pc /\ q.stack = s /\ q.from = r.from /\ q.action = r.action
        /\ q \in Flows
    BY <1>1 DEF Flows
  <1> HIDE DEF q
  <1>3. FlowInv(q)
    BY <1>2 DEF FlowInv
  <1> QED
    BY <1>3 DEF q

\* The three changes of a stack.
LEMMA TopKept ==
    ASSUME NEW r, FlowInv(r), r.stack # <<>>, NEW pc \in Stages \ {"idle", "up"},
           NEW x \in Frames, x.node = Last(r.stack).node, x.to = Last(r.stack).to,
           x.visited = Last(r.stack).visited, x.remaining = Last(r.stack).remaining
    PROVE  FlowInv([r EXCEPT !.pc = pc, !.stack = Append(Front(r.stack), x)])
  <1>1. r.stack \in Seq(Frames) /\ Chained(r.stack, Wanted(r.from, r.action.path))
    BY DEF FlowInv, Flows
  <1>2. /\ Append(Front(r.stack), x) \in Seq(Frames)
        /\ Append(Front(r.stack), x) # <<>>
        /\ Chained(Append(Front(r.stack), x), Wanted(r.from, r.action.path))
    BY <1>1, ChainTop
  <1> QED
    BY <1>2, StackReplaced

\* A relay that lost a hop keeps the frames before it.
LEMMA CutKept ==
    ASSUME NEW r, FlowInv(r), NEW k \in 1 .. Len(r.stack)
    PROVE  FlowInv([r EXCEPT !.pc = "refused", !.stack = SubSeq(r.stack, 1, k)])
  <1>1. r.stack \in Seq(Frames) /\ Chained(r.stack, Wanted(r.from, r.action.path))
    BY DEF FlowInv, Flows
  <1>2. /\ SubSeq(r.stack, 1, k) \in Seq(Frames)
        /\ SubSeq(r.stack, 1, k) # <<>>
        /\ Chained(SubSeq(r.stack, 1, k), Wanted(r.from, r.action.path))
    BY <1>1, ChainCut
  <1>3. "refused" \in Stages \ {"idle", "up"}
    BY DEF Stages
  <1> QED
    BY <1>2, <1>3, StackReplaced

\* Opening the next hop extends the chain of frames.
LEMMA PushKept ==
    ASSUME NEW r, FlowInv(r), r.stack # <<>>, Last(r.stack).remaining # <<>>
    PROVE  LET t == Last(r.stack) IN
           FlowInv([r EXCEPT !.pc = "session",
                      !.stack = Append(r.stack,
                                  [node |-> t.to, to |-> Head(t.remaining),
                                   visited |-> Append(t.visited, t.to),
                                   remaining |-> Tail(t.remaining),
                                   attempt |-> 1, session |-> 0])])
  <1> DEFINE t == Last(r.stack)
             y == [node |-> t.to, to |-> Head(t.remaining), visited |-> Append(t.visited, t.to),
                   remaining |-> Tail(t.remaining), attempt |-> 1, session |-> 0]
  <1>1. r.stack \in Seq(Frames) /\ Chained(r.stack, Wanted(r.from, r.action.path))
    BY DEF FlowInv, Flows
  <1>2. t \in Frames
    BY <1>1, EmptySeq, LenProperties, ElementOfSeq DEF Last
  <1>3. t.visited \in Seq(AllNodes) /\ t.to \in AllNodes /\ t.remaining \in Seq(AllNodes)
    BY <1>2 DEF Frames
  <1>4. /\ Append(t.visited, t.to) \in Seq(AllNodes)
        /\ Head(t.remaining) \in AllNodes /\ Tail(t.remaining) \in Seq(AllNodes)
    BY <1>3, AppendProperties, HeadTailProperties
  <1>5. /\ y \in Frames
        /\ y.node = t.to /\ y.to = Head(t.remaining) /\ y.visited = Append(t.visited, t.to)
        /\ y.remaining = Tail(t.remaining)
    BY <1>3, <1>4, RelayBounds DEF Frames
  <1> HIDE DEF y
  <1>6. /\ Append(r.stack, y) \in Seq(Frames)
        /\ Append(r.stack, y) # <<>>
        /\ Chained(Append(r.stack, y), Wanted(r.from, r.action.path))
    BY <1>1, <1>5, ChainPush
  <1>7. "session" \in Stages \ {"idle", "up"}
    BY DEF Stages
  <1>8. FlowInv([r EXCEPT !.pc = "session", !.stack = Append(r.stack, y)])
    BY <1>6, <1>7, StackReplaced
  <1> QED
    BY <1>8 DEF y

-----------------------------------------------------------------------------
(* What applyAction starts.                                                *)

\* Skipping the node itself does not change where a path ends.
LEMMA OnwardEnds ==
    ASSUME NEW n \in AllNodes, NEW p \in Seq(AllNodes)
    PROVE  Onward(n, p) \in Seq(AllNodes) /\ Wanted(n, Onward(n, p)) = Wanted(n, p)
  <1>1. CASE ~(p # <<>> /\ Head(p) = n)
    BY <1>1 DEF Onward
  <1>2. CASE p # <<>> /\ Head(p) = n
    <2>1. /\ Onward(n, p) = Tail(p) /\ Tail(p) \in Seq(AllNodes)
          /\ Len(p) \in Nat /\ Len(p) >= 1 /\ Len(Tail(p)) = Len(p) - 1
          /\ \A i \in 1 .. Len(Tail(p)) : Tail(p)[i] = p[i + 1]
          /\ p[1] = n
      BY <1>2, EmptySeq, HeadTailProperties DEF Onward, Head
    <2>2. CASE Tail(p) = <<>>
      <3>1. Len(p) = 1
        BY <2>1, <2>2, EmptySeq
      <3> QED
        BY <1>2, <2>1, <2>2, <3>1 DEF Wanted
    <2>3. CASE Tail(p) # <<>>
      <3>1. Len(Tail(p)) >= 1
        BY <2>1, <2>3, EmptySeq
      <3> QED
        BY <1>2, <2>1, <2>3, <3>1 DEF Wanted
    <2> QED
      BY <2>2, <2>3
  <1> QED
    BY <1>1, <1>2

\* The first request of a path, detour included, ends where the path does.
LEMMA RequestEnds ==
    ASSUME NEW n \in AllNodes, NEW p \in Seq(AllNodes), p # <<>>
    PROVE  LET t == RelayRequest(n, p, <<n>>) IN
           /\ t \in Frames /\ t.node = n /\ t.visited = <<n>>
           /\ Ends(t) = Wanted(n, p)
  <1>1. /\ Head(p) \in AllNodes /\ Tail(p) \in Seq(AllNodes) /\ Head(p) = p[1]
        /\ Len(p) \in Nat /\ Len(p) >= 1 /\ Len(Tail(p)) = Len(p) - 1
        /\ \A i \in 1 .. Len(Tail(p)) : Tail(p)[i] = p[i + 1]
    BY EmptySeq, HeadTailProperties DEF Head
  <1>2. <<n>> \in Seq(AllNodes) /\ TheMaster \in AllNodes /\ 0 \in 0 .. MaxPeerings
    BY RelayBounds DEF AllNodes
  <1>3. Wanted(Head(p), Tail(p)) = Wanted(n, p)
    <2>1. CASE Tail(p) = <<>>
      <3>1. Len(p) = 1
        BY <1>1, <2>1, EmptySeq
      <3> QED
        BY <1>1, <2>1, <3>1 DEF Wanted
    <2>2. CASE Tail(p) # <<>>
      <3>1. Len(Tail(p)) >= 1
        BY <1>1, <2>2, EmptySeq
      <3> QED
        BY <1>1, <2>2, <3>1 DEF Wanted
    <2> QED
      BY <2>1, <2>2
  <1>4. Wanted(TheMaster, p) = Wanted(n, p)
    BY DEF Wanted
  <1>5. CASE n = TheMaster \/ Head(p) = TheMaster
    BY <1>1, <1>2, <1>3, <1>5 DEF RelayRequest, Frames, Ends
  <1>6. CASE ~(n = TheMaster \/ Head(p) = TheMaster)
    BY <1>1, <1>2, <1>4, <1>6 DEF RelayRequest, Frames, Ends
  <1> QED
    BY <1>5, <1>6

\* Setting a sound record keeps every flow sound.
LEMMA SetKeeps ==
    ASSUME RelayedInv, NEW f \in Relayed, NEW q, FlowInv(q), Set(f, q)
    PROVE  RelayedInv'
  <1>1. q \in Flows /\ relayed' = [relayed EXCEPT ![f] = q] /\ relayed \in [Relayed -> Flows]
    BY DEF FlowInv, Set, RelayedInv
  <1>2. relayed' \in [Relayed -> Flows]
    BY <1>1
  <1>3. \A g \in Relayed : relayed'[g] = IF g = f THEN q ELSE relayed[g]
    BY <1>1
  <1>4. \A g \in Relayed : FlowInv(relayed'[g])
    BY <1>3 DEF RelayedInv
  <1> QED
    BY <1>2, <1>4 DEF RelayedInv

\* A flow that is started is sound, remembers its node and revision, and is
\* dropped when it was resolved to nothing.
LEMMA ActionApplied ==
    ASSUME RelayedInv, NEW f \in Relayed, NEW n \in AllNodes, NEW rev \in Nat,
           NEW action \in Actions, applyAction(f, n, rev, action)
    PROVE  /\ RelayedInv'
           /\ relayed'[f].pc # "idle" => relayed'[f].from = n /\ relayed'[f].rev = rev
           /\ \A g \in Relayed \ {f} : relayed'[g] = relayed[g]
  <1> DEFINE path == Onward(n, action.path)
             start == [NoRelay EXCEPT !.from = n, !.rev = rev, !.action = action]
             here == [start EXCEPT !.pc = "up", !.exit = n]
             t == RelayRequest(n, path, <<n>>)
             away == [start EXCEPT !.pc = "session", !.stack = <<t>>]
  <1>1. action.path \in Seq(AllNodes) /\ path \in Seq(AllNodes)
        /\ Wanted(n, path) = Wanted(n, action.path)
    BY ActionPaths, OnwardEnds
  <1>2. <<>> \in Seq(Frames) /\ Len(<<>>) = 0
    BY EmptySeq
  <1>3. \E q : /\ FlowInv(q) /\ Set(f, q)
               /\ q.pc # "idle" => q.from = n /\ q.rev = rev
    <2>1. CASE Set(f, NoRelay)
      BY <2>1, IdleFlow DEF NoRelay
    <2>2. CASE path = <<>> /\ Set(f, here)
      <3>1. /\ here \in Flows /\ here.pc = "up" /\ here.stack = <<>> /\ here.exit = n
            /\ here.from = n /\ here.rev = rev /\ here.action = action
        BY <1>2 DEF NoRelay, Flows, Stages, AllNodes
      <3>2. Wanted(n, action.path) = n
        BY <1>1, <2>2 DEF Wanted
      <3>3. Chained(<<>>, n) /\ Simple(<<>>, n)
        BY <1>2 DEF Chained, Simple, MaxRouteHops
      <3> HIDE DEF here
      <3>4. FlowInv(here)
        BY <3>1, <3>2, <3>3 DEF FlowInv
      <3> QED
        BY <2>2, <3>1, <3>4
    <2>3. CASE path # <<>> /\ Set(f, away)
      <3>1. t \in Frames /\ t.node = n /\ t.visited = <<n>> /\ Ends(t) = Wanted(n, action.path)
        BY <1>1, <2>3, RequestEnds
      <3> HIDE DEF t, path
      <3>2. <<t>> \in Seq(Frames) /\ <<t>> # <<>> /\ Len(<<t>>) = 1 /\ <<t>>[1] = t
        BY <3>1
      <3>3. /\ away \in Flows /\ away.pc = "session" /\ away.stack = <<t>>
            /\ away.from = n /\ away.rev = rev /\ away.action = action
        BY <3>2 DEF NoRelay, Flows, Stages, AllNodes
      <3> HIDE DEF away
      <3>4. Len(<<n>>) = 1 /\ <<n>>[1] = n
        OBVIOUS
      <3>5. Chained(<<t>>, Wanted(n, action.path))
        <4> DEFINE s == <<t>>
        <4>1. Len(s) = 1 /\ s[1] = t
          BY <3>2
        <4> HIDE DEF s
        <4>2. /\ Len(s[1].visited) = 1 /\ s[1].visited[1] = s[1].node
              /\ Ends(s[1]) = Wanted(n, action.path)
          BY <3>1, <3>4, <4>1
        <4>3. Chained(s, Wanted(n, action.path))
          BY <4>1, <4>2 DEF Chained
        <4> QED
          BY <4>3 DEF s
      <3>6. FlowInv(away)
        BY <3>2, <3>3, <3>5 DEF FlowInv
      <3> QED
        BY <2>3, <3>3, <3>6
    <2> QED
      BY <2>1, <2>2, <2>3 DEF applyAction
  <1>4. PICK q : /\ FlowInv(q) /\ Set(f, q)
                 /\ q.pc # "idle" => q.from = n /\ q.rev = rev
    BY <1>3
  <1>5. RelayedInv'
    BY <1>4, SetKeeps
  <1>6. relayed'[f] = q /\ \A g \in Relayed \ {f} : relayed'[g] = relayed[g]
    BY <1>4 DEF Set, RelayedInv
  <1> QED
    BY <1>4, <1>5, <1>6

-----------------------------------------------------------------------------
(* The steps of an open.                                                   *)

\* A failed Open drops the flow or its top frame.
LEMMA FailedOpen ==
    ASSUME RelayedInv, NEW f \in Relayed, relayed[f].stack # <<>>, OpenFails(f)
    PROVE  \E q : FlowInv(q) /\ Set(f, q)
  <1>1. FlowInv(relayed[f]) /\ relayed[f].stack \in Seq(Frames)
    BY DEF RelayedInv, FlowInv, Flows
  <1>2. Len(relayed[f].stack) \in Nat
    BY <1>1, LenProperties
  <1>3. CASE Set(f, NoRelay)
    BY <1>3, IdleFlow
  <1>4. CASE /\ ~(Len(relayed[f].stack) <= 1)
             /\ Set(f, [relayed[f] EXCEPT !.pc = "refused", !.stack = Front(relayed[f].stack)])
    <2>1. Len(relayed[f].stack) - 1 \in 1 .. Len(relayed[f].stack)
      BY <1>2, <1>4
    <2>2. FlowInv([relayed[f] EXCEPT !.pc = "refused", !.stack = Front(relayed[f].stack)])
      BY <1>1, <2>1, CutKept DEF Front
    <2> QED
      BY <1>4, <2>2
  <1> QED
    BY <1>3, <1>4 DEF OpenFails

\* An open that goes on with its top frame.
LEMMA TopSet ==
    ASSUME RelayedInv, NEW f \in Relayed, relayed[f].stack # <<>>,
           NEW pc \in Stages \ {"idle", "up"},
           NEW a \in {1, 2}, NEW s \in 0 .. MaxPeerings,
           SetTop(f, pc, [Top(f) EXCEPT !.attempt = a, !.session = s])
    PROVE  \E q : FlowInv(q) /\ Set(f, q)
  <1> DEFINE t == Last(relayed[f].stack)
             x == [t EXCEPT !.attempt = a, !.session = s]
  <1>1. FlowInv(relayed[f]) /\ relayed[f].stack \in Seq(Frames)
    BY DEF RelayedInv, FlowInv, Flows
  <1>2. t \in Frames
    BY <1>1, EmptySeq, LenProperties, ElementOfSeq DEF Last
  <1>3. /\ x \in Frames /\ x.node = t.node /\ x.to = t.to
        /\ x.visited = t.visited /\ x.remaining = t.remaining
    BY <1>2 DEF Frames
  <1> HIDE DEF x
  <1>4. FlowInv([relayed[f] EXCEPT !.pc = pc, !.stack = Append(Front(relayed[f].stack), x)])
    BY <1>1, <1>3, TopKept
  <1>5. Set(f, [relayed[f] EXCEPT !.pc = pc, !.stack = Append(Front(relayed[f].stack), x)])
    BY DEF SetTop, Top, x
  <1> QED
    BY <1>4, <1>5

\* The frame an open works on.
LEMMA TopFrame ==
    ASSUME RelayedInv, NEW f \in Relayed, relayed[f].pc \notin {"idle", "up"}
    PROVE  /\ FlowInv(relayed[f]) /\ relayed[f] \in Flows
           /\ relayed[f].stack # <<>> /\ Top(f) \in Frames
           /\ Top(f) = Last(relayed[f].stack)
  <1>1. FlowInv(relayed[f]) /\ relayed[f] \in Flows /\ relayed[f].stack # <<>>
    BY DEF RelayedInv, FlowInv
  <1>2. relayed[f].stack \in Seq(Frames)
    BY <1>1 DEF Flows
  <1>3. Top(f) \in Frames
    BY <1>1, <1>2, EmptySeq, LenProperties, ElementOfSeq DEF Last, Top
  <1> QED
    BY <1>1, <1>3 DEF Top

\* A hop takes the pooled session or starts to connect one.
LEMMA PooledSessionKeeps ==
    ASSUME RelayedInv, PoolInv, NEW f \in Relayed, PooledSession(f)
    PROVE  relayed[f].pc # "idle" /\ \E q : FlowInv(q) /\ Set(f, q)
  <1> DEFINE t == Top(f)
  <1>1. /\ relayed[f].pc = "session" /\ relayed[f].stack # <<>> /\ t \in Frames
    BY TopFrame DEF PooledSession
  <1>2. t.node \in AllNodes /\ t.to \in AllNodes /\ t.attempt \in {1, 2} /\ t.session \in 0 .. MaxPeerings
    BY <1>1 DEF Frames
  <1>3. pool[t.node][t.to] \in 0 .. MaxPeerings
    BY <1>2 DEF PoolInv
  <1>4. "open" \in Stages \ {"idle", "up"} /\ "connecting" \in Stages \ {"idle", "up"}
    BY DEF Stages
  <1>5. CASE SetTop(f, "open", [t EXCEPT !.session = pool[t.node][t.to]])
    <2>1. [t EXCEPT !.session = pool[t.node][t.to]]
             = [t EXCEPT !.attempt = t.attempt, !.session = pool[t.node][t.to]]
      BY <1>1 DEF Frames
    <2>2. SetTop(f, "open", [Top(f) EXCEPT !.attempt = t.attempt, !.session = pool[t.node][t.to]])
      BY <1>5, <2>1
    <2> QED
      BY <1>1, <1>2, <1>3, <1>4, <2>2, TopSet
  <1>6. CASE SetTop(f, "connecting", t)
    <2>1. t = [t EXCEPT !.attempt = t.attempt, !.session = t.session]
      BY <1>1 DEF Frames
    <2>2. SetTop(f, "connecting", [Top(f) EXCEPT !.attempt = t.attempt, !.session = t.session])
      BY <1>6, <2>1
    <2> QED
      BY <1>1, <1>2, <1>4, <2>2, TopSet
  <1>7. CASE OpenFails(f)
    BY <1>1, <1>7, FailedOpen
  <1> QED
    BY <1>5, <1>6, <1>7 DEF PooledSession

\* A hop is connected, or its connect fails.
LEMMA ConnectedKeeps ==
    ASSUME RelayedInv, PoolInv, NEW f \in Relayed, Connected(f)
    PROVE  relayed[f].pc # "idle" /\ \E q : FlowInv(q) /\ Set(f, q)
  <1> DEFINE t == Top(f)
  <1>1. /\ relayed[f].pc = "connecting" /\ relayed[f].stack # <<>> /\ t \in Frames
    BY TopFrame DEF Connected
  <1>2. t.node \in AllNodes /\ t.to \in AllNodes /\ t.attempt \in {1, 2}
    BY <1>1 DEF Frames
  <1>3. pool[t.node][t.to] \in 0 .. MaxPeerings
    BY <1>2 DEF PoolInv
  <1>4. "open" \in Stages \ {"idle", "up"}
    BY DEF Stages
  <1>5. CASE OpenFails(f)
    BY <1>1, <1>5, FailedOpen
  <1>6. ASSUME NEW s \in 0 .. MaxPeerings, SetTop(f, "open", [t EXCEPT !.session = s])
        PROVE  \E q : FlowInv(q) /\ Set(f, q)
    <2>1. [t EXCEPT !.session = s] = [t EXCEPT !.attempt = t.attempt, !.session = s]
      BY <1>1 DEF Frames
    <2>2. SetTop(f, "open", [Top(f) EXCEPT !.attempt = t.attempt, !.session = s])
      BY <1>6, <2>1
    <2> QED
      BY <1>1, <1>2, <1>4, <2>2, TopSet
  <1>7. CASE Unconnected # {} /\ SetTop(f, "open", [t EXCEPT !.session = Fresh])
    <2>1. Fresh \in 0 .. MaxPeerings
      BY <1>7, FreshIsUnconnected, RelayBounds DEF Peerings
    <2> QED
      BY <1>1, <1>6, <1>7, <2>1
  <1> QED
    BY <1>1, <1>3, <1>5, <1>6, <1>7 DEF Connected

\* A hop whose open failed evicts the session and tries once more, or gives up.
LEMMA evictKeeps ==
    ASSUME RelayedInv, NEW f \in Relayed, evict(f)
    PROVE  relayed[f].pc # "idle" /\ \E q : FlowInv(q) /\ Set(f, q)
  <1>1. /\ relayed[f].pc = "refused" /\ relayed[f].stack # <<>>
    BY TopFrame DEF evict
  <1>2. "session" \in Stages \ {"idle", "up"} /\ 2 \in {1, 2} /\ 0 \in 0 .. MaxPeerings
    BY RelayBounds DEF Stages
  <1>3. CASE SetTop(f, "session", [Top(f) EXCEPT !.attempt = 2, !.session = 0])
    BY <1>1, <1>2, <1>3, TopSet
  <1>4. CASE OpenFails(f)
    BY <1>1, <1>4, FailedOpen
  <1> QED
    BY <1>1, <1>3, <1>4 DEF evict

\* HandleRelay: a validated request that ends here has come a simple path.
LEMMA HandleRelayKeeps ==
    ASSUME RelayedInv, NEW f \in Relayed, HandleRelay(f)
    PROVE  relayed[f].pc # "idle" /\ \E q : FlowInv(q) /\ Set(f, q)
  <1> DEFINE r == relayed[f]
             t == Last(r.stack)
  <1>1. /\ r.pc = "open" /\ FlowInv(r) /\ r \in Flows /\ r.stack # <<>> /\ t \in Frames
        /\ Top(f) = t
    BY TopFrame DEF HandleRelay
  <1>2. /\ r.stack \in Seq(Frames) /\ Chained(r.stack, Wanted(r.from, r.action.path))
        /\ t.visited \in Seq(AllNodes) /\ t.remaining \in Seq(AllNodes) /\ t.to \in AllNodes
    BY <1>1 DEF FlowInv, Flows, Frames
  <1>3. CASE Set(f, [r EXCEPT !.pc = "refused"])
    <2>1. [r EXCEPT !.pc = "refused"] = [r EXCEPT !.pc = "refused", !.stack = r.stack]
      BY <1>1 DEF Flows
    <2>2. "refused" \in Stages \ {"idle", "up"}
      BY DEF Stages
    <2>3. FlowInv([r EXCEPT !.pc = "refused", !.stack = r.stack])
      BY <1>1, <1>2, <2>2, StackReplaced
    <2> QED
      BY <1>1, <1>3, <2>1, <2>3
  <1>4. CASE /\ ValidateRelayRequest(t, t.to) /\ t.remaining = <<>>
             /\ Set(f, [r EXCEPT !.pc = "up", !.exit = t.to])
    <2> DEFINE q == [r EXCEPT !.pc = "up", !.exit = t.to]
               n == Len(r.stack)
    <2>1. /\ q \in Flows /\ q.pc = "up" /\ q.exit = t.to /\ q.stack = r.stack
          /\ q.from = r.from /\ q.action = r.action
      BY <1>1, <1>2 DEF Flows, Stages
    <2>2. n \in Nat /\ n >= 1 /\ t = r.stack[n]
      BY <1>1, <1>2, EmptySeq, LenProperties DEF Last
    <2>3. /\ Len(t.visited) = n
          /\ \A j \in 1 .. n : t.visited[j] = r.stack[j].node
          /\ Ends(t) = Wanted(r.from, r.action.path)
      BY <1>2, <2>2 DEF Chained
    <2>4. t.to = Wanted(r.from, r.action.path)
      BY <1>4, <2>3 DEF Ends, Wanted
    <2>5. t.visited \o t.remaining = t.visited /\ DOMAIN t.visited = 1 .. n
      BY <1>2, <1>4, <2>3, ConcatEmptySeq, LenProperties
    <2>6. /\ n <= MaxRouteHops
          /\ \A i, j \in 1 .. n : t.visited[i] = t.visited[j] => i = j
          /\ \A i \in 1 .. n : t.visited[i] # t.to
      BY <1>4, <2>3, <2>5 DEF ValidateRelayRequest, IsInjective, Range
    <2>7. Simple(r.stack, t.to)
      BY <2>3, <2>6 DEF Simple
    <2> HIDE DEF q
    <2>8. FlowInv(q)
      BY <1>2, <2>1, <2>4, <2>7 DEF FlowInv
    <2> QED
      BY <1>1, <1>4, <2>8 DEF q
  <1>5. CASE /\ t.remaining # <<>>
             /\ Set(f, [r EXCEPT !.pc = "session",
                         !.stack = Append(r.stack, [node |-> t.to, to |-> Head(t.remaining),
                                             visited |-> Append(t.visited, t.to),
                                             remaining |-> Tail(t.remaining),
                                             attempt |-> 1, session |-> 0])])
    BY <1>1, <1>5, PushKept
  <1>6. [r EXCEPT !.pc = "refused", !.exit = r.exit] = [r EXCEPT !.pc = "refused"]
    BY <1>1 DEF Flows
  <1>7. \/ Set(f, [r EXCEPT !.pc = "refused"])
        \/ /\ ValidateRelayRequest(t, t.to) /\ t.remaining = <<>>
           /\ \E pc \in {"up", "refused"} :
                Set(f, [r EXCEPT !.pc = pc, !.exit = IF pc = "up" THEN t.to ELSE r.exit])
        \/ /\ t.remaining # <<>>
           /\ Set(f, [r EXCEPT !.pc = "session",
                       !.stack = Append(r.stack, [node |-> t.to, to |-> Head(t.remaining),
                                           visited |-> Append(t.visited, t.to),
                                           remaining |-> Tail(t.remaining),
                                           attempt |-> 1, session |-> 0])])
    BY <1>1 DEF HandleRelay
  <1>8. \/ Set(f, [r EXCEPT !.pc = "refused"])
        \/ /\ ValidateRelayRequest(t, t.to) /\ t.remaining = <<>>
           /\ Set(f, [r EXCEPT !.pc = "up", !.exit = t.to])
        \/ /\ t.remaining # <<>>
           /\ Set(f, [r EXCEPT !.pc = "session",
                       !.stack = Append(r.stack, [node |-> t.to, to |-> Head(t.remaining),
                                           visited |-> Append(t.visited, t.to),
                                           remaining |-> Tail(t.remaining),
                                           attempt |-> 1, session |-> 0])])
    BY <1>6, <1>7
  <1> QED
    BY <1>3, <1>4, <1>5, <1>8

\* A session under an open relay ends.
LEMMA SessionLostKeeps ==
    ASSUME RelayedInv, NEW f \in Relayed, SessionLost(f)
    PROVE  relayed[f].pc # "idle" /\ \E q : FlowInv(q) /\ Set(f, q)
  <1> DEFINE r == relayed[f]
             lost == {i \in 1 .. Len(r.stack) :
                        LET s == r.stack[i].session IN s # 0 /\ muxes[s] # "up"}
  <1>1. FlowInv(r) /\ r.stack \in Seq(Frames)
    BY DEF RelayedInv, FlowInv, Flows
  <1>2. Len(r.stack) \in Nat /\ (r.stack = <<>> => Len(r.stack) = 0)
    BY <1>1, LenProperties, EmptySeq
  <1>3. lost # {}
    BY DEF SessionLost
  <1>4. Min(lost) \in 1 .. Len(r.stack)
    <2>1. lost \in SUBSET Nat
      BY <1>2
    <2>2. Min(lost) \in lost
      BY <1>3, <2>1, MinIn
    <2> QED
      BY <2>2
  <1>5. r.pc # "idle"
    BY <1>1, <1>2, <1>4 DEF FlowInv
  <1>6. \/ Set(f, NoRelay)
        \/ Set(f, [r EXCEPT !.pc = "refused", !.stack = SubSeq(r.stack, 1, Min(lost))])
    BY DEF SessionLost
  <1> HIDE DEF lost
  <1>7. FlowInv([r EXCEPT !.pc = "refused", !.stack = SubSeq(r.stack, 1, Min(lost))])
    BY <1>1, <1>4, CutKept
  <1> QED
    BY <1>5, <1>6, <1>7, IdleFlow

-----------------------------------------------------------------------------
(* The pools.                                                              *)

\* Replacing what one node has pooled for one peer.
LEMMA PoolSet ==
    ASSUME NEW P \in [AllNodes -> [AllNodes -> 0 .. MaxPeerings]],
           NEW n \in AllNodes, NEW m \in AllNodes, NEW v \in 0 .. MaxPeerings
    PROVE  /\ [P EXCEPT ![n][m] = v] \in [AllNodes -> [AllNodes -> 0 .. MaxPeerings]]
           /\ \A i, j \in AllNodes :
                [P EXCEPT ![n][m] = v][i][j] = IF i = n /\ j = m THEN v ELSE P[i][j]
  OBVIOUS

\* Forgetting a session that is closed.
LEMMA ForgetKeeps ==
    ASSUME PoolInv, NEW n \in AllNodes, NEW m \in AllNodes, UNCHANGED halted,
           pool' = [pool EXCEPT ![n][m] = 0],
           muxes' = [s \in Peerings |-> IF s = pool[n][m] THEN "closed" ELSE muxes[s]]
    PROVE  PoolInv'
  <1>1. /\ pool' \in [AllNodes -> [AllNodes -> 0 .. MaxPeerings]]
        /\ \A i, j \in AllNodes : pool'[i][j] = IF i = n /\ j = m THEN 0 ELSE pool[i][j]
    <2>1. 0 \in 0 .. MaxPeerings
      BY RelayBounds
    <2> QED
      BY <2>1, PoolSet DEF PoolInv
  <1>2. muxes' \in [Peerings -> {"none", "up", "broken", "closed"}]
    BY DEF PoolInv
  <1>3. SessionsAreHeld'
    <2> SUFFICES ASSUME NEW s \in Peerings, muxes'[s] \in {"up", "broken"}
                 PROVE  \E i \in AllNodes \ halted, j \in AllNodes : pool'[i][j] = s
      BY DEF SessionsAreHeld
    <2>1. s # pool[n][m] /\ muxes[s] \in {"up", "broken"}
      OBVIOUS
    <2>2. PICK i \in AllNodes \ halted, j \in AllNodes : pool[i][j] = s
      BY <2>1 DEF PoolInv, SessionsAreHeld
    <2> QED
      BY <1>1, <2>1, <2>2
  <1> QED
    BY <1>1, <1>2, <1>3 DEF PoolInv

\* Closing a session that was not pooled any more, or none.
LEMMA CloseKeeps ==
    ASSUME PoolInv, NEW s, UNCHANGED <<pool, halted>>, muxes' = [muxes EXCEPT ![s] = "closed"]
    PROVE  PoolInv'
  <1>1. muxes' \in [Peerings -> {"none", "up", "broken", "closed"}]
    BY DEF PoolInv
  <1>2. \A t \in Peerings : muxes'[t] \in {"up", "broken"} => muxes[t] = muxes'[t]
    BY DEF PoolInv
  <1> QED
    BY <1>1, <1>2 DEF PoolInv, SessionsAreHeld

\* Pooling a new session in place of none, or of one that is closed.
LEMMA ConnectKeeps ==
    ASSUME PoolInv, NEW n \in AllNodes, NEW m \in AllNodes, n \notin halted, UNCHANGED halted,
           Unconnected # {},
           pool' = [pool EXCEPT ![n][m] = Fresh],
           muxes' = [s \in Peerings |-> IF s = Fresh THEN "up"
                                        ELSE IF s = pool[n][m] THEN "closed" ELSE muxes[s]]
    PROVE  PoolInv'
  <1>1. Fresh \in Peerings /\ Fresh \in 0 .. MaxPeerings
    BY FreshIsUnconnected, RelayBounds DEF Peerings
  <1>2. /\ pool' \in [AllNodes -> [AllNodes -> 0 .. MaxPeerings]]
        /\ \A i, j \in AllNodes : pool'[i][j] = IF i = n /\ j = m THEN Fresh ELSE pool[i][j]
    BY <1>1, PoolSet DEF PoolInv
  <1>3. muxes' \in [Peerings -> {"none", "up", "broken", "closed"}]
    BY DEF PoolInv
  <1>4. SessionsAreHeld'
    <2> SUFFICES ASSUME NEW s \in Peerings, muxes'[s] \in {"up", "broken"}
                 PROVE  \E i \in AllNodes \ halted, j \in AllNodes : pool'[i][j] = s
      BY DEF SessionsAreHeld
    <2>1. CASE s = Fresh
      BY <1>2, <2>1
    <2>2. CASE s # Fresh
      <3>1. s # pool[n][m] /\ muxes[s] \in {"up", "broken"}
        BY <2>2
      <3>2. PICK i \in AllNodes \ halted, j \in AllNodes : pool[i][j] = s
        BY <3>1 DEF PoolInv, SessionsAreHeld
      <3> QED
        BY <1>2, <3>1, <3>2
    <2> QED
      BY <2>1, <2>2
  <1> QED
    BY <1>2, <1>3, <1>4 DEF PoolInv

\* A status request connects a peer or fails to.
LEMMA ReachKeeps ==
    ASSUME PoolInv, NEW n \in AllNodes, NEW m \in AllNodes, UNCHANGED halted,
           Reach(n, m) \/ Unreached(n, m)
    PROVE  PoolInv'
  <1>1. CASE UNCHANGED <<pool, muxes>>
    BY <1>1 DEF PoolInv, SessionsAreHeld
  <1>2. CASE /\ Unconnected # {} /\ n \notin halted
             /\ pool' = [pool EXCEPT ![n][m] = Fresh]
             /\ muxes' = [s \in Peerings |->
                            IF s = Fresh THEN "up"
                            ELSE IF s = pool[n][m] THEN "closed" ELSE muxes[s]]
    BY <1>2, ConnectKeeps
  <1>3. CASE Unreached(n, m)
    BY <1>3, ForgetKeeps DEF Unreached
  <1> QED
    BY <1>1, <1>2, <1>3 DEF Reach

\* Evicting a session empties its place in the pool only if it is still there.
LEMMA EvictKeeps ==
    ASSUME PoolInv, NEW n \in AllNodes, NEW m \in AllNodes, NEW s, UNCHANGED halted,
           pool' = Evicted(n, m, s), muxes' = [muxes EXCEPT ![s] = "closed"]
    PROVE  PoolInv'
  <1>1. CASE pool[n][m] = s
    <2>1. muxes' = [t \in Peerings |-> IF t = pool[n][m] THEN "closed" ELSE muxes[t]]
      BY <1>1 DEF PoolInv
    <2> QED
      BY <1>1, <2>1, ForgetKeeps DEF Evicted
  <1>2. CASE pool[n][m] # s
    BY <1>2, CloseKeeps DEF Evicted
  <1> QED
    BY <1>1, <1>2

\* What a connected hop does to the pool.
LEMMA ConnectedPools ==
    ASSUME RelayedInv, PoolInv, NEW f \in Relayed, Connected(f)
    PROVE  PoolInv'
  <1> DEFINE t == Top(f)
  <1>1. t.node \in AllNodes /\ t.to \in AllNodes /\ UNCHANGED halted
    BY TopFrame DEF Connected, Frames
  <1>2. CASE UNCHANGED <<pool, muxes>>
    BY <1>1, <1>2 DEF PoolInv, SessionsAreHeld
  <1>3. CASE muxes' = [muxes EXCEPT ![Fresh] = "closed"] /\ UNCHANGED pool
    BY <1>1, <1>3, CloseKeeps
  <1>4. CASE /\ Unconnected # {} /\ t.node \notin halted /\ pool[t.node][t.to] = 0
             /\ muxes' = [muxes EXCEPT ![Fresh] = "up"]
             /\ pool' = [pool EXCEPT ![t.node][t.to] = Fresh]
    <2>1. 0 \notin Peerings
      BY RelayBounds DEF Peerings
    <2>2. muxes' = [s \in Peerings |-> IF s = Fresh THEN "up"
                                       ELSE IF s = pool[t.node][t.to] THEN "closed" ELSE muxes[s]]
      BY <1>4, <2>1 DEF PoolInv
    <2> HIDE DEF t
    <2> QED
      BY <1>1, <1>4, <2>2, ConnectKeeps
  <1> QED
    BY <1>2, <1>3, <1>4 DEF Connected

\* Close closes what its node has pooled and nothing else.
LEMMA ClosePoolKeeps ==
    ASSUME PoolInv, NEW n \in AllNodes, ClosePool(n)
    PROVE  PoolInv'
  <1>1. /\ pool' = [pool EXCEPT ![n] = [m \in AllNodes |-> 0]]
        /\ muxes' = [s \in Peerings |-> IF s \in Range(pool[n]) THEN "closed" ELSE muxes[s]]
        /\ halted' = halted \cup {n}
    BY DEF ClosePool
  <1>2. pool' \in [AllNodes -> [AllNodes -> 0 .. MaxPeerings]]
    BY <1>1, RelayBounds DEF PoolInv
  <1>3. muxes' \in [Peerings -> {"none", "up", "broken", "closed"}]
    BY <1>1 DEF PoolInv
  <1>4. SessionsAreHeld'
    <2> SUFFICES ASSUME NEW s \in Peerings, muxes'[s] \in {"up", "broken"}
                 PROVE  \E i \in AllNodes \ halted', j \in AllNodes : pool'[i][j] = s
      BY DEF SessionsAreHeld
    <2>1. s \notin Range(pool[n]) /\ muxes[s] \in {"up", "broken"}
      BY <1>1
    <2>2. PICK i \in AllNodes \ halted, j \in AllNodes : pool[i][j] = s
      BY <2>1 DEF PoolInv, SessionsAreHeld
    <2>3. i # n
      BY <2>1, <2>2 DEF Range, PoolInv
    <2> QED
      BY <1>1, <2>2, <2>3 DEF PoolInv
  <1> QED
    BY <1>2, <1>3, <1>4 DEF PoolInv

-----------------------------------------------------------------------------
(* The cached state.                                                       *)

\* What LoadState does: the pools stay sound, the cache stays truthful, and the
\* revision it yields was superseded at most MaxStale ago.
LEMMA StateLoaded ==
    ASSUME PoolInv, CacheInv, NEW n \in AllNodes, NEW rev \in Nat, LoadState(n, rev),
           UNCHANGED <<published, halted, clock>>
    PROVE  /\ PoolInv' /\ CacheInv'
           /\ rev <= Len(published)
           /\ 0 < rev /\ rev < Len(published) =>
                /\ n # TheMaster
                /\ published[rev + 1].at >= clock - MaxStale
  <1> DEFINE L == Len(published)
  <1>0. L \in Nat /\ L >= 1 /\ clock \in Nat /\ MaxStale \in Nat /\ Ttl \in Nat /\ Ttl <= MaxStale
    BY EmptySeq, LenProperties, RelayBounds DEF CacheInv
  <1>1. \A i \in 1 .. L : published[i] \in [policy : Policies, at : Nat]
    BY ElementOfSeq DEF CacheInv
  <1>2. \A i \in 1 .. L : published[i].at \in Nat
    BY <1>1
  <1>3. n # TheMaster => n \in Edges
    BY DEF AllNodes
  <1>4. CASE /\ n = TheMaster /\ rev = L /\ UNCHANGED <<cache, pool, muxes>>
    <2>1. PoolInv' /\ CacheInv'
      BY <1>4 DEF PoolInv, SessionsAreHeld, CacheInv
    <2> QED
      BY <1>0, <1>4, <2>1
  <1>5. ASSUME n # TheMaster, cache[n].rev # 0, clock - cache[n].at <= MaxStale, rev = cache[n].rev
        PROVE  /\ rev <= L
               /\ rev < L => published[rev + 1].at >= clock - MaxStale
    <2>1. cache[n].rev \in Nat /\ cache[n].at \in Nat /\ cache[n].rev <= L
      BY <1>3, <1>5 DEF CacheInv
    <2>2. 0 < rev /\ rev < L => published[rev + 1].at >= cache[n].at
      BY <1>3, <1>5 DEF CacheInv
    <2>3. rev < L => rev + 1 \in 1 .. L
      BY <1>0
    <2> QED
      BY <1>0, <1>2, <1>5, <2>1, <2>2, <2>3
  <1>6. CASE /\ n # TheMaster /\ cache[n].rev # 0 /\ clock - cache[n].at < Ttl
             /\ rev = cache[n].rev /\ UNCHANGED <<cache, pool, muxes>>
    <2>1. PoolInv' /\ CacheInv'
      BY <1>6 DEF PoolInv, SessionsAreHeld, CacheInv
    <2>2. cache[n].at \in Nat
      BY <1>3, <1>6 DEF CacheInv
    <2>3. clock - cache[n].at <= MaxStale
      BY <1>0, <1>6, <2>2
    <2> QED
      BY <1>5, <1>6, <2>1, <2>3
  <1>7. CASE n # TheMaster /\ (Reach(n, TheMaster) \/ Unreached(n, TheMaster))
    <2>1. PoolInv' /\ n \in Edges
      BY <1>3, <1>7, ReachKeeps DEF AllNodes
    <2>2. CASE /\ rev = L
               /\ cache' = [cache EXCEPT ![n] = [rev |-> rev, at |-> clock]]
      <3>1. /\ cache' \in [Edges -> [rev : Nat, at : Nat]]
            /\ cache'[n].rev = L /\ cache'[n].at = clock
            /\ \A e \in Edges \ {n} : cache'[e] = cache[e]
        BY <1>0, <2>1, <2>2 DEF CacheInv
      <3>2. CacheInv'
        <4>1. \A e \in Edges :
                 /\ cache'[e].rev <= Len(published)
                 /\ cache'[e].at <= clock
                 /\ 0 < cache'[e].rev /\ cache'[e].rev < Len(published)
                      => published[cache'[e].rev + 1].at >= cache'[e].at
          <5> SUFFICES ASSUME NEW e \in Edges
                       PROVE  /\ cache'[e].rev <= Len(published)
                              /\ cache'[e].at <= clock
                              /\ 0 < cache'[e].rev /\ cache'[e].rev < Len(published)
                                   => published[cache'[e].rev + 1].at >= cache'[e].at
            OBVIOUS
          <5>1. CASE e = n
            BY <1>0, <3>1, <5>1
          <5>2. CASE e # n
            BY <3>1, <5>2 DEF CacheInv
          <5> QED
            BY <5>1, <5>2
        <4> QED
          BY <3>1, <4>1 DEF CacheInv
      <3> QED
        BY <1>0, <2>1, <2>2, <3>2
    <2>3. CASE rev = 0 /\ UNCHANGED cache
      <3>1. CacheInv'
        BY <2>3 DEF CacheInv
      <3> QED
        BY <1>0, <2>1, <2>3, <3>1
    <2>4. CASE Servable(n) /\ rev = cache[n].rev /\ UNCHANGED cache
      <3>1. CacheInv'
        BY <2>4 DEF CacheInv
      <3> QED
        BY <1>5, <1>7, <2>1, <2>4, <3>1 DEF Servable
    <2>5. \/ rev = L /\ cache' = [cache EXCEPT ![n] = [rev |-> rev, at |-> clock]]
          \/ rev = 0 /\ UNCHANGED cache
          \/ Servable(n) /\ rev = cache[n].rev /\ UNCHANGED cache
          \/ rev = cache[n].rev /\ UNCHANGED <<cache, pool, muxes>>
             /\ cache[n].rev # 0 /\ clock - cache[n].at < Ttl
      BY <1>7 DEF LoadState
    <2> QED
      BY <1>6, <1>7, <2>2, <2>3, <2>4, <2>5
  <1> QED
    BY <1>4, <1>6, <1>7 DEF LoadState

\* Routing a flow.
LEMMA RouteKeeps ==
    ASSUME RelayInv, NEW f \in Relayed, NEW n \in AllNodes, NEW hint \in Hints,
           RouteFlow(f, n, hint)
    PROVE  /\ RelayInv'
           /\ relayed'[f].pc # "idle" /\ relayed'[f].rev < Len(published) =>
                /\ relayed'[f].from # TheMaster
                /\ published[relayed'[f].rev + 1].at >= clock - MaxStale
           /\ \A g \in Relayed \ {f} : relayed'[g] = relayed[g]
  <1>1. RelayedInv /\ PoolInv /\ CacheInv
    BY DEF RelayInv
  <1>2. PICK rev \in 0 .. MaxRevisions :
           /\ LoadState(n, rev)
           /\ IF rev = 0 THEN Set(f, NoRelay)
              ELSE applyAction(f, n, rev, Resolve(published[rev].policy, hint))
    BY DEF RouteFlow
  <1>3. UNCHANGED <<published, halted, clock>> /\ rev \in Nat
    BY RelayBounds DEF RouteFlow
  <1>4. /\ PoolInv' /\ CacheInv' /\ rev <= Len(published)
        /\ 0 < rev /\ rev < Len(published) =>
             /\ n # TheMaster
             /\ published[rev + 1].at >= clock - MaxStale
    BY <1>1, <1>2, <1>3, StateLoaded
  <1>5. CASE rev = 0
    <2>1. RelayedInv'
      BY <1>1, <1>2, <1>5, IdleFlow, SetKeeps
    <2>2. relayed'[f] = NoRelay /\ \A g \in Relayed \ {f} : relayed'[g] = relayed[g]
      BY <1>1, <1>2, <1>5 DEF Set, RelayedInv
    <2> QED
      BY <1>4, <2>1, <2>2 DEF RelayInv, NoRelay
  <1>6. CASE rev # 0
    <2>1. published[rev] \in [policy : Policies, at : Nat]
      <3>1. rev \in 1 .. Len(published)
        BY <1>1, <1>3, <1>4, <1>6, LenProperties DEF CacheInv
      <3> QED
        BY <1>1, <3>1, ElementOfSeq DEF CacheInv
    <2>2. Resolve(published[rev].policy, hint) \in Actions
      BY <2>1, Resolved
    <2>3. applyAction(f, n, rev, Resolve(published[rev].policy, hint))
      BY <1>2, <1>6
    <2>4. /\ RelayedInv'
          /\ relayed'[f].pc # "idle" => relayed'[f].from = n /\ relayed'[f].rev = rev
          /\ \A g \in Relayed \ {f} : relayed'[g] = relayed[g]
      BY <1>1, <1>3, <2>2, <2>3, ActionApplied
    <2> QED
      BY <1>3, <1>4, <1>6, <2>4 DEF RelayInv
  <1> QED
    BY <1>5, <1>6

\* Publishing a revision supersedes only what was fetched before now.
LEMMA PublishKeeps ==
    ASSUME CacheInv, NEW p \in Policies, Publish(p)
    PROVE  CacheInv'
  <1> DEFINE L == Len(published)
             x == [policy |-> p, at |-> clock]
  <1>1. /\ published' = Append(published, x) /\ UNCHANGED <<cache, clock>>
        /\ clock \in Nat /\ x \in [policy : Policies, at : Nat] /\ x.at = clock
    BY DEF Publish, CacheInv
  <1>2. L \in Nat
    BY LenProperties DEF CacheInv
  <1> HIDE DEF x
  <1>3. /\ published' \in Seq([policy : Policies, at : Nat]) /\ published' # <<>>
        /\ Len(published') = L + 1
        /\ \A i \in 1 .. L : published'[i] = published[i]
        /\ published'[L + 1] = x
    BY <1>1, AppendProperties DEF CacheInv
  <1>4. ASSUME NEW e \in Edges
        PROVE  /\ cache[e].rev <= L + 1
               /\ cache[e].at <= clock
               /\ 0 < cache[e].rev /\ cache[e].rev < L + 1
                     => published'[cache[e].rev + 1].at >= cache[e].at
    <2>1. /\ cache[e].rev \in Nat /\ cache[e].at \in Nat
          /\ cache[e].rev <= L /\ cache[e].at <= clock
          /\ 0 < cache[e].rev /\ cache[e].rev < L
                => published[cache[e].rev + 1].at >= cache[e].at
      BY DEF CacheInv
    <2>2. CASE cache[e].rev = L
      BY <1>1, <1>2, <1>3, <2>1, <2>2
    <2>3. CASE cache[e].rev < L
      <3>1. cache[e].rev + 1 \in 1 .. L
        BY <1>2, <2>1, <2>3
      <3> QED
        BY <1>2, <1>3, <2>1, <2>3, <3>1
    <2> QED
      BY <1>2, <2>1, <2>2, <2>3
  <1> QED
    BY <1>1, <1>3, <1>4 DEF CacheInv

-----------------------------------------------------------------------------
(* Every step.                                                             *)

\* A flow that leaves idle in this step was routed by a fresh revision.
RoutedFresh ==
    \A f \in Relayed :
       LET r == relayed'[f] IN
       relayed[f].pc = "idle" /\ r.pc # "idle" /\ r.rev < Len(published) =>
         /\ r.from # TheMaster
         /\ published[r.rev + 1].at >= clock - MaxStale

\* A step that leaves the relayed flows alone routes none.
LEMMA NothingRouted == ASSUME UNCHANGED relayed PROVE RoutedFresh
  BY DEF RoutedFresh

\* A step of an open that is under way.
LEMMA OpenStep ==
    ASSUME RelayInv, NEW f \in Relayed,
           \/ PooledSession(f) \/ Connected(f) \/ HandleRelay(f) \/ evict(f) \/ SessionLost(f)
           \/ RelayedEnds(f)
    PROVE  RelayInv' /\ RoutedFresh
  <1>1. RelayedInv /\ PoolInv /\ CacheInv
    BY DEF RelayInv
  <1>2. relayed[f].pc # "idle" /\ \E q : FlowInv(q) /\ Set(f, q)
    <2>1. CASE RelayedEnds(f)
      BY <2>1, IdleFlow DEF RelayedEnds
    <2> QED
      BY <1>1, <2>1, PooledSessionKeeps, ConnectedKeeps, HandleRelayKeeps, evictKeeps,
         SessionLostKeeps
  <1>3. PICK q : FlowInv(q) /\ Set(f, q)
    BY <1>2
  <1>4. RelayedInv'
    BY <1>1, <1>3, SetKeeps
  <1>5. \A g \in Relayed \ {f} : relayed'[g] = relayed[g]
    BY <1>1, <1>3 DEF Set, RelayedInv
  <1>6. RoutedFresh
    BY <1>2, <1>5 DEF RoutedFresh
  <1>7. UNCHANGED <<published, cache, clock, halted>>
    BY DEF PooledSession, Connected, HandleRelay, evict, SessionLost, RelayedEnds
  <1>8. CacheInv'
    BY <1>1, <1>7 DEF CacheInv
  <1>9. PoolInv'
    <2>1. CASE UNCHANGED <<pool, muxes>>
      BY <1>1, <1>7, <2>1 DEF PoolInv, SessionsAreHeld
    <2>2. CASE Connected(f)
      BY <1>1, <2>2, ConnectedPools
    <2>3. CASE evict(f)
      <3> DEFINE t == Top(f)
      <3>1. t.node \in AllNodes /\ t.to \in AllNodes
        BY <1>1, <2>3, TopFrame DEF evict, Frames
      <3>2. pool' = Evicted(t.node, t.to, t.session) /\ muxes' = [muxes EXCEPT ![t.session] = "closed"]
        BY <2>3 DEF evict
      <3> HIDE DEF t
      <3> QED
        BY <1>1, <1>7, <3>1, <3>2, EvictKeeps
    <2> QED
      BY <2>1, <2>2, <2>3 DEF PooledSession, HandleRelay, SessionLost, RelayedEnds
  <1> QED
    BY <1>4, <1>6, <1>8, <1>9 DEF RelayInv

\* Every step of the relays keeps the invariant, and routes on fresh policy only.
LEMMA RelayStep == RelayInv /\ [RelayNext]_relayVars => RelayInv' /\ RoutedFresh
  <1> SUFFICES ASSUME RelayInv, [RelayNext]_relayVars PROVE RelayInv' /\ RoutedFresh
    OBVIOUS
  <1>1. RelayedInv /\ PoolInv /\ CacheInv
    BY DEF RelayInv
  <1>2. CASE UNCHANGED relayVars
    <2>1. UNCHANGED relayed /\ RelayedInv' /\ PoolInv' /\ CacheInv'
      BY <1>1, <1>2 DEF relayVars, RelayedInv, PoolInv, SessionsAreHeld, CacheInv
    <2> QED
      BY <2>1, NothingRouted DEF RelayInv
  <1>3. ASSUME NEW f \in Relayed, NEW n \in AllNodes, NEW hint \in Hints, RouteFlow(f, n, hint)
        PROVE  RelayInv' /\ RoutedFresh
    BY <1>3, RouteKeeps DEF RoutedFresh
  <1>4. ASSUME NEW f \in Relayed, RelaySteps(f)
        PROVE  RelayInv' /\ RoutedFresh
    BY <1>3, <1>4, OpenStep DEF RelaySteps
  <1>5. ASSUME NEW n \in AllNodes, NEW m \in AllNodes, PoolRequest(n, m)
        PROVE  RelayInv' /\ RoutedFresh
    <2>1. UNCHANGED <<published, cache, halted, relayed, clock>> /\ Unreached(n, m)
      BY <1>5 DEF PoolRequest
    <2>2. PoolInv'
      BY <1>1, <2>1, ReachKeeps
    <2>3. RelayedInv' /\ CacheInv'
      BY <1>1, <2>1 DEF RelayedInv, CacheInv
    <2> QED
      BY <2>1, <2>2, <2>3, NothingRouted DEF RelayInv
  <1>6. ASSUME NEW s \in Peerings, SessionBreaks(s)
        PROVE  RelayInv' /\ RoutedFresh
    <2>1. /\ UNCHANGED <<published, cache, pool, halted, relayed, clock>>
          /\ muxes[s] = "up" /\ muxes' = [muxes EXCEPT ![s] = "broken"]
      BY <1>6 DEF SessionBreaks
    <2>2. /\ muxes' \in [Peerings -> {"none", "up", "broken", "closed"}]
          /\ \A t \in Peerings : muxes'[t] \in {"up", "broken"} => muxes[t] \in {"up", "broken"}
      BY <1>1, <2>1 DEF PoolInv
    <2>3. PoolInv'
      BY <1>1, <2>1, <2>2 DEF PoolInv, SessionsAreHeld
    <2>4. RelayedInv' /\ CacheInv'
      BY <1>1, <2>1 DEF RelayedInv, CacheInv
    <2> QED
      BY <2>1, <2>3, <2>4, NothingRouted DEF RelayInv
  <1>7. ASSUME NEW n \in AllNodes, ClosePool(n)
        PROVE  RelayInv' /\ RoutedFresh
    <2>1. UNCHANGED <<published, cache, relayed, clock>>
      BY <1>7 DEF ClosePool
    <2>2. RelayedInv' /\ CacheInv' /\ PoolInv'
      BY <1>1, <1>7, <2>1, ClosePoolKeeps DEF RelayedInv, CacheInv
    <2> QED
      BY <2>1, <2>2, NothingRouted DEF RelayInv
  <1>8. ASSUME NEW p \in Policies, Publish(p)
        PROVE  RelayInv' /\ RoutedFresh
    <2>1. UNCHANGED <<pool, muxes, halted, relayed>> /\ CacheInv'
      BY <1>1, <1>8, PublishKeeps DEF Publish
    <2>2. RelayedInv' /\ PoolInv'
      BY <1>1, <2>1 DEF RelayedInv, PoolInv, SessionsAreHeld
    <2> QED
      BY <2>1, <2>2, NothingRouted DEF RelayInv
  <1>9. CASE ClockTicks
    <2>1. UNCHANGED <<published, cache, pool, muxes, halted, relayed>> /\ clock' = clock + 1
      BY <1>9 DEF ClockTicks
    <2>2. RelayedInv' /\ PoolInv'
      BY <1>1, <2>1 DEF RelayedInv, PoolInv, SessionsAreHeld
    <2>3. CacheInv'
      BY <1>1, <2>1 DEF CacheInv
    <2> QED
      BY <2>1, <2>2, <2>3, NothingRouted DEF RelayInv
  <1> QED
    BY <1>2, <1>4, <1>5, <1>6, <1>7, <1>8, <1>9 DEF RelayNext

\* The initial state satisfies the invariant.
LEMMA RelayStart == RelayInit => RelayInv
  <1> SUFFICES ASSUME RelayInit PROVE RelayInv
    OBVIOUS
  <1>1. RelayedInv
    <2>1. NoRelay \in Flows
      BY IdleFlow DEF FlowInv
    <2>2. relayed = [f \in Relayed |-> NoRelay]
      BY DEF RelayInit
    <2> QED
      BY <2>1, <2>2, IdleFlow DEF RelayedInv
  <1>2. PoolInv
    <2>1. 0 \in 0 .. MaxPeerings
      BY RelayBounds
    <2> QED
      BY <2>1 DEF RelayInit, PoolInv, SessionsAreHeld
  <1>3. CacheInv
    <2>1. PICK p \in Policies : published = <<[policy |-> p, at |-> 0]>>
      BY DEF RelayInit
    <2>2. [policy |-> p, at |-> 0] \in [policy : Policies, at : Nat]
      OBVIOUS
    <2>3. published \in Seq([policy : Policies, at : Nat]) /\ published # <<>> /\ Len(published) = 1
      BY <2>1, <2>2
    <2> QED
      BY <2>3 DEF RelayInit, CacheInv
  <1> QED
    BY <1>1, <1>2, <1>3 DEF RelayInv

-----------------------------------------------------------------------------
(* Results.                                                                *)

\* The invariant of the relays, pools and policy caches holds in every
\* behaviour, for every topology, credential assignment and bound.
THEOREM RelayInductive == RelaySpec => []RelayInv
  BY RelayStart, RelayStep, PTL DEF RelaySpec

\* For any cluster, policies, flows and sessions, however connects, evictions,
\* losses and closing pools interleave: a flow that is up came a path without a
\* repeated node of at most MaxRouteHops hops to the node its action names, and
\* every session still open is the one some open pool holds (HandleRelay,
\* applyAction, PeerPool.session, evict, Close).
THEOREM RelaysSound == RelaySpec => []RelaysAreSound
  <1>1. RelayInv => RelaysAreSound
    <2> SUFFICES ASSUME RelayInv PROVE RelayEndsAtExit
      BY DEF RelaysAreSound, RelayInv, PoolInv
    <2> SUFFICES ASSUME NEW f \in Relayed, relayed[f].pc = "up"
                 PROVE  LET r     == relayed[f]
                            nodes == [i \in 1..Len(r.stack) |-> r.stack[i].node]
                            wanted == IF r.action.path = <<>> THEN r.from ELSE Last(r.action.path)
                        IN  /\ r.exit = wanted
                            /\ IsInjective(Append(nodes, r.exit))
                            /\ Len(nodes) <= MaxRouteHops
      BY DEF RelayEndsAtExit
    <2> DEFINE r == relayed[f]
               n == Len(r.stack)
               nodes == [i \in 1 .. n |-> r.stack[i].node]
    <2>1. /\ r.stack \in Seq(Frames) /\ r.exit \in AllNodes
          /\ r.exit = Wanted(r.from, r.action.path) /\ Simple(r.stack, r.exit)
      BY DEF RelayInv, RelayedInv, FlowInv, Flows
    <2>2. n \in Nat /\ \A i \in 1 .. n : r.stack[i] \in Frames
      BY <2>1, LenProperties, ElementOfSeq
    <2>3. \A i \in 1 .. n : r.stack[i].node \in AllNodes
      BY <2>2 DEF Frames
    <2> HIDE DEF n
    <2>4. nodes \in Seq(AllNodes) /\ Len(nodes) = n /\ \A i \in 1 .. n : nodes[i] = r.stack[i].node
      BY <2>2, <2>3
    <2> HIDE DEF nodes
    <2>5. /\ n <= MaxRouteHops
          /\ \A i, j \in 1 .. n : nodes[i] = nodes[j] => i = j
          /\ \A i \in 1 .. n : nodes[i] # r.exit
      BY <2>1, <2>4 DEF Simple, n
    <2>6. LET s == Append(nodes, r.exit) IN
          /\ DOMAIN s = 1 .. n + 1
          /\ \A i \in 1 .. n : s[i] = nodes[i]
          /\ s[n + 1] = r.exit
      BY <2>1, <2>4, AppendProperties, LenProperties
    <2>7. IsInjective(Append(nodes, r.exit))
      BY <2>2, <2>5, <2>6 DEF IsInjective
    <2>8. r.exit = IF r.action.path = <<>> THEN r.from ELSE Last(r.action.path)
      BY <2>1 DEF Wanted, Last
    <2> QED
      BY <2>4, <2>5, <2>7, <2>8 DEF nodes, n
  <1> QED
    BY <1>1, RelayInductive, PTL

\* For any limits with Ttl <= MaxStale: no flow is routed by a revision that was
\* superseded longer than MaxStale ago, and the master never routes by an old
\* one, whichever requests to the master fail (StateCache.Load).
THEOREM StaleBounded == RelaySpec => PolicyBoundedStale
  BY RelayInductive, RelayStep, PTL DEF RelaySpec, PolicyBoundedStale, RoutedFresh

=============================================================================
