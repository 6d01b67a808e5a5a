------------------------------ MODULE PathProofs ------------------------------
(***************************************************************************)
(* Two parts that give a client its way to the server.                     *)
(*                                                                         *)
(* A UDP association delivers each record once, for every size of the two  *)
(* replay windows and whatever the network repeats.  The windows are the   *)
(* argument: a record that has passed one is refused by it for good, even  *)
(* after its slot is taken by another counter (StaysRefused).              *)
(*                                                                         *)
(* The race for a carrier leaves one session open, for every number of     *)
(* overlapping calls.  The proof follows an outcome from the goroutine     *)
(* through the channel to the caller (Channel, Taken), and counts them.    *)
(***************************************************************************)
EXTENDS DatagramPath, CarrierRace, TLAPS

Windows == [highest : Nat, slots : [0 .. Window - 1 -> Nat]]

\* The shapes of what the variables hold.
Writers      == [id : Nat, key : Nat, counter : Nat, closed : BOOLEAN]
Datagrams    == [key : Nat, counter : Nat, id : Nat]
Records      == [id : Nat, close : BOOLEAN]
Readers      == [key : Nat, window : Windows, queue : Seq(Nat), open : BOOLEAN]
Associations == [window : Windows, records : Seq(Int), reliable : {"read", "put", "done"},
                 pending : Int, aborted : BOOLEAN, failed : {"no", "stale", "seen"}]
Seals        == Nat \X Nat \X Nat

PathTypeOK ==
    /\ writer \in Writers
    /\ network \subseteq Datagrams
    /\ stream \in Seq(Records)
    /\ reader \in Readers
    /\ assoc \in Associations
    /\ got \in [Ids -> Nat]
    /\ wrapped \subseteq Seals

\* A record travels in one lane only: no ID on the stream is in the network, in
\* the endpoint's queue or remembered by the association's window.
OneLane ==
    /\ \A j \in 1 .. Len(stream) : stream[j].id \in 1 .. writer.id
    /\ \A j, k \in 1 .. Len(stream) : j < k => stream[j].id # stream[k].id
    /\ \A d \in network : d.id \in 1 .. writer.id
    /\ \A d \in network : \A j \in 1 .. Len(stream) : stream[j].id # d.id
    /\ \A q \in 1 .. Len(reader.queue) : reader.queue[q] \in 1 .. writer.id
    /\ \A q \in 1 .. Len(reader.queue) : \A j \in 1 .. Len(stream) :
          stream[j].id # reader.queue[q]
    /\ \A k \in 0 .. Window - 1 : assoc.window.slots[k] <= assoc.window.highest
    /\ \A k \in 0 .. Window - 1 : assoc.window.slots[k] <= writer.id
    /\ \A k \in 0 .. Window - 1 : \A j \in 1 .. Len(stream) :
          stream[j].id # assoc.window.slots[k]

\* Record i has passed the association's window.
Passed(i) ==
    \/ got[i] # 0
    \/ assoc.pending = i
    \/ \E j \in 1 .. Len(assoc.records) : assoc.records[j] = i

\* What has passed the window is refused by it, and is in one place.
PassedOnce ==
    /\ \A i \in Ids : Passed(i) => ~Accepts(assoc.window, i)
    /\ \A i \in Ids : got[i] <= 1
    /\ assoc.pending \in Ids => got[assoc.pending] = 0
    /\ \A j \in 1 .. Len(assoc.records) : assoc.records[j] \in Ids =>
          got[assoc.records[j]] = 0 /\ assoc.pending # assoc.records[j]
    /\ \A j, k \in 1 .. Len(assoc.records) :
          j < k /\ assoc.records[j] \in Ids => assoc.records[j] # assoc.records[k]

\* Counters only grow under one key, so that no pair of the two seals twice.
SealedOnce ==
    /\ \A a \in wrapped : a[1] <= writer.key /\ (a[1] = writer.key => a[2] <= writer.counter)
    /\ \A a, b \in wrapped : a[1] = b[1] /\ a[2] = b[2] => a = b

PathInv == PathTypeOK /\ OneLane /\ PassedOnce /\ SealedOnce /\ FailsOnlyWhenOvertaken

\* Two counters that share a slot are at least a window apart.
LEMMA ModGap ==
    ASSUME NEW w \in Nat \ {0}, NEW a \in Nat, NEW b \in Nat, a < b, a % w = b % w
    PROVE  b - a >= w
<1> DEFINE p == a \div w
           q == b \div w
           r == a % w
<1>1. /\ p \in Int /\ q \in Int /\ r \in 0 .. w - 1
      /\ a = w * p + r /\ b = w * q + r
  OBVIOUS
<1> HIDE DEF p, q, r
<1>2. b - a = w * (q - p)  BY <1>1
<1>3. q - p >= 1
  <2>1. CASE q - p <= 0
    <3>1. w * (q - p) <= 0  BY <1>1, <2>1
    <3> QED  BY <1>1, <1>2, <3>1
  <2> QED  BY <1>1, <2>1
<1>4. w * (q - p) >= w  BY <1>1, <1>3
<1> QED  BY <1>2, <1>4

\* Accept keeps the shape of a window, never lowers its upper end, and from
\* then on refuses the counter it took.
LEMMA AcceptWindow ==
    ASSUME NEW w \in Windows, NEW c \in Nat
    PROVE  /\ Accept(w, c) \in Windows
           /\ Accept(w, c).highest >= w.highest /\ Accept(w, c).highest >= c
           /\ ~Accepts(Accept(w, c), c)
<1>1. Window \in Nat \ {0} /\ c % Window \in 0 .. Window - 1  BY PathBounds
<1> QED  BY <1>1 DEF Windows, Accept, Accepts, Remembered

\* A counter the window refuses stays refused: a slot is only taken over by a
\* counter so much larger that the old one has become too old, because a smaller
\* one in the same slot would itself have been too old to be accepted.
LEMMA StaysRefused ==
    ASSUME NEW w \in Windows, \A k \in 0 .. Window - 1 : w.slots[k] <= w.highest,
           NEW c \in Nat, NEW i \in Nat, Accepts(w, c), ~Accepts(w, i)
    PROVE  ~Accepts(Accept(w, c), i)
<1>1. Window \in Nat \ {0} /\ w.highest \in Nat /\ w.slots \in [0 .. Window - 1 -> Nat]
  BY PathBounds DEF Windows
<1>a. c % Window \in 0 .. Window - 1 /\ i % Window \in 0 .. Window - 1  BY <1>1
<1> DEFINE v == Accept(w, c)
<1>2. v.highest \in Nat /\ v.highest >= w.highest /\ v.highest >= c
  BY <1>1 DEF Accept
<1>b. v.slots = [w.slots EXCEPT ![c % Window] = c]
  BY DEF Accept
<1> SUFFICES ~Accepts(v, i)  OBVIOUS
<1> HIDE DEF v
<1>3. CASE TooOld(w, i)
  <2>1. TooOld(v, i)  BY <1>1, <1>2, <1>3 DEF TooOld
  <2> QED  BY <2>1 DEF Accepts
<1>4. CASE ~TooOld(w, i)
  <2>1. w.slots[i % Window] = i /\ i <= w.highest
    BY <1>1, <1>a, <1>4 DEF Accepts, Remembered
  <2>2. CASE i % Window # c % Window
    <3>1. v.slots[i % Window] = i  BY <1>1, <1>a, <1>b, <2>1, <2>2
    <3> QED  BY <3>1 DEF Accepts, Remembered
  <2>3. CASE i % Window = c % Window
    <3>1. i # c  BY <2>1, <2>3 DEF Accepts, Remembered
    <3>2. CASE i < c
      <4>1. c - i >= Window  BY <1>1, <2>3, <3>2, ModGap
      <4>2. TooOld(v, i)  BY <1>1, <1>2, <3>2, <4>1 DEF TooOld
      <4> QED  BY <4>2 DEF Accepts
    <3>3. CASE c < i
      <4>1. i - c >= Window  BY <1>1, <2>3, <3>3, ModGap
      <4>2. TooOld(w, c)  BY <1>1, <2>1, <3>3, <4>1 DEF TooOld
      <4> QED  BY <4>2 DEF Accepts
    <3> QED  BY <3>1, <3>2, <3>3
  <2> QED  BY <2>2, <2>3
<1> QED  BY <1>3, <1>4

\* What Append and Tail do to the elements of a sequence.
LEMMA AppendAt ==
    ASSUME NEW S, NEW s \in Seq(S), NEW e \in S
    PROVE  /\ Append(s, e) \in Seq(S) /\ Len(Append(s, e)) = Len(s) + 1 /\ Len(s) \in Nat
           /\ \A j \in 1 .. Len(s) + 1 : Append(s, e)[j] = IF j <= Len(s) THEN s[j] ELSE e
           /\ \A j \in 1 .. Len(s) : s[j] \in S
  OBVIOUS

LEMMA TailAt ==
    ASSUME NEW S, NEW s \in Seq(S), s # << >>
    PROVE  /\ Tail(s) \in Seq(S) /\ Len(Tail(s)) = Len(s) - 1 /\ Len(s) \in Nat \ {0}
           /\ Head(s) = s[1] /\ Head(s) \in S
           /\ \A j \in 1 .. Len(s) - 1 : Tail(s)[j] = s[j + 1]
  OBVIOUS

LEMMA EmptyWindowTyped == EmptyWindow \in Windows
  BY PathBounds DEF EmptyWindow, Windows

\* What is in the sequences, the network and the association's window are numbers.
LEMMA Elements ==
    ASSUME PathTypeOK
    PROVE  /\ assoc.window \in Windows /\ assoc.window.highest \in Nat
           /\ \A k \in 0 .. Window - 1 : assoc.window.slots[k] \in Nat
           /\ \A q \in 1 .. Len(reader.queue) : reader.queue[q] \in Nat
           /\ \A d \in network : d.id \in Nat /\ d.counter \in Nat
           /\ \A j \in 1 .. Len(stream) : stream[j].id \in Nat
           /\ \A j \in 1 .. Len(assoc.records) : assoc.records[j] \in Int
           /\ \A a \in wrapped : a[1] \in Nat /\ a[2] \in Nat
<1>1. assoc.window \in Windows /\ assoc.records \in Seq(Int)
  BY DEF PathTypeOK, Associations
<1>2. assoc.window.highest \in Nat /\ \A k \in 0 .. Window - 1 : assoc.window.slots[k] \in Nat
  BY <1>1 DEF Windows
<1>3. reader.queue \in Seq(Nat)  BY DEF PathTypeOK, Readers
<1>4. \A d \in network : d.id \in Nat /\ d.counter \in Nat  BY DEF PathTypeOK, Datagrams
<1>5. \A j \in 1 .. Len(stream) : stream[j].id \in Nat
  <2>1. \A j \in 1 .. Len(stream) : stream[j] \in Records  BY DEF PathTypeOK
  <2> QED  BY <2>1 DEF Records
<1>6. \A a \in wrapped : a[1] \in Nat /\ a[2] \in Nat  BY DEF PathTypeOK, Seals
<1>7. \A q \in 1 .. Len(reader.queue) : reader.queue[q] \in Nat  BY <1>3
<1>8. \A j \in 1 .. Len(assoc.records) : assoc.records[j] \in Int  BY <1>1
<1> QED  BY <1>1, <1>2, <1>4, <1>5, <1>6, <1>7, <1>8

\* PathInit establishes the invariant.
LEMMA PathInitInv == PathInit => PathInv
<1> SUFFICES ASSUME PathInit PROVE PathInv  OBVIOUS
<1> USE DEF PathInit
<1>1. PathTypeOK
  <2>1. << >> \in Seq(Records) /\ << >> \in Seq(Nat) /\ << >> \in Seq(Int)
    OBVIOUS
  <2>2. got \in [Ids -> Nat]  OBVIOUS
  <2> QED  BY <2>1, <2>2, EmptyWindowTyped DEF PathTypeOK, NoRecord, Writers, Readers, Associations
<1>2. OneLane  BY PathBounds DEF OneLane, EmptyWindow
<1>3. PassedOnce  BY DEF PassedOnce, Passed, Ids, NoRecord
<1>4. SealedOnce  BY DEF SealedOnce
<1>5. FailsOnlyWhenOvertaken  BY DEF FailsOnlyWhenOvertaken
<1> QED  BY <1>1, <1>2, <1>3, <1>4, <1>5 DEF PathInv

\* PassedOnce and FailsOnlyWhenOvertaken only look at the association and at
\* what its reader has got.
LEMMA SameAssociation ==
    PassedOnce /\ FailsOnlyWhenOvertaken /\ UNCHANGED <<assoc, got>>
        => PassedOnce' /\ FailsOnlyWhenOvertaken'
  BY DEF PassedOnce, Passed, FailsOnlyWhenOvertaken, Accepts, TooOld, Remembered, Ids

\* A record with the next ID may join the stream.
LEMMA StreamGrows ==
    ASSUME PathTypeOK, OneLane, writer.id \in Nat, writer'.id = writer.id + 1,
           NEW e \in Records, e.id = writer.id + 1, stream' = Append(stream, e),
           UNCHANGED <<network, reader, assoc>>
    PROVE  OneLane'
<1> DEFINE n == Len(stream)
<1>1. /\ n \in Nat /\ Len(stream') = n + 1
      /\ \A j \in 1 .. n + 1 : stream'[j] = IF j <= n THEN stream[j] ELSE e
  BY AppendAt DEF PathTypeOK
<1>2. \A j \in 1 .. n + 1 : stream'[j].id = IF j <= n THEN stream[j].id ELSE writer.id + 1
  BY <1>1
<1>3. \A j \in 1 .. n : stream[j].id \in 1 .. writer.id  BY DEF OneLane
<1>4. \A j, k \in 1 .. n : j < k => stream[j].id # stream[k].id  BY DEF OneLane
<1> HIDE DEF n
<1>5. \A j \in 1 .. n + 1 : stream'[j].id \in 1 .. writer.id + 1
  BY <1>1, <1>2, <1>3
<1>6. \A j, k \in 1 .. n + 1 : j < k => stream'[j].id # stream'[k].id
  <2>1. ASSUME NEW j \in 1 .. n + 1, NEW k \in 1 .. n + 1, j < k
        PROVE  stream'[j].id # stream'[k].id
    <3>1. j \in 1 .. n /\ stream'[j].id = stream[j].id  BY <1>1, <1>2, <2>1
    <3>2. CASE k \in 1 .. n  BY <1>1, <1>2, <1>4, <2>1, <3>1, <3>2
    <3>3. CASE k = n + 1
      <4>1. stream'[k].id = writer.id + 1  BY <1>1, <1>2, <3>3
      <4>2. stream[j].id \in 1 .. writer.id  BY <1>3, <3>1
      <4> QED  BY <3>1, <4>1, <4>2
    <3> QED  BY <1>1, <3>2, <3>3
  <2> QED  BY <2>1
<1>7. ASSUME NEW i \in Nat, i <= writer.id, \A j \in 1 .. n : stream[j].id # i
      PROVE  \A j \in 1 .. n + 1 : stream'[j].id # i
  BY <1>1, <1>2, <1>7
<1>8. /\ \A d \in network : d.id \in 1 .. writer.id + 1
      /\ \A d \in network : \A j \in 1 .. n + 1 : stream'[j].id # d.id
  <2>1. ASSUME NEW d \in network
        PROVE  d.id \in 1 .. writer.id + 1 /\ \A j \in 1 .. n + 1 : stream'[j].id # d.id
    <3>1. d.id \in 1 .. writer.id /\ \A j \in 1 .. n : stream[j].id # d.id  BY DEF OneLane, n
    <3>2. d.id \in Nat /\ d.id <= writer.id  BY <3>1
    <3>3. \A j \in 1 .. n + 1 : stream'[j].id # d.id  BY <1>7, <3>1, <3>2
    <3>4. d.id \in 1 .. writer.id + 1  BY <3>1
    <3> QED  BY <3>3, <3>4, Zenon
  <2> QED  BY <2>1
<1>9. /\ \A q \in 1 .. Len(reader.queue) : reader.queue[q] \in 1 .. writer.id + 1
      /\ \A q \in 1 .. Len(reader.queue) : \A j \in 1 .. n + 1 : stream'[j].id # reader.queue[q]
  <2>1. ASSUME NEW q \in 1 .. Len(reader.queue)
        PROVE  /\ reader.queue[q] \in 1 .. writer.id + 1
               /\ \A j \in 1 .. n + 1 : stream'[j].id # reader.queue[q]
    <3>1. reader.queue[q] \in 1 .. writer.id /\ \A j \in 1 .. n : stream[j].id # reader.queue[q]
      BY DEF OneLane, n
    <3>2. reader.queue[q] \in Nat /\ reader.queue[q] <= writer.id  BY <3>1
    <3>3. \A j \in 1 .. n + 1 : stream'[j].id # reader.queue[q]  BY <1>7, <3>1, <3>2
    <3>4. reader.queue[q] \in 1 .. writer.id + 1  BY <3>1
    <3> QED  BY <3>3, <3>4, Zenon
  <2> QED  BY <2>1
<1>10. /\ \A k \in 0 .. Window - 1 : assoc.window.slots[k] <= writer.id + 1
       /\ \A k \in 0 .. Window - 1 : \A j \in 1 .. n + 1 : stream'[j].id # assoc.window.slots[k]
  <2>1. ASSUME NEW k \in 0 .. Window - 1
        PROVE  /\ assoc.window.slots[k] <= writer.id + 1
               /\ \A j \in 1 .. n + 1 : stream'[j].id # assoc.window.slots[k]
    <3>1. /\ assoc.window.slots[k] \in Nat /\ assoc.window.slots[k] <= writer.id
          /\ \A j \in 1 .. n : stream[j].id # assoc.window.slots[k]
      BY Elements DEF OneLane, n
    <3>2. \A j \in 1 .. n + 1 : stream'[j].id # assoc.window.slots[k]  BY <1>7, <3>1
    <3>3. assoc.window.slots[k] <= writer.id + 1  BY <3>1
    <3> QED  BY <3>2, <3>3, Zenon
  <2> QED  BY <2>1
<1> QED  BY <1>1, <1>5, <1>6, <1>8, <1>9, <1>10 DEF OneLane

\* A new record takes an ID above all that are on their way, in one lane.
LEMMA WriteKeeps ==
    ASSUME PathInv, NEW fast \in BOOLEAN, NEW ok \in BOOLEAN, writeRecord(fast, ok)
    PROVE  PathInv'
<1> DEFINE e == [id |-> writer.id + 1, close |-> FALSE]
           d == [key |-> writer.key, counter |-> writer.counter + 1, id |-> writer.id + 1]
<1>0. PathTypeOK /\ OneLane /\ PassedOnce /\ SealedOnce /\ FailsOnlyWhenOvertaken
  BY DEF PathInv
<1>a. writer \in Writers  BY <1>0 DEF PathTypeOK
<1>b. \/ writer' = [writer EXCEPT !.id = writer.id + 1]
      \/ writer' = [writer EXCEPT !.id = writer.id + 1, !.counter = writer.counter + 1]
  BY DEF writeRecord, send
<1>1. /\ writer.id \in Nat /\ writer.key \in Nat /\ writer.counter \in Nat
      /\ writer'.id = writer.id + 1 /\ writer'.key = writer.key
      /\ writer'.counter \in {writer.counter, writer.counter + 1}
      /\ writer' \in Writers
  <2>1. writer.id \in Nat /\ writer.key \in Nat /\ writer.counter \in Nat  BY <1>a DEF Writers
  <2>2. writer.id + 1 \in Nat /\ writer.counter + 1 \in Nat  BY <2>1
  <2> QED  BY <1>a, <1>b, <2>1, <2>2, Zenon DEF Writers
<1>2. UNCHANGED <<reader, assoc, got>>  BY DEF writeRecord
<1>3. \/ /\ network' = network
         /\ stream' = Append(stream, e)
      \/ /\ network' = network \cup {d}
         /\ stream' = stream
  BY DEF writeRecord, send
<1>4. \/ wrapped' = wrapped
      \/ /\ wrapped' = wrapped \cup {<<writer.key, writer.counter + 1, writer.id + 1>>}
         /\ writer' = [writer EXCEPT !.id = writer.id + 1, !.counter = writer.counter + 1]
  BY DEF writeRecord, send
<1>5. /\ stream \in Seq(Records) /\ e \in Records
      /\ network \subseteq Datagrams
      /\ d \in Datagrams
  BY <1>0, <1>1 DEF PathTypeOK, Records, Datagrams
<1>6. PathTypeOK'
  <2>1. stream' \in Seq(Records)  BY <1>3, <1>5, AppendAt
  <2>2. network' \subseteq Datagrams  BY <1>3, <1>5
  <2>3. wrapped' \subseteq Seals  BY <1>0, <1>1, <1>4 DEF PathTypeOK, Seals
  <2> QED  BY <1>0, <1>1, <1>2, <2>1, <2>2, <2>3 DEF PathTypeOK
<1>7. OneLane'
  <2>1. CASE network' = network /\ stream' = Append(stream, e)
    BY <1>0, <1>1, <1>2, <1>5, <2>1, StreamGrows
  <2>2. CASE network' = network \cup {d} /\ stream' = stream
    <3> QED  BY <1>0, <1>1, <1>2, <2>2, Elements DEF OneLane
  <2> QED  BY <1>3, <2>1, <2>2
<1>8. SealedOnce'
  <2>2. \/ wrapped' = wrapped
        \/ /\ wrapped' = wrapped \cup {<<writer.key, writer.counter + 1, writer.id + 1>>}
           /\ writer'.counter = writer.counter + 1
    BY <1>a, <1>4, Zenon DEF Writers
  <2>3. CASE wrapped' = wrapped  BY <1>0, <1>1, <2>3, Elements DEF SealedOnce
  <2>4. CASE /\ wrapped' = wrapped \cup {<<writer.key, writer.counter + 1, writer.id + 1>>}
             /\ writer'.counter = writer.counter + 1
    <3> DEFINE new == <<writer.key, writer.counter + 1, writer.id + 1>>
    <3>1. new[1] = writer.key /\ new[2] = writer.counter + 1  OBVIOUS
    <3> HIDE DEF new
    <3>2. \A a \in wrapped : a[1] \in Nat /\ a[2] \in Nat  BY <1>0, Elements
    <3>3. \A a \in wrapped : a[1] = new[1] => a[2] # new[2]  BY <1>0, <1>1, <3>1, <3>2 DEF SealedOnce
    <3>4. wrapped' = wrapped \cup {new}  BY <2>4 DEF new
    <3>5. \A a \in wrapped' : a[1] <= writer'.key /\ (a[1] = writer'.key => a[2] <= writer'.counter)
      BY <1>0, <1>1, <2>4, <3>1, <3>2, <3>4 DEF SealedOnce
    <3>6. \A a, b \in wrapped' : a[1] = b[1] /\ a[2] = b[2] => a = b
      BY <1>0, <3>3, <3>4 DEF SealedOnce
    <3> QED  BY <3>5, <3>6 DEF SealedOnce
  <2> QED  BY <2>2, <2>3, <2>4
<1> QED  BY <1>0, <1>2, <1>6, <1>7, <1>8, SameAssociation DEF PathInv

\* So does the close record.
LEMMA CloseKeeps ==
    ASSUME PathInv, CloseWriter
    PROVE  PathInv'
<1> DEFINE e == [id |-> writer.id + 1, close |-> TRUE]
<1>0. PathTypeOK /\ OneLane /\ PassedOnce /\ SealedOnce /\ FailsOnlyWhenOvertaken
  BY DEF PathInv
<1>1. /\ writer.id \in Nat /\ writer.key \in Nat /\ writer.counter \in Nat
      /\ writer'.id = writer.id + 1 /\ writer'.key = writer.key /\ writer'.counter = writer.counter
      /\ writer' \in Writers
      /\ stream' = Append(stream, e)
      /\ UNCHANGED <<network, reader, assoc, got, wrapped>>
  <2>1. writer \in Writers  BY <1>0 DEF PathTypeOK
  <2>2. /\ writer.id \in Nat /\ writer.key \in Nat /\ writer.counter \in Nat
        /\ writer.id + 1 \in Nat
    BY <2>1 DEF Writers
  <2>3. writer' = [writer EXCEPT !.id = writer.id + 1, !.closed = TRUE]  BY DEF CloseWriter
  <2>4. stream' = Append(stream, e) /\ UNCHANGED <<network, reader, assoc, got, wrapped>>
    BY DEF CloseWriter
  <2> QED  BY <2>1, <2>2, <2>3, <2>4, Zenon DEF Writers
<1>2. stream \in Seq(Records) /\ e \in Records
  BY <1>0, <1>1 DEF PathTypeOK, Records
<1>3. stream' \in Seq(Records)  BY <1>1, <1>2, AppendAt
<1>4. PathTypeOK'  BY <1>0, <1>1, <1>3 DEF PathTypeOK
<1>5. OneLane'  BY <1>0, <1>1, <1>2, StreamGrows
<1>6. SealedOnce'  BY <1>0, <1>1 DEF SealedOnce
<1> QED  BY <1>0, <1>1, <1>4, <1>5, <1>6, SameAssociation DEF PathInv

\* A rekey of the writer starts again at counter 0 under a key never used; one
\* of the reader forgets a window that no association relies on.
LEMMA RekeysKeep ==
    ASSUME PathInv, rekeyWriter \/ rekeyReader
    PROVE  PathInv'
<1>0. PathTypeOK /\ OneLane /\ PassedOnce /\ SealedOnce /\ FailsOnlyWhenOvertaken
  BY DEF PathInv
<1>1. CASE rekeyWriter
  <2>1. /\ writer.key \in Nat /\ writer'.id = writer.id /\ writer'.key = writer.key + 1
        /\ writer'.counter = 0
        /\ writer' \in Writers
        /\ UNCHANGED <<network, stream, reader, assoc, got, wrapped>>
    <3>1. writer \in Writers  BY <1>0 DEF PathTypeOK
    <3>2. writer.key \in Nat /\ writer.key + 1 \in Nat /\ 0 \in Nat  BY <3>1 DEF Writers
    <3>3. writer' = [writer EXCEPT !.key = writer.key + 1, !.counter = 0]  BY <1>1 DEF rekeyWriter
    <3>4. UNCHANGED <<network, stream, reader, assoc, got, wrapped>>  BY <1>1 DEF rekeyWriter
    <3> QED  BY <3>1, <3>2, <3>3, <3>4, Zenon DEF Writers
  <2>2. PathTypeOK'  BY <1>0, <2>1 DEF PathTypeOK
  <2>3. OneLane'  BY <1>0, <2>1 DEF OneLane
  <2>4. SealedOnce'
    <3> QED  BY <1>0, <2>1, Elements DEF SealedOnce
  <2> QED  BY <1>0, <2>1, <2>2, <2>3, <2>4, SameAssociation DEF PathInv
<1>2. CASE rekeyReader
  <2>1. /\ reader'.queue = reader.queue
        /\ reader' \in Readers
        /\ UNCHANGED <<writer, network, stream, assoc, got, wrapped>>
    <3>1. reader \in Readers  BY <1>0 DEF PathTypeOK
    <3>2. reader.key + 1 \in Nat  BY <3>1 DEF Readers
    <3>3. reader' = [reader EXCEPT !.key = reader.key + 1, !.window = EmptyWindow]
      BY <1>2 DEF rekeyReader
    <3>4. reader' \in Readers /\ reader'.queue = reader.queue
      BY <3>1, <3>2, <3>3, EmptyWindowTyped, Zenon DEF Readers
    <3> QED  BY <1>2, <3>4 DEF rekeyReader
  <2>2. PathTypeOK'  BY <1>0, <2>1 DEF PathTypeOK
  <2>3. OneLane'  BY <1>0, <2>1 DEF OneLane
  <2>4. SealedOnce'  BY <1>0, <2>1 DEF SealedOnce
  <2> QED  BY <1>0, <2>1, <2>2, <2>3, <2>4, SameAssociation DEF PathInv
<1> QED  BY <1>1, <1>2

\* A datagram the mux accepts, even again under another window, is queued.
LEMMA ReceiveKeeps ==
    ASSUME PathInv, NEW d \in network, receiveLoop(d)
    PROVE  PathInv'
<1>0. PathTypeOK /\ OneLane /\ PassedOnce /\ SealedOnce /\ FailsOnlyWhenOvertaken
  BY DEF PathInv
<1>1. /\ reader.window \in Windows /\ reader.queue \in Seq(Nat) /\ reader.key \in Nat
      /\ reader.open \in BOOLEAN /\ d.counter \in Nat /\ d.id \in Nat
  BY <1>0, Elements DEF PathTypeOK, Readers
<1>2. Accept(reader.window, d.counter) \in Windows  BY <1>1, AcceptWindow
<1>3. /\ Append(reader.queue, d.id) \in Seq(Nat)
      /\ Len(Append(reader.queue, d.id)) = Len(reader.queue) + 1 /\ Len(reader.queue) \in Nat
      /\ \A j \in 1 .. Len(reader.queue) + 1 :
            Append(reader.queue, d.id)[j] = IF j <= Len(reader.queue) THEN reader.queue[j] ELSE d.id
  BY <1>1, AppendAt
<1>4. /\ reader' = [reader EXCEPT !.window = Accept(reader.window, d.counter),
                                  !.queue = Queued(reader.queue, d.id)]
      /\ UNCHANGED <<writer, network, stream, assoc, got, wrapped>>
  BY DEF receiveLoop
<1>5. /\ reader'.queue = reader.queue \/ reader'.queue = Append(reader.queue, d.id)
      /\ reader' \in Readers
  BY <1>0, <1>1, <1>2, <1>3, <1>4 DEF PathTypeOK, Queued, Readers
<1>6. PathTypeOK'  BY <1>0, <1>4, <1>5 DEF PathTypeOK
<1>7. OneLane'
  <2>1. CASE reader'.queue = reader.queue  BY <1>0, <1>4, <2>1 DEF OneLane
  <2>2. CASE reader'.queue = Append(reader.queue, d.id)
    <3>1. \A q \in 1 .. Len(reader'.queue) :
             \/ reader'.queue[q] = d.id
             \/ \E p \in 1 .. Len(reader.queue) : reader'.queue[q] = reader.queue[p]
      BY <1>3, <2>2
    <3>2. /\ d.id \in 1 .. writer.id /\ \A j \in 1 .. Len(stream) : stream[j].id # d.id
          /\ \A p \in 1 .. Len(reader.queue) : reader.queue[p] \in 1 .. writer.id
          /\ \A p \in 1 .. Len(reader.queue) : \A j \in 1 .. Len(stream) :
                stream[j].id # reader.queue[p]
      BY <1>0, Zenon DEF OneLane
    <3>3. /\ \A q \in 1 .. Len(reader'.queue) : reader'.queue[q] \in 1 .. writer.id
          /\ \A q \in 1 .. Len(reader'.queue) : \A j \in 1 .. Len(stream) :
                stream[j].id # reader'.queue[q]
      BY <3>1, <3>2, Zenon
    <3> QED  BY <1>0, <1>4, <3>3 DEF OneLane
  <2> QED  BY <1>5, <2>1, <2>2
<1>8. SealedOnce'  BY <1>0, <1>4 DEF SealedOnce
<1> QED  BY <1>0, <1>4, <1>6, <1>7, <1>8, SameAssociation DEF PathInv

\* What the association's window becomes when it accepts record c.
LEMMA WindowTakes ==
    ASSUME PathTypeOK, OneLane, NEW c \in 1 .. writer.id, Accepts(assoc.window, c),
           NEW v, v = Accept(assoc.window, c)
    PROVE  /\ v \in Windows /\ v.highest \in Nat /\ v.highest >= assoc.window.highest
           /\ \A k \in 0 .. Window - 1 : v.slots[k] \in {c, assoc.window.slots[k]}
           /\ \A k \in 0 .. Window - 1 : v.slots[k] <= v.highest /\ v.slots[k] <= writer.id
           /\ ~Accepts(v, c)
           /\ \A i \in Ids : ~Accepts(assoc.window, i) => ~Accepts(v, i)
<1>1. writer.id \in Nat  BY DEF PathTypeOK, Writers
<1>2. c \in Nat /\ c <= writer.id  BY <1>1
<1>3. assoc.window \in Windows /\ assoc.window.highest \in Nat  BY Elements
<1>4. \A k \in 0 .. Window - 1 : assoc.window.slots[k] \in Nat  BY Elements
<1>5. /\ v \in Windows /\ v.highest >= assoc.window.highest /\ v.highest >= c
      /\ ~Accepts(v, c)
  BY <1>2, <1>3, AcceptWindow
<1>6. v.highest \in Nat  BY <1>5 DEF Windows
<1>7. \A k \in 0 .. Window - 1 : v.slots[k] \in {c, assoc.window.slots[k]}
  <2>1. v.slots = [assoc.window.slots EXCEPT ![c % Window] = c]  BY DEF Accept
  <2>2. assoc.window.slots \in [0 .. Window - 1 -> Nat]  BY <1>3 DEF Windows
  <2> QED  BY <2>1, <2>2
<1>8. \A k \in 0 .. Window - 1 :
         assoc.window.slots[k] <= assoc.window.highest /\ assoc.window.slots[k] <= writer.id
  BY DEF OneLane
<1>9. \A k \in 0 .. Window - 1 : v.slots[k] <= v.highest /\ v.slots[k] <= writer.id
  BY <1>1, <1>2, <1>3, <1>4, <1>5, <1>6, <1>7, <1>8
<1>10. ASSUME NEW i \in Ids, ~Accepts(assoc.window, i)
       PROVE  ~Accepts(v, i)
  <2>1. i \in Nat  BY PathBounds DEF Ids
  <2> QED  BY <1>2, <1>3, <1>8, <1>10, <2>1, StaysRefused
<1> QED  BY <1>5, <1>6, <1>7, <1>9, <1>10

\* A record the window accepts has not been anywhere beyond it.
LEMMA AcceptedIsNew ==
    ASSUME PassedOnce, NEW c \in Ids, Accepts(assoc.window, c)
    PROVE  /\ got[c] = 0 /\ assoc.pending # c
           /\ \A j \in 1 .. Len(assoc.records) : assoc.records[j] # c
  BY DEF PassedOnce, Passed

\* Taking the first record out of the endpoint's queue leaves the lanes apart.
LEMMA QueueShrinks ==
    ASSUME PathTypeOK, OneLane, reader.queue # << >>
    PROVE  /\ Tail(reader.queue) \in Seq(Nat)
           /\ Head(reader.queue) \in 1 .. writer.id
           /\ \A j \in 1 .. Len(stream) : stream[j].id # Head(reader.queue)
           /\ \A q \in 1 .. Len(Tail(reader.queue)) :
                 /\ Tail(reader.queue)[q] \in 1 .. writer.id
                 /\ \A j \in 1 .. Len(stream) : stream[j].id # Tail(reader.queue)[q]
<1> DEFINE t == Tail(reader.queue)
           n == Len(reader.queue)
<1>1. reader.queue \in Seq(Nat)  BY DEF PathTypeOK, Readers
<1>2. /\ t \in Seq(Nat) /\ Len(t) = n - 1 /\ n \in Nat \ {0} /\ Head(reader.queue) = reader.queue[1]
      /\ \A j \in 1 .. n - 1 : t[j] = reader.queue[j + 1]
  BY <1>1, TailAt
<1>3. \A q \in 1 .. n : /\ reader.queue[q] \in 1 .. writer.id
                        /\ \A j \in 1 .. Len(stream) : stream[j].id # reader.queue[q]
  BY DEF OneLane
<1> HIDE DEF t, n
<1>4. 1 \in 1 .. n  BY <1>2
<1>5. ASSUME NEW q \in 1 .. Len(t)
      PROVE  t[q] \in 1 .. writer.id /\ \A j \in 1 .. Len(stream) : stream[j].id # t[q]
  <2>1. q + 1 \in 1 .. n /\ t[q] = reader.queue[q + 1]  BY <1>2
  <2> QED  BY <1>3, <2>1
<1>6. /\ Head(reader.queue) \in 1 .. writer.id
      /\ \A j \in 1 .. Len(stream) : stream[j].id # Head(reader.queue)
  BY <1>2, <1>3, <1>4
<1>7. \A q \in 1 .. Len(t) : t[q] \in 1 .. writer.id /\ \A j \in 1 .. Len(stream) : stream[j].id # t[q]
  BY <1>5
<1> QED  BY <1>2, <1>6, <1>7 DEF t

\* The fast loop lets a new record pass, drops it for want of room, or drops
\* one the window knows.
LEMMA FastKeeps ==
    ASSUME PathInv, readFastLoop
    PROVE  PathInv'
<1> DEFINE c == Head(reader.queue)
           v == Accept(assoc.window, c)
<1>0. PathTypeOK /\ OneLane /\ PassedOnce /\ SealedOnce /\ FailsOnlyWhenOvertaken
  BY DEF PathInv
<1>1. /\ reader.queue # << >> /\ reader' = [reader EXCEPT !.queue = Tail(reader.queue)]
      /\ UNCHANGED <<writer, network, stream, got, wrapped>>
  BY DEF readFastLoop
<1>2. reader \in Readers /\ assoc \in Associations  BY <1>0 DEF PathTypeOK
<1>3. /\ Tail(reader.queue) \in Seq(Nat) /\ c \in 1 .. writer.id
      /\ \A j \in 1 .. Len(stream) : stream[j].id # c
      /\ \A q \in 1 .. Len(Tail(reader.queue)) :
            /\ Tail(reader.queue)[q] \in 1 .. writer.id
            /\ \A j \in 1 .. Len(stream) : stream[j].id # Tail(reader.queue)[q]
  BY <1>0, <1>1, QueueShrinks
<1>4. reader' \in Readers /\ reader'.queue = Tail(reader.queue)
  BY <1>1, <1>2, <1>3, Zenon DEF Readers
<1>5. CASE ~Accepts(assoc.window, c)
  <2>1. assoc' = assoc  BY <1>5 DEF readFastLoop, AcceptsRecord
  <2>2. PathTypeOK'  BY <1>0, <1>1, <1>4, <2>1 DEF PathTypeOK
  <2>3. OneLane'  BY <1>0, <1>1, <1>3, <1>4, <2>1 DEF OneLane
  <2>4. SealedOnce'  BY <1>0, <1>1 DEF SealedOnce
  <2> QED  BY <1>0, <1>1, <2>1, <2>2, <2>3, <2>4, SameAssociation DEF PathInv
<1>6. CASE Accepts(assoc.window, c)
  <2> DEFINE w == assoc'.window
  <2>1. \/ assoc' = [assoc EXCEPT !.window = v, !.records = Append(assoc.records, c)]
        \/ assoc' = [assoc EXCEPT !.window = v, !.records = assoc.records]
    BY <1>6 DEF readFastLoop, AcceptsRecord, AcceptRecord
  <2>2. /\ v \in Windows /\ v.highest \in Nat /\ v.highest >= assoc.window.highest
        /\ \A k \in 0 .. Window - 1 : v.slots[k] \in {c, assoc.window.slots[k]}
        /\ \A k \in 0 .. Window - 1 : v.slots[k] <= v.highest /\ v.slots[k] <= writer.id
        /\ ~Accepts(v, c)
        /\ \A i \in Ids : ~Accepts(assoc.window, i) => ~Accepts(v, i)
    BY <1>0, <1>3, <1>6, WindowTakes
  <2> HIDE DEF v
  <2>3. writer.id \in Nat /\ c \in Nat /\ c \in Int /\ assoc.records \in Seq(Int)
    BY <1>0, <1>2, <1>3 DEF PathTypeOK, Writers, Associations
  <2>4. /\ Append(assoc.records, c) \in Seq(Int) /\ Len(assoc.records) \in Nat
        /\ Len(Append(assoc.records, c)) = Len(assoc.records) + 1
        /\ \A j \in 1 .. Len(assoc.records) + 1 :
              Append(assoc.records, c)[j] = IF j <= Len(assoc.records) THEN assoc.records[j] ELSE c
    BY <2>3, AppendAt
  <2> HIDE DEF c
  <2>5. /\ assoc' \in Associations /\ assoc'.window = v /\ assoc'.pending = assoc.pending
        /\ assoc'.failed = assoc.failed
        /\ assoc'.records = Append(assoc.records, c) \/ assoc'.records = assoc.records
    BY <1>2, <2>1, <2>2, <2>3, <2>4, Zenon DEF Associations
  <2>6. PathTypeOK'  BY <1>0, <1>1, <1>4, <2>5 DEF PathTypeOK
  <2>7. OneLane'
    <3>1. \A k \in 0 .. Window - 1 : \A j \in 1 .. Len(stream) : stream[j].id # v.slots[k]
      BY <1>0, <1>3, <2>2 DEF OneLane
    <3> QED  BY <1>0, <1>1, <1>3, <1>4, <2>2, <2>5, <3>1 DEF OneLane
  <2>8. PassedOnce'
    <3>1. c \in Ids => /\ got[c] = 0 /\ assoc.pending # c
                       /\ \A j \in 1 .. Len(assoc.records) : assoc.records[j] # c
      BY <1>0, <1>6, AcceptedIsNew
    <3>2. CASE assoc'.records = assoc.records
      <4>1. \A i \in Ids : Passed(i)' => Passed(i)  BY <1>1, <2>5, <3>2 DEF Passed
      <4> QED  BY <1>0, <1>1, <2>2, <2>5, <3>2, <4>1 DEF PassedOnce
    <3>3. CASE assoc'.records = Append(assoc.records, c)
      <4>1. \A i \in Ids : Passed(i)' => Passed(i) \/ i = c  BY <1>1, <2>4, <2>5, <3>3 DEF Passed
      <4>2. \A i \in Ids : Passed(i)' => ~Accepts(v, i)
        BY <1>0, <2>2, <4>1 DEF PassedOnce
      <4>3. \A j \in 1 .. Len(assoc'.records) : assoc'.records[j] \in Ids =>
               got[assoc'.records[j]] = 0 /\ assoc.pending # assoc'.records[j]
        BY <1>0, <2>4, <3>1, <3>3 DEF PassedOnce
      <4>4. \A j, k \in 1 .. Len(assoc'.records) :
               j < k /\ assoc'.records[j] \in Ids => assoc'.records[j] # assoc'.records[k]
        BY <1>0, <2>4, <3>1, <3>3 DEF PassedOnce
      <4> QED  BY <1>0, <1>1, <2>5, <4>2, <4>3, <4>4 DEF PassedOnce
    <3> QED  BY <2>5, <3>2, <3>3
  <2>9. FailsOnlyWhenOvertaken'
    BY <1>0, <2>2, <2>5, Elements, PathBounds DEF FailsOnlyWhenOvertaken
  <2>10. SealedOnce'  BY <1>0, <1>1 DEF SealedOnce
  <2> QED  BY <2>6, <2>7, <2>8, <2>9, <2>10 DEF PathInv
<1> QED  BY <1>5, <1>6

\* The reliable loop takes a record off the stream.  The window can refuse it
\* only for being too old, since it remembers no record of this lane.
LEMMA ReadRecordKeeps ==
    ASSUME PathInv, readRecordLocked
    PROVE  PathInv'
<1> DEFINE r == Head(stream)
           c == r.id
           v == Accept(assoc.window, c)
           t == Tail(stream)
           n == Len(stream)
<1>0. PathTypeOK /\ OneLane /\ PassedOnce /\ SealedOnce /\ FailsOnlyWhenOvertaken
  BY DEF PathInv
<1>1. /\ stream # << >> /\ stream' = t
      /\ UNCHANGED <<writer, network, reader, got, wrapped>>
  BY DEF readRecordLocked
<1>2. stream \in Seq(Records) /\ assoc \in Associations /\ writer.id \in Nat
  BY <1>0 DEF PathTypeOK, Writers
<1>3. /\ t \in Seq(Records) /\ Len(t) = n - 1 /\ n \in Nat \ {0} /\ r = stream[1] /\ r \in Records
      /\ \A j \in 1 .. n - 1 : t[j] = stream[j + 1]
  BY <1>1, <1>2, TailAt
<1>4. /\ \A j \in 1 .. n : stream[j].id \in 1 .. writer.id
      /\ \A j, k \in 1 .. n : j < k => stream[j].id # stream[k].id
      /\ \A k \in 0 .. Window - 1 : \A j \in 1 .. n : stream[j].id # assoc.window.slots[k]
  BY <1>0 DEF OneLane
<1> HIDE DEF t, n
<1>5. 1 \in 1 .. n /\ \A j \in 1 .. n - 1 : j + 1 \in 1 .. n /\ 1 < j + 1  BY <1>3
<1>6. /\ c \in 1 .. writer.id
      /\ \A k \in 0 .. Window - 1 : c # assoc.window.slots[k]
      /\ \A j \in 1 .. Len(t) : t[j].id # c
  <2>1. c = stream[1].id  BY <1>3
  <2>2. \A j \in 1 .. Len(t) : t[j].id = stream[j + 1].id  BY <1>3
  <2> QED  BY <1>3, <1>4, <1>5, <2>1, <2>2
<1>7. c \in Nat /\ c >= 1  BY <1>2, <1>6
\* The lanes stay apart when the first record leaves the stream.
<1>8. /\ \A j \in 1 .. Len(t) : t[j].id \in 1 .. writer.id
      /\ \A j, k \in 1 .. Len(t) : j < k => t[j].id # t[k].id
  <2>1. \A j \in 1 .. Len(t) : t[j].id = stream[j + 1].id /\ j + 1 \in 1 .. n  BY <1>3, <1>5
  <2>2. ASSUME NEW j \in 1 .. Len(t), NEW k \in 1 .. Len(t), j < k
        PROVE  t[j].id # t[k].id
    <3>1. j + 1 < k + 1  BY <1>3, <2>2
    <3> QED  BY <1>4, <2>1, <3>1
  <2> QED  BY <1>4, <2>1, <2>2
<1>9. /\ \A d \in network : \A j \in 1 .. Len(t) : t[j].id # d.id
      /\ \A q \in 1 .. Len(reader.queue) : \A j \in 1 .. Len(t) : t[j].id # reader.queue[q]
      /\ \A k \in 0 .. Window - 1 : \A j \in 1 .. Len(t) : t[j].id # assoc.window.slots[k]
  <2>1. \A j \in 1 .. Len(t) : t[j].id = stream[j + 1].id /\ j + 1 \in 1 .. n  BY <1>3, <1>5
  <2>2. /\ \A d \in network : \A j \in 1 .. n : stream[j].id # d.id
        /\ \A q \in 1 .. Len(reader.queue) : \A j \in 1 .. n : stream[j].id # reader.queue[q]
    BY <1>0 DEF OneLane, n
  <2> QED  BY <1>4, <2>1, <2>2
<1>10. SealedOnce'  BY <1>0, <1>1 DEF SealedOnce
<1> HIDE DEF c, r
<1>11. CASE Accepts(assoc.window, c)
  <2>1. \/ assoc' = [assoc EXCEPT !.window = v, !.reliable = "put", !.pending = Closed]
        \/ assoc' = [assoc EXCEPT !.window = v, !.reliable = "put", !.pending = c]
    BY <1>11 DEF readRecordLocked, AcceptsRecord, AcceptRecord, c, r
  <2>2. /\ v \in Windows /\ v.highest \in Nat /\ v.highest >= assoc.window.highest
        /\ \A k \in 0 .. Window - 1 : v.slots[k] \in {c, assoc.window.slots[k]}
        /\ \A k \in 0 .. Window - 1 : v.slots[k] <= v.highest /\ v.slots[k] <= writer.id
        /\ ~Accepts(v, c)
        /\ \A i \in Ids : ~Accepts(assoc.window, i) => ~Accepts(v, i)
    BY <1>0, <1>6, <1>11, WindowTakes
  <2> HIDE DEF v
  <2>3. c \in Int /\ Closed \in Int /\ Closed \notin Ids
    BY <1>7, PathBounds DEF Closed, Ids
  <2>4. /\ assoc' \in Associations /\ assoc'.window = v /\ assoc'.records = assoc.records
        /\ assoc'.failed = assoc.failed /\ assoc'.pending \in {c, Closed}
    BY <1>2, <2>1, <2>2, <2>3, Zenon DEF Associations
  <2>5. PathTypeOK'  BY <1>0, <1>1, <1>3, <2>4 DEF PathTypeOK
  <2>6. OneLane'
    <3>1. \A k \in 0 .. Window - 1 : \A j \in 1 .. Len(t) : t[j].id # v.slots[k]
      BY <1>6, <1>9, <2>2
    <3> QED  BY <1>0, <1>1, <1>8, <1>9, <2>2, <2>4, <3>1 DEF OneLane
  <2>7. PassedOnce'
    <3>1. c \in Ids => got[c] = 0 /\ \A j \in 1 .. Len(assoc.records) : assoc.records[j] # c
      BY <1>0, <1>11, AcceptedIsNew
    <3>2. \A i \in Ids : Passed(i)' => Passed(i) \/ i = c
      BY <1>1, <2>3, <2>4 DEF Passed
    <3>3. \A i \in Ids : Passed(i)' => ~Accepts(v, i)
      BY <1>0, <2>2, <3>2 DEF PassedOnce
    <3>4. \A j \in 1 .. Len(assoc.records) : assoc.records[j] \in Ids =>
             got[assoc.records[j]] = 0 /\ assoc'.pending # assoc.records[j]
      BY <1>0, <2>3, <2>4, <3>1 DEF PassedOnce
    <3>5. assoc'.pending \in Ids => got[assoc'.pending] = 0
      BY <2>3, <2>4, <3>1
    <3> QED  BY <1>0, <1>1, <2>4, <3>3, <3>4, <3>5 DEF PassedOnce
  <2>8. FailsOnlyWhenOvertaken'
    BY <1>0, <2>2, <2>4, Elements, PathBounds DEF FailsOnlyWhenOvertaken
  <2> QED  BY <1>10, <2>5, <2>6, <2>7, <2>8 DEF PathInv
<1>12. CASE ~Accepts(assoc.window, c)
  <2>1. TooOld(assoc.window, c)
    <3>1. Window \in Nat \ {0}  BY PathBounds
    <3>2. c % Window \in 0 .. Window - 1  BY <1>7, <3>1
    <3>3. ~Remembered(assoc.window, c)  BY <1>6, <3>2 DEF Remembered
    <3> QED  BY <1>12, <3>3 DEF Accepts
  <2>2. assoc.window.highest > Window
    <3>1. assoc.window.highest \in Nat /\ Window \in Nat  BY <1>0, Elements, PathBounds
    <3> QED  BY <1>7, <2>1, <3>1 DEF TooOld
  <2>3. assoc' = [assoc EXCEPT !.pending = Broken, !.reliable = "put", !.failed = "stale"]
    BY <1>12, <2>1 DEF readRecordLocked, AcceptsRecord, c, r
  <2>4. Broken \in Int /\ Broken \notin Ids  BY PathBounds DEF Broken, Ids
  <2>5. /\ assoc' \in Associations /\ assoc'.window = assoc.window
        /\ assoc'.records = assoc.records /\ assoc'.failed = "stale" /\ assoc'.pending = Broken
    BY <1>2, <2>3, <2>4, Zenon DEF Associations
  <2>6. PathTypeOK'  BY <1>0, <1>1, <1>3, <2>5 DEF PathTypeOK
  <2>7. OneLane'  BY <1>0, <1>1, <1>8, <1>9, <2>5 DEF OneLane
  <2>8. PassedOnce'
    <3>1. \A i \in Ids : Passed(i)' => Passed(i)  BY <1>1, <2>4, <2>5 DEF Passed
    <3> QED  BY <1>0, <1>1, <2>4, <2>5, <3>1 DEF PassedOnce
  <2>9. FailsOnlyWhenOvertaken'  BY <2>2, <2>5 DEF FailsOnlyWhenOvertaken
  <2> QED  BY <1>10, <2>6, <2>7, <2>8, <2>9 DEF PathInv
<1> QED  BY <1>11, <1>12

\* The reliable loop's record moves from its hand to the queue, or is dropped
\* with the association.
LEMMA ReliableKeeps ==
    ASSUME PathInv, readReliableLoop
    PROVE  PathInv'
<1> DEFINE p == assoc.pending
           s == assoc.records
<1>0. PathTypeOK /\ OneLane /\ PassedOnce /\ SealedOnce /\ FailsOnlyWhenOvertaken
  BY DEF PathInv
<1>1. UNCHANGED <<writer, network, stream, reader, got, wrapped>>  BY DEF readReliableLoop
<1>2. assoc \in Associations  BY <1>0 DEF PathTypeOK
<1>3. p \in Int /\ s \in Seq(Int)  BY <1>2 DEF Associations
<1>4. /\ Append(s, p) \in Seq(Int) /\ Len(Append(s, p)) = Len(s) + 1 /\ Len(s) \in Nat
      /\ \A j \in 1 .. Len(s) + 1 : Append(s, p)[j] = IF j <= Len(s) THEN s[j] ELSE p
  BY <1>3, AppendAt
<1>5. NoRecord \in Int /\ NoRecord \notin Ids  BY PathBounds DEF NoRecord, Ids
<1>6. \/ \E x \in {"read", "done"} :
           assoc' = [assoc EXCEPT !.records = Append(s, p), !.pending = NoRecord, !.reliable = x]
      \/ assoc' = [assoc EXCEPT !.pending = NoRecord, !.reliable = "done"]
  BY DEF readReliableLoop
<1> HIDE DEF p, s
<1>7. /\ assoc' \in Associations /\ assoc'.window = assoc.window /\ assoc'.failed = assoc.failed
      /\ assoc'.pending = NoRecord
      /\ assoc'.records = Append(s, p) \/ assoc'.records = s
  <2>1. CASE assoc' = [assoc EXCEPT !.pending = NoRecord, !.reliable = "done"]
    BY <1>2, <1>5, <2>1, Zenon DEF Associations, s
  <2>2. ASSUME NEW x \in {"read", "done"},
               assoc' = [assoc EXCEPT !.records = Append(s, p), !.pending = NoRecord, !.reliable = x]
        PROVE  /\ assoc' \in Associations /\ assoc'.window = assoc.window
               /\ assoc'.failed = assoc.failed /\ assoc'.pending = NoRecord
               /\ assoc'.records = Append(s, p)
    BY <1>2, <1>4, <1>5, <2>2, Zenon DEF Associations
  <2> QED  BY <1>6, <2>1, <2>2
<1>8. PathTypeOK'  BY <1>0, <1>1, <1>7 DEF PathTypeOK
<1>9. OneLane'  BY <1>0, <1>1, <1>7 DEF OneLane
<1>10. SealedOnce'  BY <1>0, <1>1 DEF SealedOnce
<1>11. FailsOnlyWhenOvertaken'  BY <1>0, <1>7 DEF FailsOnlyWhenOvertaken
<1>12. PassedOnce'
  <2>1. ASSUME NEW i \in Ids, Passed(i)'  PROVE Passed(i)
    <3>1. got[i] # 0 \/ (\E j \in 1 .. Len(assoc'.records) : assoc'.records[j] = i)
      BY <1>1, <1>5, <1>7, <2>1 DEF Passed
    <3>2. ASSUME NEW j \in 1 .. Len(Append(s, p)), Append(s, p)[j] = i
          PROVE  p = i \/ \E k \in 1 .. Len(s) : s[k] = i
      BY <1>4, <3>2
    <3>3. got[i] # 0 \/ p = i \/ \E k \in 1 .. Len(s) : s[k] = i
      BY <1>7, <3>1, <3>2
    <3> QED  BY <3>3 DEF Passed, p, s
  <2>2. \A i \in Ids : Passed(i)' => ~Accepts(assoc.window, i)  BY <1>0, <2>1 DEF PassedOnce
  <2>3. /\ p \in Ids => got[p] = 0
        /\ \A j \in 1 .. Len(s) : s[j] \in Ids => got[s[j]] = 0 /\ p # s[j]
        /\ \A j, k \in 1 .. Len(s) : j < k /\ s[j] \in Ids => s[j] # s[k]
    BY <1>0 DEF PassedOnce, p, s
  <2>4. CASE assoc'.records = s
    BY <1>0, <1>1, <1>5, <1>7, <2>2, <2>3, <2>4 DEF PassedOnce
  <2>5. CASE assoc'.records = Append(s, p)
    <3>1. \A j \in 1 .. Len(s) + 1 : Append(s, p)[j] \in Ids => got[Append(s, p)[j]] = 0
      BY <1>4, <2>3
    <3>2. \A j, k \in 1 .. Len(s) + 1 : j < k /\ Append(s, p)[j] \in Ids
             => Append(s, p)[j] # Append(s, p)[k]
      BY <1>4, <2>3
    <3> QED  BY <1>0, <1>1, <1>4, <1>5, <1>7, <2>2, <2>5, <3>1, <3>2 DEF PassedOnce
  <2> QED  BY <1>7, <2>4, <2>5
<1> QED  BY <1>8, <1>9, <1>10, <1>11, <1>12 DEF PathInv

\* ReadDatagram hands the first record of the queue to its caller.
LEMMA ReadDatagramKeeps ==
    ASSUME PathInv, ReadDatagram
    PROVE  PathInv'
<1> DEFINE s == assoc.records
           r == Head(s)
           t == Tail(s)
<1>0. PathTypeOK /\ OneLane /\ PassedOnce /\ SealedOnce /\ FailsOnlyWhenOvertaken
  BY DEF PathInv
<1>1. s # << >> /\ UNCHANGED <<writer, network, stream, wrapped>>  BY DEF ReadDatagram
<1>2. assoc \in Associations /\ reader \in Readers /\ got \in [Ids -> Nat]  BY <1>0 DEF PathTypeOK
<1>3. s \in Seq(Int)  BY <1>2 DEF Associations
<1>4. /\ t \in Seq(Int) /\ Len(t) = Len(s) - 1 /\ Len(s) \in Nat \ {0} /\ r = s[1]
      /\ \A j \in 1 .. Len(s) - 1 : t[j] = s[j + 1]
  BY <1>1, <1>3, TailAt
<1>5. \/ /\ r \in Ids /\ got' = [got EXCEPT ![r] = got[r] + 1] /\ reader' = reader
         /\ assoc' = [assoc EXCEPT !.records = t]
      \/ /\ r \notin Ids /\ got' = got
         /\ reader' = [reader EXCEPT !.open = FALSE, !.queue = << >>]
         /\ assoc' = [assoc EXCEPT !.records = t, !.aborted = TRUE]
  BY DEF ReadDatagram, CloseEndpoint
<1>6. /\ \A i \in Ids : Passed(i) => ~Accepts(assoc.window, i)
      /\ \A i \in Ids : got[i] <= 1
      /\ assoc.pending \in Ids => got[assoc.pending] = 0
      /\ \A j \in 1 .. Len(s) : s[j] \in Ids => got[s[j]] = 0 /\ assoc.pending # s[j]
      /\ \A j, k \in 1 .. Len(s) : j < k /\ s[j] \in Ids => s[j] # s[k]
  BY <1>0 DEF PassedOnce
<1>7. r \in Ids => Passed(r)  BY <1>4 DEF Passed
<1> HIDE DEF s, r, t
<1>8. /\ assoc' \in Associations /\ assoc'.window = assoc.window /\ assoc'.failed = assoc.failed
      /\ assoc'.pending = assoc.pending /\ assoc'.records = t
  BY <1>2, <1>4, <1>5, Zenon DEF Associations
<1>9. reader' \in Readers /\ (reader'.queue = reader.queue \/ reader'.queue = << >>)
  <2>1. << >> \in Seq(Nat)  OBVIOUS
  <2> QED  BY <1>2, <1>5, <2>1, Zenon DEF Readers
<1>10. got' \in [Ids -> Nat]  BY <1>2, <1>5
<1>11. PathTypeOK'  BY <1>0, <1>1, <1>8, <1>9, <1>10 DEF PathTypeOK
<1>12. OneLane'
  <2>1. CASE reader'.queue = reader.queue  BY <1>0, <1>1, <1>8, <2>1 DEF OneLane
  <2>2. CASE reader'.queue = << >>  BY <1>0, <1>1, <1>8, <2>2 DEF OneLane
  <2> QED  BY <1>9, <2>1, <2>2
<1>13. SealedOnce'  BY <1>0, <1>1 DEF SealedOnce
<1>14. FailsOnlyWhenOvertaken'  BY <1>0, <1>8 DEF FailsOnlyWhenOvertaken
<1>15. PassedOnce'
  <2>1. 1 \in 1 .. Len(s) /\ \A j \in 1 .. Len(t) : j + 1 \in 1 .. Len(s) /\ 1 < j + 1 /\ t[j] = s[j + 1]
    BY <1>4
  <2>2. r \in Ids => /\ got[r] = 0 /\ assoc.pending # r
                     /\ \A j \in 1 .. Len(t) : t[j] # r
    BY <1>4, <1>6, <2>1
  <2>3. \A i \in Ids : got'[i] = got[i] \/ (i = r /\ got'[i] = 1)
    BY <1>2, <1>5, <2>2
  <2>4. \A i \in Ids : Passed(i)' => ~Accepts(assoc.window, i)
    <3>1. ASSUME NEW i \in Ids, Passed(i)'
          PROVE  Passed(i)
      <4>1. CASE got'[i] # 0
        BY <1>7, <2>3, <4>1 DEF Passed
      <4>2. CASE assoc'.pending = i  BY <1>8, <4>2 DEF Passed
      <4>3. CASE \E j \in 1 .. Len(assoc'.records) : assoc'.records[j] = i
        BY <1>8, <2>1, <4>3 DEF Passed, s
      <4> QED  BY <3>1, <4>1, <4>2, <4>3 DEF Passed
    <3> QED  BY <1>6, <3>1
  <2>5. \A i \in Ids : got'[i] <= 1  BY <1>6, <2>3
  <2>6. assoc.pending \in Ids => got'[assoc.pending] = 0  BY <1>6, <2>2, <2>3
  <2>7. \A j \in 1 .. Len(t) : t[j] \in Ids => got'[t[j]] = 0 /\ assoc.pending # t[j]
    <3>1. ASSUME NEW j \in 1 .. Len(t), t[j] \in Ids
          PROVE  got'[t[j]] = 0 /\ assoc.pending # t[j]
      <4>1. got[t[j]] = 0 /\ assoc.pending # t[j]  BY <1>6, <2>1, <3>1
      <4>2. r \in Ids => t[j] # r  BY <2>2
      <4>3. t[j] = r => r \in Ids  BY <3>1
      <4> QED  BY <2>3, <3>1, <4>1, <4>2, <4>3
    <3> QED  BY <3>1
  <2>8. \A j, k \in 1 .. Len(t) : j < k /\ t[j] \in Ids => t[j] # t[k]
    <3>1. ASSUME NEW j \in 1 .. Len(t), NEW k \in 1 .. Len(t), j < k, t[j] \in Ids
          PROVE  t[j] # t[k]
      <4>1. j + 1 < k + 1  BY <1>4, <3>1
      <4> QED  BY <1>6, <2>1, <3>1, <4>1
    <3> QED  BY <3>1
  <2> QED  BY <1>8, <2>4, <2>5, <2>6, <2>7, <2>8 DEF PassedOnce
<1> QED  BY <1>11, <1>12, <1>13, <1>14, <1>15 DEF PathInv

\* Aborting the association empties the endpoint and touches no window.
LEMMA AbortKeeps ==
    ASSUME PathInv, AbortAssociation
    PROVE  PathInv'
<1>0. PathTypeOK /\ OneLane /\ PassedOnce /\ SealedOnce /\ FailsOnlyWhenOvertaken
  BY DEF PathInv
<1>1. /\ assoc' = [assoc EXCEPT !.aborted = TRUE]
      /\ reader' = [reader EXCEPT !.open = FALSE, !.queue = << >>]
      /\ UNCHANGED <<writer, network, stream, got, wrapped>>
  BY DEF AbortAssociation, CloseEndpoint
<1>2. assoc \in Associations /\ reader \in Readers  BY <1>0 DEF PathTypeOK
<1>3. /\ assoc' \in Associations /\ assoc'.window = assoc.window /\ assoc'.failed = assoc.failed
      /\ assoc'.pending = assoc.pending /\ assoc'.records = assoc.records
  BY <1>1, <1>2, Zenon DEF Associations
<1>4. reader' \in Readers /\ reader'.queue = << >>
  <2>1. << >> \in Seq(Nat)  OBVIOUS
  <2> QED  BY <1>1, <1>2, <2>1, Zenon DEF Readers
<1>5. PathTypeOK'  BY <1>0, <1>1, <1>3, <1>4 DEF PathTypeOK
<1>6. OneLane'  BY <1>0, <1>1, <1>3, <1>4 DEF OneLane
<1>7. SealedOnce'  BY <1>0, <1>1 DEF SealedOnce
<1>8. FailsOnlyWhenOvertaken'  BY <1>0, <1>3 DEF FailsOnlyWhenOvertaken
<1>9. PassedOnce'
  <2>1. \A i \in Ids : Passed(i)' => Passed(i)  BY <1>1, <1>3 DEF Passed
  <2> QED  BY <1>0, <1>1, <1>3, <2>1 DEF PassedOnce
<1> QED  BY <1>5, <1>6, <1>7, <1>8, <1>9 DEF PathInv

\* Every step of the path preserves the invariant.
LEMMA PathStep == PathInv /\ [PathNext]_pathVars => PathInv'
<1> SUFFICES ASSUME PathInv, [PathNext]_pathVars PROVE PathInv'  OBVIOUS
<1>1. CASE UNCHANGED pathVars
  BY <1>1 DEF pathVars, PathInv, PathTypeOK, OneLane, PassedOnce, Passed, SealedOnce,
     FailsOnlyWhenOvertaken, Ids, Accepts, TooOld, Remembered
<1>2. CASE PathNext
  BY <1>2, WriteKeeps, CloseKeeps, RekeysKeep, ReceiveKeeps, FastKeeps, ReadRecordKeeps,
     ReliableKeeps, ReadDatagramKeeps, AbortKeeps DEF PathNext
<1> QED  BY <1>1, <1>2

\* Whatever the sizes of the windows and queues, and however often the network
\* repeats a datagram and the sides rekey: DatagramMux and UDPAssociation deliver
\* a record at most once, no (key, counter) pair seals two records, and
\* readRecordLocked loses the association only to a record that a window of
\* newer ones has overtaken.
THEOREM DatagramsDeliveredOnce == PathSpec => []DatagramsAreSound
<1>1. PathInv => DatagramsAreSound
  BY DEF PathInv, PassedOnce, SealedOnce, DatagramsAreSound, DeliveredOnce
<1> QED  BY PathInitInv, PathStep, <1>1, PTL DEF PathSpec

-----------------------------------------------------------------------------
(* The race for a carrier.  RaceInv is the inductive invariant.            *)

\* The shapes of what a race holds.
DialStages == {"session", "stream", "peer", "open", "websocket"}
Attempts   == [Carriers -> {"idle", "delayed", "authenticating", "sent"} \cup DialStages]
Dead       == {"none", "closed"}
Holdings   == [Carriers -> {"none", "partial", "open", "session", "closed"}]
Outcomes   == [kind : Carriers, ok : BOOLEAN]
Calls      == [phase : {"idle", "racing", "returned", "failed"}, order : Seq(Carriers),
               outcomes : Seq(Outcomes), collected : Nat,
               winner : Carriers \cup {"none"}, cancelled : BOOLEAN]
Preferences == [kind : Carriers \cup {"none"}, recorded : Nat]

\* How many goroutines of a race have started, and how many have reported.
Num(b) == IF b THEN 1 ELSE 0
Started(a) == Num(a["http3"] # "idle") + Num(a["webrtc"] # "idle") + Num(a["https"] # "idle")
Reports(a) == Num(a["http3"] = "sent") + Num(a["webrtc"] = "sent") + Num(a["https"] = "sent")

\* Carrier k's outcome is in the channel.
InChannel(w, k) == \E i \in 1 .. Len(w) : w[i].kind = k

\* An attempt is at a stage of its own dial, and holds nothing before it.
Dials(a, c) ==
    \A k \in Carriers :
        /\ a[k] \in {"idle", "delayed", "authenticating", "sent"} \cup Range(DialSteps[k])
        /\ a[k] \in {"idle", "delayed"} => c[k] = "none"

\* The channel has one outcome of a carrier that has reported, true of what it
\* holds.
Channel(w, a, c) ==
    /\ \A i \in 1 .. Len(w) :
         a[w[i].kind] = "sent" /\ (IF w[i].ok THEN c[w[i].kind] = "session" ELSE c[w[i].kind] \in Dead)
    /\ \A i, j \in 1 .. Len(w) : w[i].kind = w[j].kind => i = j

\* Of the carriers whose outcome was taken only the winner's is open.
Taken(q, a, c) ==
    \A k \in Carriers :
        /\ q.winner = k => a[k] = "sent" /\ ~InChannel(q.outcomes, k)
        /\ a[k] = "sent" /\ ~InChannel(q.outcomes, k) =>
             IF q.winner = k THEN c[k] = "session" ELSE c[k] \in Dead

\* The caller waits for as many outcomes as there are goroutines.
Counts(q, a) ==
    /\ q.collected + Len(q.outcomes) = Reports(a)
    /\ IF q.phase = "idle" THEN \A k \in Carriers : a[k] = "idle" ELSE Len(q.order) = Started(a)
    /\ q.phase \in {"returned", "failed"} => q.collected = Len(q.order)
    /\ q.phase = "returned" => q.winner # "none"
    /\ q.phase = "failed" => q.winner = "none"

\* The goroutines are those of the order, which HTTPS does not lead.
Ordered(q, a) ==
    q.phase # "idle" =>
        /\ http3Configured => Head(q.order) # "https"
        /\ {"webrtc", "https"} \subseteq Range(q.order)
        /\ http3Configured <=> "http3" \in Range(q.order)
        /\ \A k \in Carriers : a[k] # "idle" <=> k \in Range(q.order)

RaceGood(q, a, c) ==
    /\ q \in Calls /\ a \in Attempts /\ c \in Holdings
    /\ Dials(a, c) /\ Channel(q.outcomes, a, c) /\ Taken(q, a, c) /\ Counts(q, a) /\ Ordered(q, a)

\* HTTP/3 is preferred only where it is configured.
Prefers == preference \in Preferences /\ (preference.kind = "http3" => http3Configured)

RaceInv ==
    /\ http3Configured \in BOOLEAN /\ raceClock \in Nat /\ Prefers
    /\ race = [r \in Races |-> race[r]] /\ attempt = [r \in Races |-> attempt[r]]
    /\ carrier = [r \in Races |-> carrier[r]]
    /\ \A r \in Races : RaceGood(race[r], attempt[r], carrier[r])

\* The steps of each dial.
LEMMA DialIs ==
    \A k \in Carriers : /\ Range(DialSteps[k]) \subseteq DialStages
                        /\ DialSteps[k][1] \in Range(DialSteps[k])
                        /\ LastStep(k) \in Range(DialSteps[k])
<1>1. Range(DialSteps["http3"]) = {"session", "stream"} /\ DialSteps["http3"][1] = "session"
      /\ LastStep("http3") = "stream"
  BY DEF Range, DialSteps, LastStep
<1>2. Range(DialSteps["webrtc"]) = {"peer", "open"} /\ DialSteps["webrtc"][1] = "peer"
      /\ LastStep("webrtc") = "open"
  BY DEF Range, DialSteps, LastStep
<1>3. Range(DialSteps["https"]) = {"websocket"} /\ DialSteps["https"][1] = "websocket"
      /\ LastStep("https") = "websocket"
  BY DEF Range, DialSteps, LastStep
<1>. QED
  BY <1>1, <1>2, <1>3 DEF Carriers, DialStages

\* A race begins with nothing.
LEMMA RaceStarts == RaceInit => RaceInv
<1> SUFFICES ASSUME RaceInit PROVE RaceInv
  OBVIOUS
<1>1. Prefers /\ http3Configured \in BOOLEAN /\ raceClock \in Nat
  BY DEF RaceInit, Prefers, Preferences, NoPreference
<1>2. NoRace \in Calls /\ NoRace.phase = "idle" /\ NoRace.winner = "none" /\ NoRace.collected = 0
      /\ NoRace.outcomes = <<>> /\ Len(NoRace.outcomes) = 0
  BY DEF NoRace, Calls
<1>3. ASSUME NEW r \in Races PROVE RaceGood(race[r], attempt[r], carrier[r])
  <2>1. race[r] = NoRace /\ attempt[r] = [k \in Carriers |-> "idle"] /\ carrier[r] = [k \in Carriers |-> "none"]
    BY DEF RaceInit
  <2>2. attempt[r] \in Attempts /\ carrier[r] \in Holdings /\ \A k \in Carriers : attempt[r][k] = "idle" /\ carrier[r][k] = "none"
    BY <2>1 DEF Attempts, Holdings
  <2>3. Reports(attempt[r]) = 0
    BY <2>2 DEF Reports, Num, Carriers
  <2>4. Dials(attempt[r], carrier[r]) /\ Channel(race[r].outcomes, attempt[r], carrier[r])
    BY <1>2, <2>1, <2>2 DEF Dials, Channel
  <2>5. Taken(race[r], attempt[r], carrier[r]) /\ Ordered(race[r], attempt[r])
    BY <1>2, <2>1, <2>2 DEF Taken, Ordered, Carriers
  <2>6. Counts(race[r], attempt[r])
    BY <1>2, <2>1, <2>2, <2>3 DEF Counts
  <2>. QED
    BY <1>2, <2>1, <2>2, <2>4, <2>5, <2>6 DEF RaceGood
<1>. QED
  BY <1>1, <1>3 DEF RaceInv, RaceInit

\* A step of one call.
LEMMA OneRace ==
    ASSUME RaceInv, NEW r \in Races, NEW q, NEW a, NEW c, RaceGood(q, a, c),
           race' = [race EXCEPT ![r] = q], attempt' = [attempt EXCEPT ![r] = a],
           carrier' = [carrier EXCEPT ![r] = c], Prefers', UNCHANGED <<http3Configured, raceClock>>
    PROVE  RaceInv'
<1>1. /\ race'[r] = q /\ attempt'[r] = a /\ carrier'[r] = c
      /\ \A s \in Races : s # r => race'[s] = race[s] /\ attempt'[s] = attempt[s] /\ carrier'[s] = carrier[s]
      /\ race' = [s \in Races |-> race'[s]] /\ attempt' = [s \in Races |-> attempt'[s]]
      /\ carrier' = [s \in Races |-> carrier'[s]]
  BY DEF RaceInv
<1>2. \A s \in Races : RaceGood(race'[s], attempt'[s], carrier'[s])
  BY <1>1 DEF RaceInv
<1>3. \A s \in Races : RaceGood(race[s], attempt[s], carrier[s])'
  BY <1>2 DEF RaceGood, Ordered
<1>. QED
  BY <1>1, <1>3 DEF RaceInv

\* A goroutine sends its outcome, true of what it leaves behind.
LEMMA ReportKeeps ==
    ASSUME NEW q, NEW a, NEW c, RaceGood(q, a, c), NEW k \in Carriers, a[k] \notin {"idle", "sent"},
           NEW ok \in BOOLEAN, NEW v, IF ok THEN v = "session" ELSE v \in Dead
    PROVE  RaceGood([q EXCEPT !.outcomes = Append(@, [kind |-> k, ok |-> ok])],
                    [a EXCEPT ![k] = "sent"], [c EXCEPT ![k] = v])
<1> DEFINE o  == [kind |-> k, ok |-> ok]
           w  == Append(q.outcomes, o)
           q2 == [q EXCEPT !.outcomes = w]
           a2 == [a EXCEPT ![k] = "sent"]
           c2 == [c EXCEPT ![k] = v]
<1>0. q \in Calls /\ a \in Attempts /\ c \in Holdings /\ Dials(a, c) /\ Channel(q.outcomes, a, c)
      /\ Taken(q, a, c) /\ Counts(q, a) /\ Ordered(q, a)
  BY DEF RaceGood
<1>1. o \in Outcomes /\ o.kind = k /\ o.ok = ok /\ q.outcomes \in Seq(Outcomes) /\ Len(q.outcomes) \in Nat
  BY <1>0 DEF Outcomes, Calls
<1>2. /\ w \in Seq(Outcomes) /\ Len(w) = Len(q.outcomes) + 1 /\ w[Len(w)] = o
      /\ \A i \in 1 .. Len(q.outcomes) : w[i] = q.outcomes[i] /\ q.outcomes[i].kind \in Carriers
  <2> HIDE DEF o
  <2>1. w \in Seq(Outcomes) /\ Len(w) = Len(q.outcomes) + 1
    BY <1>1
  <2>2. w[Len(w)] = o /\ \A i \in 1 .. Len(q.outcomes) : w[i] = q.outcomes[i]
    BY <1>1
  <2>3. \A i \in 1 .. Len(q.outcomes) : q.outcomes[i] \in Outcomes
    BY <1>1
  <2> HIDE DEF w
  <2>. QED
    BY <2>1, <2>2, <2>3 DEF Outcomes
<1>3. /\ q2 \in Calls /\ q2.outcomes = w /\ q2.winner = q.winner /\ q2.phase = q.phase
      /\ q2.collected = q.collected /\ q2.order = q.order
  BY <1>0, <1>2 DEF Calls
<1>4. a2 \in Attempts /\ a2[k] = "sent" /\ \A l \in Carriers : l # k => a2[l] = a[l]
  BY <1>0 DEF Attempts
<1>5. c2 \in Holdings /\ c2[k] = v /\ \A l \in Carriers : l # k => c2[l] = c[l]
  BY <1>0 DEF Holdings, Dead
<1> HIDE DEF o, w, q2, a2, c2
<1>6. Dials(a2, c2)
  BY <1>0, <1>4, <1>5 DEF Dials
<1>7. \A i \in 1 .. Len(q.outcomes) : q.outcomes[i].kind # k
  BY <1>0 DEF Channel
<1>8. Channel(w, a2, c2)
  <2>1. ASSUME NEW i \in 1 .. Len(w)
        PROVE  a2[w[i].kind] = "sent"
               /\ (IF w[i].ok THEN c2[w[i].kind] = "session" ELSE c2[w[i].kind] \in Dead)
    <3>1. CASE i = Len(w)
      BY <1>1, <1>2, <1>4, <1>5, <3>1
    <3>2. CASE i \in 1 .. Len(q.outcomes)
      BY <1>0, <1>2, <1>4, <1>5, <1>7, <3>2 DEF Channel
    <3>. QED
      BY <1>1, <1>2, <3>1, <3>2
  <2>2. ASSUME NEW i \in 1 .. Len(w), NEW j \in 1 .. Len(w), w[i].kind = w[j].kind
        PROVE  i = j
    <3>1. CASE i \in 1 .. Len(q.outcomes) /\ j \in 1 .. Len(q.outcomes)
      BY <1>0, <1>2, <2>2, <3>1 DEF Channel
    <3>2. CASE i = Len(w) \/ j = Len(w)
      <4>1. \A l \in 1 .. Len(w) : w[l].kind = k => l = Len(w)
        BY <1>1, <1>2, <1>7
      <4>. QED
        BY <1>1, <1>2, <2>2, <3>2, <4>1
    <3>. QED
      BY <1>1, <1>2, <3>1, <3>2
  <2>. QED
    BY <2>1, <2>2 DEF Channel
<1>9. InChannel(w, k) /\ \A l \in Carriers : l # k => (InChannel(w, l) <=> InChannel(q.outcomes, l))
  BY <1>1, <1>2 DEF InChannel
<1>10. Taken(q2, a2, c2)
  BY <1>0, <1>3, <1>4, <1>5, <1>9 DEF Taken
<1>11. Reports(a) \in Nat /\ Reports(a2) = Reports(a) + 1 /\ Started(a2) = Started(a)
  BY <1>4 DEF Reports, Started, Num, Carriers
<1>12. Counts(q2, a2)
  <2>1. q.collected \in Nat /\ Len(q.outcomes) \in Nat /\ q.phase # "idle"
    BY <1>0, <1>1 DEF Calls, Counts
  <2>2. q.collected + Len(q.outcomes) = Reports(a)
    BY <1>0 DEF Counts
  <2>3. q2.collected + Len(q2.outcomes) = Reports(a2)
    BY <1>2, <1>3, <1>11, <2>1, <2>2
  <2>. QED
    BY <1>0, <1>3, <1>11, <2>1, <2>3 DEF Counts
<1>13. Ordered(q2, a2)
  BY <1>0, <1>3, <1>4 DEF Ordered
<1>14. RaceGood(q2, a2, c2)
  BY <1>3, <1>4, <1>5, <1>6, <1>8, <1>10, <1>12, <1>13 DEF RaceGood
<1>. QED
  BY <1>14 DEF o, w, q2, a2, c2

\* The caller takes the first outcome in the channel: the first success wins,
\* and what anything else holds is closed.
LEMMA CollectKeeps ==
    ASSUME NEW q, NEW a, NEW c, RaceGood(q, a, c), q.phase = "racing", q.outcomes # <<>>,
           NEW o, o = Head(q.outcomes), NEW wins, wins = (o.ok /\ q.winner = "none"),
           NEW d, d = IF wins THEN c ELSE [c EXCEPT ![o.kind] = closeAuthenticatedOutcome(@, o.ok)]
    PROVE  RaceGood([q EXCEPT !.outcomes = Tail(@), !.collected = @ + 1,
                              !.winner = IF wins THEN o.kind ELSE @,
                              !.cancelled = @ \/ wins], a, d)
<1> DEFINE w  == Tail(q.outcomes)
           q2 == [q EXCEPT !.outcomes = Tail(@), !.collected = @ + 1,
                           !.winner = IF wins THEN o.kind ELSE @, !.cancelled = @ \/ wins]
<1>0. q \in Calls /\ a \in Attempts /\ c \in Holdings /\ Dials(a, c) /\ Channel(q.outcomes, a, c)
      /\ Taken(q, a, c) /\ Counts(q, a) /\ Ordered(q, a)
  BY DEF RaceGood
<1>1. q.outcomes \in Seq(Outcomes) /\ Len(q.outcomes) \in Nat \ {0} /\ q.collected \in Nat
  BY <1>0 DEF Calls
<1>2. /\ w \in Seq(Outcomes) /\ Len(w) = Len(q.outcomes) - 1 /\ o = q.outcomes[1] /\ o \in Outcomes
      /\ \A i \in 1 .. Len(w) : w[i] = q.outcomes[i + 1]
  BY <1>1
<1>3. o.kind \in Carriers /\ o.ok \in BOOLEAN /\ a[o.kind] = "sent"
      /\ (IF o.ok THEN c[o.kind] = "session" ELSE c[o.kind] \in Dead)
  <2>1. o.kind \in Carriers /\ o.ok \in BOOLEAN
    BY <1>2 DEF Outcomes
  <2>2. 1 \in 1 .. Len(q.outcomes)
    BY <1>1
  <2>. QED
    BY <1>0, <1>2, <2>1, <2>2 DEF Channel
<1>4. /\ q2 \in Calls /\ q2.outcomes = w /\ q2.winner = (IF wins THEN o.kind ELSE q.winner)
      /\ q2.phase = q.phase /\ q2.collected = q.collected + 1 /\ q2.order = q.order
  <2>1. (q.cancelled \/ wins) \in BOOLEAN
    BY Zenon
  <2>2. (IF wins THEN o.kind ELSE q.winner) \in Carriers \cup {"none"} /\ q.collected + 1 \in Nat
    BY <1>0, <1>1, <1>3 DEF Calls
  <2>3. q2 = [q EXCEPT !.outcomes = w, !.collected = q.collected + 1,
                       !.winner = IF wins THEN o.kind ELSE q.winner, !.cancelled = q.cancelled \/ wins]
    BY <1>0 DEF Calls
  <2>. HIDE DEF w, q2
  <2>. QED
    BY <1>0, <1>2, <2>1, <2>2, <2>3 DEF Calls
<1>5. /\ d \in Holdings /\ (IF wins THEN d[o.kind] = "session" ELSE d[o.kind] \in Dead)
      /\ \A l \in Carriers : l # o.kind => d[l] = c[l]
  BY <1>0, <1>3 DEF Holdings, Dead, closeAuthenticatedOutcome, Dropped
<1> HIDE DEF w, q2
<1>6. Dials(a, d)
  BY <1>0, <1>3, <1>5 DEF Dials
<1>7. \A i \in 1 .. Len(w) : w[i].kind # o.kind /\ i + 1 \in 1 .. Len(q.outcomes) /\ w[i].kind \in Carriers
  <2> SUFFICES ASSUME NEW i \in 1 .. Len(w)
               PROVE  w[i].kind # o.kind /\ i + 1 \in 1 .. Len(q.outcomes) /\ w[i].kind \in Carriers
    OBVIOUS
  <2>1. i + 1 \in 1 .. Len(q.outcomes) /\ 1 \in 1 .. Len(q.outcomes) /\ i + 1 # 1
    BY <1>1, <1>2
  <2>2. w[i] = q.outcomes[i + 1] /\ q.outcomes[i + 1] \in Outcomes
    BY <1>1, <1>2, <2>1
  <2>3. q.outcomes[i + 1].kind # q.outcomes[1].kind
    BY <1>0, <2>1 DEF Channel
  <2>. QED
    BY <1>2, <2>1, <2>2, <2>3 DEF Outcomes
<1>8. Channel(w, a, d)
  <2>1. ASSUME NEW i \in 1 .. Len(w)
        PROVE  a[w[i].kind] = "sent"
               /\ (IF w[i].ok THEN d[w[i].kind] = "session" ELSE d[w[i].kind] \in Dead)
    <3>1. i + 1 \in 1 .. Len(q.outcomes) /\ w[i] = q.outcomes[i + 1] /\ d[w[i].kind] = c[w[i].kind]
      BY <1>2, <1>5, <1>7
    <3>. QED
      BY <1>0, <3>1 DEF Channel
  <2>2. ASSUME NEW i \in 1 .. Len(w), NEW j \in 1 .. Len(w), w[i].kind = w[j].kind
        PROVE  i = j
    <3>1. i + 1 = j + 1
      BY <1>0, <1>2, <1>7, <2>2 DEF Channel
    <3>. QED
      BY <3>1
  <2>. QED
    BY <2>1, <2>2 DEF Channel
<1>9. ~InChannel(w, o.kind) /\ InChannel(q.outcomes, o.kind)
      /\ \A l \in Carriers : l # o.kind => (InChannel(w, l) <=> InChannel(q.outcomes, l))
  <2>1. ~InChannel(w, o.kind)
    BY <1>7 DEF InChannel
  <2>2. InChannel(q.outcomes, o.kind)
    BY <1>1, <1>2 DEF InChannel
  <2>3. ASSUME NEW l \in Carriers, l # o.kind, InChannel(w, l) PROVE InChannel(q.outcomes, l)
    BY <1>2, <1>7, <2>3 DEF InChannel
  <2>4. ASSUME NEW l \in Carriers, l # o.kind, InChannel(q.outcomes, l) PROVE InChannel(w, l)
    <3>1. PICK i \in 1 .. Len(q.outcomes) : q.outcomes[i].kind = l
      BY <2>4 DEF InChannel
    <3>2. i # 1 /\ i - 1 \in 1 .. Len(w) /\ (i - 1) + 1 = i
      BY <1>1, <1>2, <2>4, <3>1
    <3>3. w[i - 1].kind = l
      BY <1>2, <3>1, <3>2
    <3>. QED
      BY <3>2, <3>3 DEF InChannel
  <2>. QED
    BY <2>1, <2>2, <2>3, <2>4
<1>10. Taken(q2, a, d)
  <2>1. q.winner # o.kind
    BY <1>0, <1>3, <1>9 DEF Taken
  <2>2. ASSUME NEW k \in Carriers, k # o.kind
        PROVE  /\ q2.winner = k => q.winner = k
               /\ wins \/ (q.winner = k <=> q2.winner = k)
               /\ wins => q.winner # k
    BY <1>4, <2>2 DEF Carriers
  <2>3. ASSUME NEW k \in Carriers, k # o.kind
        PROVE  /\ q2.winner = k => a[k] = "sent" /\ ~InChannel(w, k)
               /\ a[k] = "sent" /\ ~InChannel(w, k) => IF q2.winner = k THEN d[k] = "session" ELSE d[k] \in Dead
    BY <1>0, <1>5, <1>9, <2>2, <2>3 DEF Taken
  <2>4. /\ q2.winner = o.kind => a[o.kind] = "sent" /\ ~InChannel(w, o.kind)
        /\ IF q2.winner = o.kind THEN d[o.kind] = "session" ELSE d[o.kind] \in Dead
    BY <1>3, <1>4, <1>5, <1>9, <2>1
  <2>. QED
    BY <1>4, <2>3, <2>4 DEF Taken
<1>11. Counts(q2, a)
  <2>1. q2.collected + Len(q2.outcomes) = Reports(a)
    <3>1. q.collected + Len(q.outcomes) = Reports(a)
      BY <1>0 DEF Counts
    <3>. QED
      <4>1. Len(q2.outcomes) = Len(q.outcomes) - 1 /\ q2.collected = q.collected + 1
        BY <1>2, <1>4
      <4>. QED
        BY <1>1, <3>1, <4>1
  <2>. QED
    BY <1>0, <1>4, <2>1 DEF Counts
<1>12. Ordered(q2, a)
  BY <1>0, <1>4 DEF Ordered
<1>13. RaceGood(q2, a, d)
  BY <1>0, <1>4, <1>5, <1>6, <1>8, <1>10, <1>11, <1>12 DEF RaceGood
<1>. QED
  BY <1>13 DEF q2

\* A carrier is appended to an order unless it is there.
LEMMA UniqueAppend ==
    ASSUME NEW s \in Seq(Carriers), NEW k \in Carriers, NEW o, o = AppendUnique(s, k)
    PROVE  /\ o \in Seq(Carriers) /\ Range(o) = Range(s) \cup {k}
           /\ Len(o) = Len(s) + Num(k \notin Range(s))
           /\ o[1] = IF Len(s) = 0 THEN k ELSE s[1]
<1>1. Len(s) \in Nat /\ DOMAIN s = 1 .. Len(s)
  OBVIOUS
<1>2. CASE k \in Range(s)
  <2>1. o = s /\ Len(s) # 0
    BY <1>1, <1>2 DEF AppendUnique, Range
  <2>. QED
    BY <1>1, <1>2, <2>1 DEF Num
<1>3. CASE k \notin Range(s)
  <2>1. /\ o \in Seq(Carriers) /\ Len(o) = Len(s) + 1 /\ o[Len(s) + 1] = k
        /\ \A i \in 1 .. Len(s) : o[i] = s[i]
    BY <1>3 DEF AppendUnique
  <2>2. DOMAIN o = 1 .. Len(s) + 1
    BY <2>1
  <2>3. Range(o) = Range(s) \cup {k}
    BY <1>1, <2>1, <2>2 DEF Range
  <2>. QED
    BY <1>1, <1>3, <2>1, <2>3 DEF Num
<1>. QED
  BY <1>2, <1>3

\* The order of a race: every carrier once, HTTP/3 among them if it is
\* configured, and then not HTTPS first.
LEMMA OrderIs ==
    ASSUME http3Configured \in BOOLEAN, NEW cached \in Carriers \cup {"none"},
           cached = "http3" => http3Configured, NEW o, o = clientCarrierOrder(cached)
    PROVE  /\ o \in Seq(Carriers) /\ o[1] \in Range(o)
           /\ Len(o) = 2 + Num(http3Configured)
           /\ http3Configured => Head(o) # "https"
           /\ Range(o) = {"webrtc", "https"} \cup (IF http3Configured THEN {"http3"} ELSE {})
<1> DEFINE first == IF cached # "none" /\ ~(http3Configured /\ cached = "https") THEN <<cached>> ELSE <<>>
           fast  == IF http3Configured THEN AppendUnique(first, "http3") ELSE first
           media == AppendUnique(fast, "webrtc")
<1>1. o = AppendUnique(media, "https")
  BY DEF clientCarrierOrder
<1>2. /\ first \in Seq(Carriers)
      /\ \/ Len(first) = 0 /\ Range(first) = {}
         \/ /\ Len(first) = 1 /\ Range(first) = {cached} /\ first[1] = cached /\ cached \in Carriers
            /\ ~(http3Configured /\ cached = "https")
  <2>1. CASE cached # "none" /\ ~(http3Configured /\ cached = "https")
    BY <2>1 DEF Range
  <2>2. CASE ~(cached # "none" /\ ~(http3Configured /\ cached = "https"))
    BY <2>2 DEF Range
  <2>. QED
    BY <2>1, <2>2
<1> HIDE DEF first
<1>3. /\ fast \in Seq(Carriers)
      /\ Range(fast) = Range(first) \cup (IF http3Configured THEN {"http3"} ELSE {})
      /\ Len(fast) = Len(first) + Num(http3Configured /\ "http3" \notin Range(first))
      /\ fast[1] = IF http3Configured /\ Len(first) = 0 THEN "http3" ELSE first[1]
  <2>1. CASE http3Configured
    BY <1>2, <2>1, UniqueAppend DEF Carriers
  <2>2. CASE ~http3Configured
    BY <1>2, <2>2 DEF Num
  <2>. QED
    BY <2>1, <2>2
<1> HIDE DEF fast
<1>4. /\ media \in Seq(Carriers) /\ Range(media) = Range(fast) \cup {"webrtc"}
      /\ Len(media) = Len(fast) + Num("webrtc" \notin Range(fast))
      /\ media[1] = IF Len(fast) = 0 THEN "webrtc" ELSE fast[1]
  BY <1>3, UniqueAppend DEF Carriers
<1> HIDE DEF media
<1>5. /\ o \in Seq(Carriers) /\ Range(o) = Range(media) \cup {"https"}
      /\ Len(o) = Len(media) + Num("https" \notin Range(media))
      /\ o[1] = IF Len(media) = 0 THEN "https" ELSE media[1]
  BY <1>1, <1>4, UniqueAppend DEF Carriers
<1>6. Range(o) = {"webrtc", "https"} \cup (IF http3Configured THEN {"http3"} ELSE {})
  BY <1>2, <1>3, <1>4, <1>5 DEF Carriers
<1>7. Len(o) = 2 + Num(http3Configured)
  <2>1. CASE Len(first) = 0 /\ Range(first) = {}
    BY <1>3, <1>4, <1>5, <2>1 DEF Num
  <2>2. CASE Len(first) = 1 /\ Range(first) = {cached} /\ cached \in Carriers
    BY <1>2, <1>3, <1>4, <1>5, <2>2 DEF Num, Carriers
  <2>. QED
    BY <1>2, <2>1, <2>2
<1>8. ASSUME http3Configured PROVE o[1] # "https"
  <2>1. Len(fast) \in Nat \ {0} /\ fast[1] # "https"
    <3>1. CASE Len(first) = 0 /\ Range(first) = {}
      BY <1>3, <1>8, <3>1 DEF Num
    <3>2. CASE Len(first) = 1 /\ first[1] = cached /\ cached # "https"
      BY <1>3, <1>8, <3>2 DEF Num
    <3>. QED
      BY <1>2, <1>8, <3>1, <3>2
  <2>2. Len(media) # 0 /\ media[1] = fast[1]
    BY <1>4, <2>1 DEF Num
  <2>. QED
    BY <1>5, <2>1, <2>2
<1>9. o[1] \in Range(o) /\ Head(o) = o[1]
  <2>1. Len(o) >= 1 /\ DOMAIN o = 1 .. Len(o)
    BY <1>5, <1>7 DEF Num
  <2>. QED
    BY <1>5, <2>1 DEF Range
<1>. QED
  BY <1>5, <1>6, <1>7, <1>8, <1>9

\* A call starts one goroutine for each carrier of its order.
LEMMA StartKeeps ==
    ASSUME RaceInv, NEW r \in Races, raceClientCarriers(r)
    PROVE  RaceInv'
<1> DEFINE o == clientCarrierOrder(load.kind)
           q == [race[r] EXCEPT !.phase = "racing", !.order = o]
           a == [k \in Carriers |-> IF k = o[1] THEN DialSteps[k][1]
                                    ELSE IF k \in Range(o) THEN "delayed" ELSE "idle"]
           c == carrier[r]
<1>0. RaceGood(race[r], attempt[r], c) /\ race[r].phase = "idle" /\ http3Configured \in BOOLEAN
  BY DEF RaceInv, raceClientCarriers
<1>1. race[r] \in Calls /\ attempt[r] \in Attempts /\ c \in Holdings /\ Dials(attempt[r], c)
      /\ Channel(race[r].outcomes, attempt[r], c) /\ Taken(race[r], attempt[r], c) /\ Counts(race[r], attempt[r])
  BY <1>0 DEF RaceGood
<1>2. \A k \in Carriers : attempt[r][k] = "idle" /\ c[k] = "none"
  BY <1>0, <1>1 DEF Counts, Dials
<1>3. Reports(attempt[r]) = 0
  BY <1>2 DEF Reports, Num, Carriers
<1>4. race[r].outcomes \in Seq(Outcomes) /\ Len(race[r].outcomes) = 0 /\ race[r].collected = 0
      /\ race[r].winner = "none"
  <2>1. race[r].outcomes \in Seq(Outcomes) /\ race[r].collected \in Nat /\ Len(race[r].outcomes) \in Nat
        /\ race[r].winner \in Carriers \cup {"none"}
    BY <1>1 DEF Calls
  <2>2. race[r].winner \notin Carriers
    BY <1>1, <1>2 DEF Taken
  <2>3. race[r].collected + Len(race[r].outcomes) = 0
    BY <1>1, <1>3 DEF Counts
  <2>. QED
    BY <2>1, <2>2, <2>3
<1>5. load \in Preferences /\ (load.kind = "http3" => http3Configured) /\ preference' = load
  BY DEF RaceInv, Prefers, load, NoPreference, Preferences, raceClientCarriers
<1>6. /\ o \in Seq(Carriers) /\ o[1] \in Range(o) /\ Len(o) = 2 + Num(http3Configured)
      /\ http3Configured => Head(o) # "https"
      /\ Range(o) = {"webrtc", "https"} \cup (IF http3Configured THEN {"http3"} ELSE {})
  <2>1. load.kind \in Carriers \cup {"none"}
    BY <1>5 DEF Preferences
  <2>. QED
    BY <1>0, <1>5, <2>1, OrderIs
<1> HIDE DEF o
<1>7. /\ a \in Attempts /\ \A k \in Carriers : a[k] # "idle" <=> k \in Range(o)
      /\ \A k \in Carriers : a[k] \in {"idle", "delayed"} \cup Range(DialSteps[k]) /\ a[k] # "sent"
  <2>1. \A k \in Carriers : DialSteps[k][1] \in DialStages /\ DialSteps[k][1] \in Range(DialSteps[k])
                             /\ DialSteps[k][1] \notin {"idle", "sent"}
    BY DialIs DEF DialStages
  <2>. QED
    BY <1>6, <2>1 DEF Attempts
<1>8. /\ q \in Calls /\ q.phase = "racing" /\ q.order = o /\ q.outcomes = race[r].outcomes
      /\ q.collected = 0 /\ q.winner = "none"
  BY <1>1, <1>4, <1>6 DEF Calls
<1> HIDE DEF q, a, c
<1>9. Dials(a, c) /\ Channel(q.outcomes, a, c)
  BY <1>2, <1>4, <1>7, <1>8 DEF Dials, Channel
<1>10. Taken(q, a, c)
  BY <1>7, <1>8 DEF Taken, Carriers
<1>11. Counts(q, a)
  <2>1. Reports(a) = 0
    BY <1>7 DEF Reports, Num, Carriers
  <2>2. Started(a) = 2 + Num(http3Configured)
    BY <1>0, <1>6, <1>7 DEF Started, Num, Carriers
  <2>. QED
    BY <1>4, <1>6, <1>8, <2>1, <2>2 DEF Counts
<1>12. Ordered(q, a)
  BY <1>6, <1>7, <1>8 DEF Ordered
<1>13. RaceGood(q, a, c)
  BY <1>1, <1>7, <1>8, <1>9, <1>10, <1>11, <1>12 DEF RaceGood
<1>14. race' = [race EXCEPT ![r] = q] /\ attempt' = [attempt EXCEPT ![r] = a]
  BY DEF raceClientCarriers, o, q, a, RaceInv
<1>15. carrier' = [carrier EXCEPT ![r] = c] /\ UNCHANGED <<http3Configured, raceClock>> /\ Prefers'
  BY <1>5 DEF raceClientCarriers, RaceInv, Prefers, c
<1>. QED
  BY <1>13, <1>14, <1>15, OneRace

\* A preference that is withdrawn or kept.
LEMMA Invalidated ==
    ASSUME RaceInv, UNCHANGED http3Configured, UNCHANGED preference \/ \E k \in Carriers : invalidate(k)
    PROVE  Prefers'
BY DEF RaceInv, Prefers, invalidate, NoPreference, Preferences

\* What the goroutine of a carrier does.
LEMMA AttemptKeeps ==
    ASSUME RaceInv, NEW r \in Races, NEW k \in Carriers,
           \/ DelayEnds(r, k) \/ DelayCancelled(r, k) \/ DialAdvances(r, k) \/ DialFails(r, k)
           \/ \E ok \in BOOLEAN : AuthenticateClientCarrier(r, k, ok)
    PROVE  RaceInv'
<1> DEFINE q == race[r]
           a == attempt[r]
           c == carrier[r]
<1>0. RaceGood(q, a, c) /\ q \in Calls /\ a \in Attempts /\ c \in Holdings
  BY DEF RaceInv, RaceGood
<1>1. race = [race EXCEPT ![r] = q] /\ attempt = [attempt EXCEPT ![r] = a] /\ carrier = [carrier EXCEPT ![r] = c]
  BY DEF RaceInv
<1>2. UNCHANGED <<http3Configured, raceClock>> /\ Prefers'
  <2>1. UNCHANGED <<http3Configured, raceClock>> /\ (UNCHANGED preference \/ invalidate(k))
    BY DEF DelayEnds, DelayCancelled, DialAdvances, DialFails, AuthenticateClientCarrier
  <2>. QED
    BY <2>1, Invalidated
\* The goroutine goes on with its dial or authenticates.
<1>3. ASSUME NEW x \in {"authenticating"} \cup Range(DialSteps[k]), NEW v \in {"none", "partial", "open"},
             a[k] \in {"delayed"} \cup Range(DialSteps[k])
      PROVE  RaceGood(q, [a EXCEPT ![k] = x], [c EXCEPT ![k] = v])
  <2> DEFINE a2 == [a EXCEPT ![k] = x]
             c2 == [c EXCEPT ![k] = v]
  <2>1. Range(DialSteps[k]) \subseteq DialStages /\ a[k] \notin {"idle", "sent"} /\ x \notin {"idle", "sent", "delayed"}
    BY <1>3, DialIs DEF DialStages
  <2>2. a2 \in Attempts /\ a2[k] = x /\ \A l \in Carriers : l # k => a2[l] = a[l]
    BY <1>0, <2>1 DEF Attempts
  <2>3. c2 \in Holdings /\ c2[k] = v /\ \A l \in Carriers : l # k => c2[l] = c[l]
    BY <1>0 DEF Holdings
  <2>4. Dials(a, c) /\ Channel(q.outcomes, a, c) /\ Taken(q, a, c) /\ Counts(q, a) /\ Ordered(q, a)
    BY <1>0 DEF RaceGood
  <2> HIDE DEF q, a, c, a2, c2
  <2>5. Dials(a2, c2)
    BY <1>3, <2>1, <2>2, <2>3, <2>4 DEF Dials
  <2>6. Channel(q.outcomes, a2, c2)
    <3>1. \A i \in 1 .. Len(q.outcomes) : q.outcomes[i].kind \in Carriers /\ q.outcomes[i].kind # k
      <4>1. q.outcomes \in Seq(Outcomes)
        BY <1>0 DEF Calls
      <4>2. \A i \in 1 .. Len(q.outcomes) : q.outcomes[i] \in Outcomes
        BY <4>1
      <4>. QED
        BY <2>1, <2>4, <4>2 DEF Outcomes, Channel
    <3>. QED
      BY <2>2, <2>3, <2>4, <3>1 DEF Channel
  <2>7. Taken(q, a2, c2)
    BY <2>1, <2>2, <2>3, <2>4 DEF Taken
  <2>8. Reports(a2) = Reports(a) /\ Started(a2) = Started(a)
    BY <2>1, <2>2 DEF Reports, Started, Num, Carriers
  <2>9. Counts(q, a2)
    BY <2>1, <2>4, <2>8 DEF Counts
  <2>10. Ordered(q, a2)
    BY <2>1, <2>2, <2>4 DEF Ordered
  <2>11. RaceGood(q, a2, c2)
    BY <1>0, <2>2, <2>3, <2>5, <2>6, <2>7, <2>9, <2>10 DEF RaceGood
  <2>. QED
    BY <2>11 DEF a2, c2
<1>4. CASE DelayEnds(r, k)
  <2>1. a[k] = "delayed" /\ c[k] = "none" /\ DialSteps[k][1] \in Range(DialSteps[k])
    BY <1>0, <1>4, DialIs DEF DelayEnds, RaceGood, Dials
  <2>2. RaceGood(q, [a EXCEPT ![k] = DialSteps[k][1]], [c EXCEPT ![k] = "none"])
    BY <1>3, <2>1
  <2>3. attempt' = [attempt EXCEPT ![r] = [a EXCEPT ![k] = DialSteps[k][1]]]
    BY <1>1, <1>4 DEF DelayEnds, RaceInv
  <2>4. race' = race /\ carrier' = carrier /\ [c EXCEPT ![k] = "none"] = c
    BY <1>0, <1>4, <2>1 DEF DelayEnds, Holdings
  <2>5. RaceGood(q, [a EXCEPT ![k] = DialSteps[k][1]], c)
    BY <2>2, <2>4
  <2>. HIDE DEF q, a, c
  <2>. QED
    BY <1>1, <1>2, <2>3, <2>4, <2>5, OneRace
<1>5. CASE DialAdvances(r, k)
  <2> DEFINE last == a[k] = LastStep(k)
             x == IF last THEN "authenticating" ELSE LastStep(k)
             v == IF last THEN "open" ELSE "partial"
  <2>1. a[k] \in Range(DialSteps[k]) /\ x \in {"authenticating"} \cup Range(DialSteps[k])
    BY <1>5, DialIs DEF DialAdvances, Dialing
  <2>2. attempt' = [attempt EXCEPT ![r] = [a EXCEPT ![k] = x]]
        /\ carrier' = [carrier EXCEPT ![r] = [c EXCEPT ![k] = v]] /\ race' = race
    BY <1>1, <1>5 DEF DialAdvances, RaceInv
  <2>3. v \in {"none", "partial", "open"}
    OBVIOUS
  <2>. HIDE DEF q, a, c, x, v
  <2>4. RaceGood(q, [a EXCEPT ![k] = x], [c EXCEPT ![k] = v])
    BY <1>3, <2>1, <2>3
  <2>. QED
    BY <1>1, <1>2, <2>2, <2>4, OneRace
\* The goroutine reports.
<1>6. ASSUME NEW ok \in BOOLEAN, NEW v, IF ok THEN v = "session" ELSE v \in Dead,
             a[k] \notin {"idle", "sent"}, Sends(r, k, ok), carrier' = [carrier EXCEPT ![r][k] = v]
      PROVE  RaceInv'
  <2>1. RaceGood([q EXCEPT !.outcomes = Append(@, [kind |-> k, ok |-> ok])],
                 [a EXCEPT ![k] = "sent"], [c EXCEPT ![k] = v])
    BY <1>0, <1>6, ReportKeeps
  <2>2. race' = [race EXCEPT ![r] = [q EXCEPT !.outcomes = Append(@, [kind |-> k, ok |-> ok])]]
        /\ attempt' = [attempt EXCEPT ![r] = [a EXCEPT ![k] = "sent"]]
        /\ carrier' = [carrier EXCEPT ![r] = [c EXCEPT ![k] = v]]
    BY <1>6 DEF Sends, RaceInv
  <2>. HIDE DEF q, a, c
  <2>. QED
    BY <1>2, <2>1, <2>2, OneRace
<1>7. CASE DelayCancelled(r, k)
  <2>1. a[k] = "delayed" /\ c[k] = "none" /\ Sends(r, k, FALSE) /\ carrier' = carrier
    BY <1>0, <1>7 DEF DelayCancelled, RaceGood, Dials
  <2>2. carrier = [carrier EXCEPT ![r][k] = "none"]
    BY <1>0, <1>1, <2>1 DEF RaceInv, Holdings
  <2>. QED
    BY <1>6, <2>1, <2>2 DEF Dead
<1>8. CASE DialFails(r, k)
  <2>1. a[k] \in Range(DialSteps[k]) /\ Sends(r, k, FALSE)
        /\ carrier' = [carrier EXCEPT ![r][k] = Dropped(carrier[r][k])]
    BY <1>8 DEF DialFails, Dialing
  <2>2. a[k] \notin {"idle", "sent"} /\ Dropped(carrier[r][k]) \in Dead
    BY <2>1, DialIs DEF DialStages, Dropped, Dead
  <2>. QED
    BY <1>6, <2>1, <2>2
<1>9. ASSUME NEW ok \in BOOLEAN, AuthenticateClientCarrier(r, k, ok)
      PROVE  RaceInv'
  <2>1. a[k] = "authenticating" /\ Sends(r, k, ok)
        /\ carrier' = [carrier EXCEPT ![r][k] = IF ok THEN "session" ELSE "closed"]
    BY <1>9 DEF AuthenticateClientCarrier
  <2>. QED
    BY <1>6, <2>1 DEF Dead
<1>. QED
  BY <1>4, <1>5, <1>7, <1>8, <1>9

\* What the caller does.
LEMMA CallerKeeps ==
    ASSUME RaceInv, NEW r \in Races, Collect(r) \/ RaceReturns(r) \/ CallerCancels(r)
    PROVE  RaceInv'
<1> DEFINE q == race[r]
           a == attempt[r]
           c == carrier[r]
<1>0. RaceGood(q, a, c) /\ q \in Calls /\ a \in Attempts /\ c \in Holdings
      /\ Dials(a, c) /\ Channel(q.outcomes, a, c) /\ Taken(q, a, c) /\ Counts(q, a) /\ Ordered(q, a)
  BY DEF RaceInv, RaceGood
<1>1. attempt = [attempt EXCEPT ![r] = a] /\ carrier = [carrier EXCEPT ![r] = c]
  BY DEF RaceInv
<1>2. UNCHANGED <<http3Configured, attempt, raceClock>> /\ q.phase = "racing"
  BY DEF Collect, RaceReturns, CallerCancels
<1>3. CASE Collect(r)
  <2> DEFINE o == Head(q.outcomes)
             wins == o.ok /\ q.winner = "none"
             d == IF wins THEN c ELSE [c EXCEPT ![o.kind] = closeAuthenticatedOutcome(@, o.ok)]
             q2 == [q EXCEPT !.outcomes = Tail(@), !.collected = @ + 1,
                             !.winner = IF wins THEN o.kind ELSE @, !.cancelled = @ \/ wins]
  <2>1. RaceGood(q2, a, d)
    <3>1. q.outcomes # <<>>
      BY <1>3 DEF Collect
    <3>. HIDE DEF q, a, c
    <3>. QED
      BY <1>0, <1>2, <3>1, CollectKeeps
  <2>2. race' = [race EXCEPT ![r] = q2] /\ UNCHANGED preference
    BY <1>3 DEF Collect, RaceInv
  <2>3. carrier' = [carrier EXCEPT ![r] = d]
    BY <1>1, <1>3 DEF Collect, RaceInv
  <2>4. Prefers'
    BY <1>2, <2>2, Invalidated
  <2>. HIDE DEF q, a, c, d, q2
  <2>. QED
    BY <1>1, <1>2, <2>1, <2>2, <2>3, <2>4, OneRace
<1>4. CASE CallerCancels(r)
  <2> DEFINE q2 == [q EXCEPT !.cancelled = TRUE]
  <2>1. q2 \in Calls /\ q2.phase = q.phase /\ q2.order = q.order /\ q2.outcomes = q.outcomes
        /\ q2.collected = q.collected /\ q2.winner = q.winner
    BY <1>0 DEF Calls
  <2>2. race' = [race EXCEPT ![r] = q2] /\ UNCHANGED <<preference, carrier>>
    BY <1>4 DEF CallerCancels, RaceInv
  <2>3. Prefers'
    BY <1>2, <2>2, Invalidated
  <2> HIDE DEF q, a, c, q2
  <2>4. RaceGood(q2, a, c)
    BY <1>0, <2>1 DEF RaceGood, Taken, Counts, Ordered
  <2>. QED
    BY <1>1, <1>2, <2>2, <2>3, <2>4, OneRace
<1>5. CASE RaceReturns(r)
  <2> DEFINE q2 == [q EXCEPT !.phase = IF q.winner = "none" THEN "failed" ELSE "returned"]
  <2>1. q2 \in Calls /\ q2.phase = (IF q.winner = "none" THEN "failed" ELSE "returned")
        /\ q2.order = q.order /\ q2.outcomes = q.outcomes
        /\ q2.collected = q.collected /\ q2.winner = q.winner
    BY <1>0 DEF Calls
  <2>2. race' = [race EXCEPT ![r] = q2] /\ UNCHANGED carrier /\ q.collected = Len(q.order)
    BY <1>5 DEF RaceReturns, RaceInv
  <2>3. q.winner = "http3" => http3Configured
    BY <1>0, <1>2 DEF Taken, Ordered, Carriers
  <2>4. Prefers'
    <3>1. CASE q.winner = "none"
      BY <1>2, <1>5, <3>1, Invalidated DEF RaceReturns
    <3>2. CASE q.winner # "none"
      <4>1. preference' = [kind |-> q.winner, recorded |-> raceClock] /\ raceClock \in Nat
        BY <1>5, <3>2 DEF RaceReturns, record, RaceInv
      <4>2. q.winner \in Carriers \cup {"none"}
        BY <1>0 DEF Calls
      <4>. QED
        BY <1>2, <2>3, <4>1, <4>2 DEF Prefers, Preferences
    <3>. QED
      BY <3>1, <3>2
  <2> HIDE DEF q, a, c, q2
  <2>5. RaceGood(q2, a, c)
    BY <1>0, <1>2, <2>1, <2>2 DEF RaceGood, Taken, Counts, Ordered
  <2>. QED
    BY <1>1, <1>2, <2>2, <2>4, <2>5, OneRace
<1>. QED
  BY <1>3, <1>4, <1>5

\* The invariant is inductive.
LEMMA RacePreserved ==
    ASSUME RaceInv, [RaceNext]_raceVars
    PROVE  RaceInv'
<1>1. ASSUME UNCHANGED <<http3Configured, race, attempt, carrier>>, Prefers', raceClock' \in Nat
      PROVE  RaceInv'
  BY <1>1, Zenon DEF RaceInv, RaceGood, Ordered
<1>2. CASE ResetClientCarrierPreferences \/ RaceTick \/ UNCHANGED raceVars
  <2>1. UNCHANGED <<http3Configured, race, attempt, carrier>> /\ raceClock' \in Nat
    BY <1>2 DEF ResetClientCarrierPreferences, RaceTick, raceVars, RaceInv
  <2>2. preference' \in {preference, NoPreference}
    BY <1>2 DEF ResetClientCarrierPreferences, RaceTick, raceVars
  <2>3. Prefers'
    BY <2>1, <2>2 DEF RaceInv, Prefers, NoPreference, Preferences
  <2>. QED
    BY <1>1, <2>1, <2>3
<1>. QED
  BY <1>2, StartKeeps, CallerKeeps, AttemptKeeps DEF RaceNext

\* In a race that is over, every goroutine has reported and every outcome has
\* been taken.
LEMMA AllReported ==
    ASSUME NEW q, NEW a, NEW c, RaceGood(q, a, c), q.phase \in {"returned", "failed"}
    PROVE  \A k \in Carriers : a[k] \in {"idle", "sent"} /\ ~InChannel(q.outcomes, k)
<1>1. q.collected \in Nat /\ Len(q.outcomes) \in Nat
  BY DEF RaceGood, Calls
<1>2. q.collected + Len(q.outcomes) = Reports(a) /\ q.collected = Started(a)
  BY DEF RaceGood, Counts
<1>3. Len(q.outcomes) = 0 /\ Reports(a) = Started(a)
  <2>1. \A k \in Carriers : Num(a[k] = "sent") <= Num(a[k] # "idle") /\ Num(a[k] = "sent") \in Nat
                             /\ Num(a[k] # "idle") \in Nat
    BY DEF Num
  <2>2. Reports(a) <= Started(a) /\ Reports(a) \in Nat /\ Started(a) \in Nat
    BY <2>1 DEF Reports, Started, Carriers
  <2>. QED
    BY <1>1, <1>2, <2>2
<1>4. \A k \in Carriers : a[k] \in {"idle", "sent"}
  BY <1>3 DEF Reports, Started, Num, Carriers
<1>. QED
  BY <1>3, <1>4 DEF InChannel

\* For every number of calls and every TTL of the cache: a call returns with exactly
\* the winner's session open or fails with nothing open, however late the losers
\* succeed, nothing open is out of everyone's hands meanwhile, and HTTPS never
\* leads a race where HTTP/3 is configured (raceAuthenticatedCandidates,
\* closeAuthenticatedOutcome, clientCarrierOrder).
THEOREM RaceSound == RaceSpec => []RaceIsSound
<1>1. RaceInv => RaceIsSound
  <2> SUFFICES ASSUME RaceInv, NEW r \in Races
               PROVE  /\ race[r].phase = "returned" => Alive(r) = {race[r].winner}
                      /\ race[r].phase = "failed" => Alive(r) = {}
                      /\ race[r].phase = "racing" =>
                           \A k \in Alive(r) : \/ Dialing(r, k) \/ attempt[r][k] = "authenticating"
                                               \/ \E o \in Range(race[r].outcomes) : o.kind = k /\ o.ok
                                               \/ race[r].winner = k
                      /\ race[r].phase # "idle" =>
                           /\ http3Configured => Head(race[r].order) # "https"
                           /\ {"webrtc", "https"} \subseteq Range(race[r].order)
                           /\ http3Configured <=> "http3" \in Range(race[r].order)
    BY DEF RaceIsSound, OneSessionSurvives, HTTPSNeverPins
  <2> DEFINE q == race[r]
             a == attempt[r]
             c == carrier[r]
  <2>0. RaceGood(q, a, c) /\ q \in Calls /\ Dials(a, c) /\ Channel(q.outcomes, a, c) /\ Taken(q, a, c)
        /\ Counts(q, a) /\ Ordered(q, a)
    BY DEF RaceInv, RaceGood
  <2>1. Alive(r) = {k \in Carriers : c[k] \in {"partial", "open", "session"}}
    BY DEF Alive
  <2>2. ASSUME q.phase \in {"returned", "failed"}, NEW k \in Carriers
        PROVE  c[k] \in {"partial", "open", "session"} <=> q.winner = k
    <3>1. a[k] \in {"idle", "sent"} /\ ~InChannel(q.outcomes, k)
      BY <2>0, <2>2, AllReported
    <3>. QED
      BY <2>0, <2>2, <3>1 DEF Taken, Dials, Dead
  <2>3. CASE q.phase = "returned"
    <3>1. q.winner \in Carriers
      BY <2>0, <2>3 DEF Counts, Calls
    <3>. QED
      BY <2>0, <2>1, <2>2, <2>3, <3>1 DEF Ordered
  <2>4. CASE q.phase = "failed"
    <3>1. q.winner \notin Carriers
      BY <2>0, <2>4 DEF Counts, Carriers
    <3>. QED
      BY <2>0, <2>1, <2>2, <2>4, <3>1 DEF Ordered
  <2>5. CASE q.phase = "racing"
    <3>1. ASSUME NEW k \in Carriers, c[k] \in {"partial", "open", "session"}
          PROVE  \/ Dialing(r, k) \/ a[k] = "authenticating"
                 \/ \E o \in Range(q.outcomes) : o.kind = k /\ o.ok
                 \/ q.winner = k
      <4>1. CASE a[k] # "sent"
        BY <2>0, <3>1, <4>1 DEF Dials, Dialing
      <4>2. CASE a[k] = "sent" /\ ~InChannel(q.outcomes, k)
        BY <2>0, <3>1, <4>2 DEF Taken, Dead
      <4>3. CASE InChannel(q.outcomes, k)
        <5>1. PICK i \in 1 .. Len(q.outcomes) : q.outcomes[i].kind = k
          BY <4>3 DEF InChannel
        <5>2. q.outcomes[i].ok
          BY <2>0, <3>1, <5>1 DEF Channel, Dead
        <5>3. q.outcomes[i] \in Range(q.outcomes)
          <6>1. DOMAIN q.outcomes = 1 .. Len(q.outcomes)
            BY <2>0 DEF Calls
          <6>. QED
            BY <5>1, <6>1 DEF Range
        <5>. QED
          BY <5>1, <5>2, <5>3
      <4>. QED
        BY <4>1, <4>2, <4>3
    <3>. QED
      BY <2>0, <2>1, <2>5, <3>1 DEF Ordered
  <2>6. CASE q.phase = "idle"
    BY <2>6
  <2>. QED
    BY <2>0, <2>3, <2>4, <2>5, <2>6 DEF Calls
<1>. QED
  BY <1>1, RaceStarts, RacePreserved, PTL DEF RaceSpec
=============================================================================
