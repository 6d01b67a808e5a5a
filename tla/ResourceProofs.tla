---------------------------- MODULE ResourceProofs ----------------------------
(***************************************************************************)
(* Three parts that hold something for another and must let go of it       *)
(* exactly: bytes, files, and the targets of a relay.                      *)
(*                                                                         *)
(* The replay journal keeps, for every capacity and every payload, exactly *)
(* the unacknowledged bytes.  ReplayExact is not inductive on its own: the *)
(* proof carries WindowExact, which places the byte at offset base + k in  *)
(* the slot (head + k) % Capacity, and RetiredCleared beside it.           *)
(*                                                                         *)
(* The databases of a node are one pair, and the one its service matches   *)
(* with, for every number of releases, updates and faults (GeoWhole).      *)
(*                                                                         *)
(* The relay of a UDP association takes the first reply of an address only *)
(* within the allowance and joins every worker it started (UdpRelaySound). *)
(***************************************************************************)
EXTENDS Journal, GeoData, UdpRelay, FiniteSetTheorems, SequenceTheorems, TLAPS

\* The byte at offset base + k sits k slots after head, wrapping once.
WindowExact ==
    ~closed =>
        \A k \in 0 .. size - 1 :
            buffer[(head + k) % Capacity] = produced[base + k + 1]

IInv == TypeOK /\ WindowExact /\ RetiredCleared

\* A slot index wraps at most once, because head and k are below Capacity.
LEMMA SlotWrap ==
    ASSUME NEW h \in Slots, NEW k \in 0 .. Capacity
    PROVE  /\ (h + k) % Capacity \in Slots
           /\ h + k < Capacity => (h + k) % Capacity = h + k
           /\ h + k >= Capacity => (h + k) % Capacity = h + k - Capacity
<1>1. Capacity \in Nat \ {0}  BY JournalAssumption
<1>2. CASE h + k < Capacity  BY <1>1, <1>2 DEF Slots
<1>3. CASE h + k >= Capacity
  <2>1. h + k - Capacity \in 0 .. Capacity - 1  BY <1>1, <1>3 DEF Slots
  <2>2. h \in Nat /\ k \in Nat /\ h + k \in Capacity .. 2 * Capacity - 1
    BY <1>1, <1>3, <2>1 DEF Slots
  <2>3. (h + k) % Capacity = h + k - Capacity  BY <1>1, <2>2
  <2> QED  BY <1>1, <1>3, <2>1, <2>2, <2>3 DEF Slots
<1> QED  BY <1>1, <1>2, <1>3 DEF Slots

\* The slot of the j-th byte of a payload of n bytes written at the tail t:
\* before the end of the buffer for j < f, from its start otherwise.
LEMMA TailSlot ==
    ASSUME NEW h \in Slots, NEW z \in 0 .. Capacity, NEW n \in 0 .. Capacity - z,
           NEW t \in Slots, t = (h + z) % Capacity,
           NEW f \in Nat, f = MinOf(n, Capacity - t),
           NEW j \in 0 .. n - 1
    PROVE  (h + (z + j)) % Capacity = IF j < f THEN t + j ELSE j - f
<1>1. Capacity \in Nat \ {0}  BY JournalAssumption
<1>2. /\ h \in 0 .. Capacity - 1 /\ t \in 0 .. Capacity - 1
      /\ j \in Int /\ z \in Int /\ n \in Int /\ z + j \in 0 .. Capacity
  BY <1>1 DEF Slots
<1>3. /\ h + z < Capacity => t = h + z
      /\ h + z >= Capacity => t = h + z - Capacity
  BY SlotWrap
<1>4. /\ h + (z + j) < Capacity => (h + (z + j)) % Capacity = h + (z + j)
      /\ h + (z + j) >= Capacity =>
            (h + (z + j)) % Capacity = h + (z + j) - Capacity
  BY <1>2, SlotWrap
<1>5. f <= n /\ f <= Capacity - t /\ (f = n \/ f = Capacity - t)
  BY <1>1, <1>2 DEF MinOf
<1> DEFINE s == (h + (z + j)) % Capacity
<1>6. /\ h + (z + j) < Capacity => s = h + (z + j)
      /\ h + (z + j) >= Capacity => s = h + (z + j) - Capacity
  BY <1>4
<1> HIDE DEF s
<1>7. s = IF j < f THEN t + j ELSE j - f
  <2>1. j < n  BY <1>2
  <2>2. CASE h + z < Capacity  BY <1>1, <1>2, <1>3, <1>5, <1>6, <2>1, <2>2
  <2>3. CASE h + z >= Capacity  BY <1>1, <1>2, <1>3, <1>5, <1>6, <2>1, <2>3
  <2> QED  BY <1>1, <1>2, <2>2, <2>3
<1> QED  BY <1>7 DEF s

\* What the concatenation of the history with a payload contains.
LEMMA ConcatBytes ==
    ASSUME NEW s \in Seq(Byte), NEW p \in Seq(Byte)
    PROVE  /\ s \o p \in Seq(Byte)
           /\ Len(s \o p) = Len(s) + Len(p)
           /\ \A i \in 1 .. Len(s) : (s \o p)[i] = s[i]
           /\ \A i \in 1 .. Len(p) : (s \o p)[Len(s) + i] = p[i]
  BY ConcatProperties

LEMMA InitIInv == NewJournal => IInv
<1> SUFFICES ASSUME NewJournal PROVE IInv  OBVIOUS
<1>1. TypeOK
  <2>1. buffer \in [Slots -> Byte \cup {Zero}]  BY DEF NewJournal
  <2>2. produced \in Seq(Byte) /\ Len(produced) = 0  BY DEF NewJournal
  <2>3. 0 \in Slots  BY JournalAssumption DEF Slots
  <2> QED  BY <2>1, <2>2, <2>3, JournalAssumption DEF NewJournal, TypeOK
<1>2. WindowExact  BY DEF NewJournal, WindowExact
<1>3. RetiredCleared  BY DEF NewJournal, RetiredCleared
<1> QED  BY <1>1, <1>2, <1>3 DEF IInv

LEMMA AppendIInv ==
    ASSUME IInv, NEW p \in Payloads, AppendPayload(p), AppendError(p) = "nil"
    PROVE  IInv'
<1> DEFINE n == Len(p)
           tail == (head + size) % Capacity
           first == MinOf(n, Capacity - tail)
<1>1. /\ Capacity \in Nat \ {0} /\ MaxSequence \in Nat
      /\ p \in Seq(Byte) /\ n \in Nat
      /\ \A i \in 1 .. n : p[i] \in Byte
  BY JournalAssumption
<1>2. /\ closed = FALSE /\ closed' = FALSE
      /\ size + n <= Capacity /\ end + n <= MaxSequence
      /\ buffer \in [Slots -> Byte \cup {Zero}] /\ head \in Slots
      /\ size = end - base /\ size \in 0 .. Capacity
      /\ base \in Nat /\ end \in Nat /\ base <= end
      /\ produced \in Seq(Byte) /\ end = Len(produced)
  BY <1>1 DEF IInv, TypeOK, AppendPayload, AppendError, Slots
<1>3. /\ buffer' = CopyIn(p) /\ head' = head /\ base' = base
      /\ size' = size + n /\ end' = end + n /\ produced' = produced \o p
  BY DEF AppendPayload, Return
<1>4. /\ tail \in Slots
      /\ head + size < Capacity => tail = head + size
      /\ head + size >= Capacity => tail = head + size - Capacity
  BY <1>2, SlotWrap
<1>5. /\ first \in Nat /\ first <= n /\ tail + first <= Capacity
      /\ first < n => tail + first = Capacity
  BY <1>1, <1>2, <1>4 DEF MinOf, Slots
<1>6. /\ produced' \in Seq(Byte) /\ Len(produced') = end + n
      /\ \A i \in 1 .. end : produced'[i] = produced[i]
      /\ \A i \in 1 .. n : produced'[end + i] = p[i]
  BY <1>1, <1>2, <1>3, ConcatBytes
<1>7. buffer' = [i \in Slots |->
                  IF i \in tail .. tail + first - 1 THEN p[i - tail + 1]
                  ELSE IF i < n - first THEN p[first + i + 1] ELSE buffer[i]]
  BY <1>3 DEF CopyIn
<1> HIDE DEF n, tail, first
<1>8. buffer' \in [Slots -> Byte \cup {Zero}]
  <2> SUFFICES ASSUME NEW i \in Slots PROVE buffer'[i] \in Byte \cup {Zero}
    BY <1>7
  <2>1. CASE i \in tail .. tail + first - 1
    <3>1. i - tail + 1 \in 1 .. n  BY <1>1, <1>4, <1>5, <2>1 DEF Slots
    <3> QED  BY <1>1, <1>7, <2>1, <3>1
  <2>2. CASE i \notin tail .. tail + first - 1 /\ i < n - first
    <3>1. first + i + 1 \in 1 .. n  BY <1>1, <1>5, <2>2 DEF Slots
    <3> QED  BY <1>1, <1>7, <2>2, <3>1
  <2>3. CASE i \notin tail .. tail + first - 1 /\ ~(i < n - first)
    BY <1>2, <1>7, <2>3
  <2> QED  BY <2>1, <2>2, <2>3
<1>9. n \in Nat /\ n \in 0 .. Capacity - size  BY <1>1, <1>2
<1>10. \A j \in 0 .. n - 1 :
         (head + (size + j)) % Capacity = IF j < first THEN tail + j ELSE j - first
  BY <1>2, <1>4, <1>5, <1>9, TailSlot DEF tail, first
<1>11. /\ head' = head /\ base' = base /\ size' = size + n /\ end' = end + n
       /\ closed' = FALSE
  BY <1>2, <1>3
<1>12. TypeOK'
  <2>1. end' \in 0 .. MaxSequence /\ base' \in Nat /\ base' <= end'
    BY <1>1, <1>2, <1>9, <1>11
  <2>2. produced' \in Seq(Byte) /\ end' = Len(produced')  BY <1>6, <1>11
  <2>3. head' \in Slots /\ size' = end' - base' /\ size' <= Capacity
    BY <1>2, <1>9, <1>11
  <2> QED  BY <1>8, <1>11, <2>1, <2>2, <2>3 DEF TypeOK
<1>13. WindowExact'
  <2>1. ASSUME NEW k \in 0 .. size + n - 1
        PROVE  buffer'[(head + k) % Capacity] = produced'[base + k + 1]
    <3>1. CASE k < size
      <4> DEFINE s == (head + k) % Capacity
      <4>1. /\ s \in Slots
            /\ head + k < Capacity => s = head + k
            /\ head + k >= Capacity => s = head + k - Capacity
        BY <1>1, <1>2, <1>9, SlotWrap
      <4>2. buffer[s] = produced[base + k + 1]
        BY <1>2, <3>1 DEF IInv, WindowExact
      <4> HIDE DEF s
      <4>3. s \notin tail .. tail + first - 1 /\ ~(s < n - first)
        BY <1>1, <1>2, <1>4, <1>5, <3>1, <4>1 DEF Slots
      <4>4. buffer'[s] = buffer[s]  BY <1>7, <4>1, <4>3
      <4>5. base + k + 1 \in 1 .. end  BY <1>2, <3>1
      <4> QED  BY <1>6, <4>2, <4>4, <4>5 DEF s
    <3>2. CASE k >= size
      <4>1. PICK j \in 0 .. n - 1 : k = size + j
        <5>1. k - size \in 0 .. n - 1 /\ k = size + (k - size)
          BY <1>2, <1>9, <3>2
        <5> QED  BY <5>1
      <4>2. base + k + 1 = end + (j + 1) /\ j + 1 \in 1 .. n  BY <1>2, <1>9, <4>1
      <4>3. produced'[base + k + 1] = p[j + 1]  BY <1>6, <4>2
      <4>4. CASE j < first
        <5>1. (head + k) % Capacity = tail + j  BY <1>10, <4>1, <4>4
        <5>2. /\ tail + j \in Slots /\ tail + j \in tail .. tail + first - 1
              /\ (tail + j) - tail + 1 = j + 1
          BY <1>1, <1>4, <1>5, <4>4 DEF Slots
        <5>3. buffer'[tail + j] = p[j + 1]  BY <1>7, <5>2
        <5> QED  BY <4>3, <5>1, <5>3
      <4>5. CASE ~(j < first)
        <5>1. (head + k) % Capacity = j - first  BY <1>10, <4>1, <4>5
        <5>2. /\ j - first \in Slots /\ j - first \notin tail .. tail + first - 1
              /\ j - first < n - first /\ first + (j - first) + 1 = j + 1
          BY <1>1, <1>2, <1>4, <1>5, <1>9, <4>5 DEF Slots
        <5>3. buffer'[j - first] = p[j + 1]  BY <1>7, <5>2
        <5> QED  BY <4>3, <5>1, <5>3
      <4> QED  BY <4>4, <4>5
    <3> QED  BY <1>2, <1>9, <3>1, <3>2
  <2>2. \A k \in 0 .. size' - 1 :
          buffer'[(head' + k) % Capacity] = produced'[base' + k + 1]
    <3> SUFFICES ASSUME NEW k \in 0 .. size' - 1
                 PROVE  buffer'[(head' + k) % Capacity] = produced'[base' + k + 1]
      OBVIOUS
    <3>1. k \in 0 .. size + n - 1  BY <1>2, <1>9, <1>11
    <3>2. buffer'[(head + k) % Capacity] = produced'[base + k + 1]  BY <2>1, <3>1
    <3> QED  BY <1>11, <3>2
  <2> QED  BY <2>2 DEF WindowExact
<1>14. RetiredCleared'
  <2>1. ASSUME NEW i \in Slots, buffer'[i] # Zero
        PROVE  \E k \in 0 .. size + n - 1 : i = (head + k) % Capacity
    <3>1. CASE i \in tail .. tail + first - 1
      <4>1. i - tail \in 0 .. n - 1 /\ i - tail < first /\ tail + (i - tail) = i
        BY <1>1, <1>4, <1>5, <3>1 DEF Slots
      <4>2. i = (head + (size + (i - tail))) % Capacity  BY <1>10, <4>1
      <4>3. size + (i - tail) \in 0 .. size + n - 1  BY <1>2, <1>9, <4>1
      <4> QED  BY <4>2, <4>3
    <3>2. CASE i \notin tail .. tail + first - 1 /\ i < n - first
      <4>1. first + i \in 0 .. n - 1 /\ ~(first + i < first) /\ (first + i) - first = i
        BY <1>1, <1>5, <3>2 DEF Slots
      <4>2. i = (head + (size + (first + i))) % Capacity  BY <1>10, <4>1
      <4>3. size + (first + i) \in 0 .. size + n - 1  BY <1>2, <1>9, <4>1
      <4> QED  BY <4>2, <4>3
    <3>3. CASE i \notin tail .. tail + first - 1 /\ ~(i < n - first)
      <4>1. buffer[i] # Zero  BY <1>7, <2>1, <3>3
      <4>2. PICK k \in 0 .. size - 1 : i = (head + k) % Capacity
        BY <1>2, <4>1 DEF IInv, RetiredCleared
      <4>3. k \in 0 .. size + n - 1  BY <1>2, <1>9
      <4> QED  BY <4>2, <4>3
    <3> QED  BY <3>1, <3>2, <3>3
  <2>2. \A i \in Slots : buffer'[i] # Zero =>
          \E k \in 0 .. size' - 1 : i = (head' + k) % Capacity
    <3> SUFFICES ASSUME NEW i \in Slots, buffer'[i] # Zero
                 PROVE  \E k \in 0 .. size' - 1 : i = (head' + k) % Capacity
      OBVIOUS
    <3>1. PICK k \in 0 .. size + n - 1 : i = (head + k) % Capacity  BY <2>1
    <3>2. k \in 0 .. size' - 1 /\ i = (head' + k) % Capacity
      BY <1>2, <1>9, <1>11, <3>1
    <3> QED  BY <3>2
  <2> QED  BY <2>2 DEF RetiredCleared
<1> QED  BY <1>12, <1>13, <1>14 DEF IInv

\* Advancing head by r and then by k is advancing it by r + k.
LEMMA SlotAdvance ==
    ASSUME NEW h \in Slots, NEW r \in 0 .. Capacity, NEW k \in 0 .. Capacity - r
    PROVE  (((h + r) % Capacity) + k) % Capacity = (h + (r + k)) % Capacity
<1>1. Capacity \in Nat \ {0}  BY JournalAssumption
<1>2. /\ h \in 0 .. Capacity - 1 /\ r \in Int /\ k \in 0 .. Capacity
      /\ r + k \in 0 .. Capacity
  BY <1>1 DEF Slots
<1> DEFINE t == (h + r) % Capacity
<1>3. /\ t \in Slots
      /\ h + r < Capacity => t = h + r
      /\ h + r >= Capacity => t = h + r - Capacity
  BY SlotWrap
<1> HIDE DEF t
<1>4. CASE h + r < Capacity
  <2>1. t + k = h + (r + k)  BY <1>2, <1>3, <1>4
  <2> QED  BY <2>1 DEF t
<1>5. CASE h + r >= Capacity
  <2>1. t \in Int /\ t = h + r - Capacity  BY <1>1, <1>3, <1>5 DEF Slots
  <2>2. t + k < Capacity /\ h + (r + k) >= Capacity
        /\ h + (r + k) - Capacity = t + k
    BY <1>1, <1>2, <1>5, <2>1
  <2>3. (t + k) % Capacity = t + k  BY <1>2, <1>3, <2>2, SlotWrap
  <2>4. (h + (r + k)) % Capacity = h + (r + k) - Capacity  BY <1>2, <2>2, SlotWrap
  <2> QED  BY <2>2, <2>3, <2>4 DEF t
<1> QED  BY <1>1, <1>2, <1>4, <1>5

\* clearLocked(h, r) overwrites exactly the slots of the first r bytes.
LEMMA SlotCleared ==
    ASSUME NEW h \in Slots, NEW r \in 1 .. Capacity, NEW k \in 0 .. Capacity - 1,
           NEW f \in Nat, f = MinOf(r, Capacity - h),
           NEW s \in Slots, s = (h + k) % Capacity
    PROVE  (s \in h .. h + f - 1 \/ s < r - f) <=> k < r
<1>1. Capacity \in Nat \ {0}  BY JournalAssumption
<1>2. /\ h \in 0 .. Capacity - 1 /\ r \in Int /\ k \in 0 .. Capacity
      /\ s \in 0 .. Capacity - 1
  BY <1>1 DEF Slots
<1>3. /\ h + k < Capacity => s = h + k
      /\ h + k >= Capacity => s = h + k - Capacity
  BY <1>2, SlotWrap
<1>4. f <= r /\ f <= Capacity - h /\ (f = r \/ f = Capacity - h)
  BY <1>1, <1>2 DEF MinOf
<1>5. CASE h + k < Capacity
  BY <1>1, <1>2, <1>3, <1>4, <1>5
<1>6. CASE h + k >= Capacity
  BY <1>1, <1>2, <1>3, <1>4, <1>6
<1> QED  BY <1>1, <1>2, <1>5, <1>6

LEMMA ReturnIInv ==
    ASSUME IInv, UNCHANGED <<stateVars, produced>>
    PROVE  IInv'
  BY DEF stateVars, IInv, TypeOK, WindowExact, RetiredCleared

LEMMA CloseIInv ==
    ASSUME IInv, Close
    PROVE  IInv'
  BY DEF Close, IInv, TypeOK, WindowExact, RetiredCleared

LEMMA AckIInv ==
    ASSUME IInv, NEW offset \in 0 .. MaxSequence, Ack(offset),
           OffsetError(offset) = "nil", offset # base
    PROVE  IInv'
<1> DEFINE r == offset - base
           f == MinOf(r, Capacity - head)
<1>1. /\ Capacity \in Nat \ {0} /\ MaxSequence \in Nat /\ offset \in Nat
  BY JournalAssumption
<1>2. /\ closed = FALSE /\ base <= offset /\ offset <= end
  <2>1. closed \in BOOLEAN /\ base \in Nat /\ end \in Nat
    BY <1>1 DEF IInv, TypeOK
  <2>2. ~closed /\ ~(offset < base) /\ ~(offset > end)  BY DEF OffsetError
  <2> QED  BY <1>1, <2>1, <2>2
<1>3. /\ buffer \in [Slots -> Byte \cup {Zero}] /\ head \in Slots
      /\ size = end - base /\ size \in 0 .. Capacity
      /\ base \in Nat /\ end \in Nat /\ end \in 0 .. MaxSequence /\ base <= end
      /\ produced \in Seq(Byte) /\ end = Len(produced)
  BY <1>1, <1>2 DEF IInv, TypeOK
<1>4. r \in 1 .. size /\ r \in 1 .. Capacity  BY <1>1, <1>2, <1>3
<1>5. /\ buffer' = Cleared(head, r)
      /\ head' = IF size = r THEN 0 ELSE (head + r) % Capacity
      /\ size' = size - r /\ base' = offset /\ end' = end /\ closed' = closed
      /\ produced' = produced
  BY <1>1, <1>3, <1>4 DEF Ack, Return
<1>6. buffer' = [i \in Slots |->
                  IF i \in head .. head + f - 1 \/ i < r - f THEN Zero ELSE buffer[i]]
  BY <1>5 DEF Cleared
<1>7. f \in Nat  BY <1>1, <1>3, <1>4 DEF MinOf, Slots
<1>8. base + r = offset  BY <1>1, <1>3
<1> DEFINE gone(i) == i \in head .. head + f - 1 \/ i < r - f
<1>9. \A k \in 0 .. size - 1 : /\ (head + k) % Capacity \in Slots
                               /\ gone((head + k) % Capacity) <=> k < r
  <2> SUFFICES ASSUME NEW k \in 0 .. size - 1
               PROVE  /\ (head + k) % Capacity \in Slots
                      /\ gone((head + k) % Capacity) <=> k < r
    OBVIOUS
  <2>1. k \in 0 .. Capacity - 1 /\ k \in 0 .. Capacity  BY <1>1, <1>3
  <2>2. (head + k) % Capacity \in Slots  BY <1>3, <2>1, SlotWrap
  <2> QED  BY <1>3, <1>4, <1>7, <2>1, <2>2, SlotCleared
<1>10. \A i \in Slots : buffer'[i] = IF gone(i) THEN Zero ELSE buffer[i]
  BY <1>6
<1> HIDE DEF r, f, gone
<1>11. \A k \in 0 .. size - r - 1 :
         (head' + k) % Capacity = (head + (r + k)) % Capacity
  <2> SUFFICES ASSUME NEW k \in 0 .. size - r - 1
               PROVE  (head' + k) % Capacity = (head + (r + k)) % Capacity
    OBVIOUS
  <2>1. size # r /\ k \in 0 .. Capacity - r /\ r \in 0 .. Capacity
    BY <1>1, <1>3, <1>4
  <2>2. head' = (head + r) % Capacity  BY <1>5, <2>1
  <2> QED  BY <1>3, <2>1, <2>2, SlotAdvance
<1>12. TypeOK'
  <2>1. buffer' \in [Slots -> Byte \cup {Zero}]  BY <1>3, <1>6, <1>10
  <2>2. 0 \in Slots /\ (head + r) % Capacity \in Slots
    <3>1. r \in 0 .. Capacity  BY <1>1, <1>4
    <3> QED  BY <1>1, <1>3, <3>1, SlotWrap DEF Slots
  <2>3. head' \in Slots  BY <1>5, <2>2
  <2>4. /\ base' \in Nat /\ end' \in 0 .. MaxSequence /\ base' <= end'
        /\ size' = end' - base' /\ size' <= Capacity
    BY <1>1, <1>2, <1>3, <1>4, <1>5, <1>8
  <2>5. produced' \in Seq(Byte) /\ end' = Len(produced')  BY <1>3, <1>5
  <2>6. closed' = FALSE  BY <1>2, <1>5
  <2> QED  BY <2>1, <2>3, <2>4, <2>5, <2>6 DEF TypeOK
<1>13. WindowExact'
  <2> SUFFICES ASSUME NEW k \in 0 .. size' - 1
               PROVE  buffer'[(head' + k) % Capacity] = produced'[base' + k + 1]
    BY DEF WindowExact
  <2>1. k \in 0 .. size - r - 1  BY <1>3, <1>4, <1>5
  <2> DEFINE m == r + k
  <2>2. m \in 0 .. size - 1 /\ ~(m < r) /\ base + m + 1 = offset + k + 1
    BY <1>1, <1>3, <1>4, <1>8, <2>1
  <2>3. (head' + k) % Capacity = (head + m) % Capacity  BY <1>11, <2>1
  <2> HIDE DEF m
  <2>4. buffer'[(head + m) % Capacity] = buffer[(head + m) % Capacity]
    BY <1>9, <1>10, <2>2
  <2>5. buffer[(head + m) % Capacity] = produced[base + m + 1]
    BY <1>2, <2>2 DEF IInv, WindowExact
  <2> QED  BY <1>5, <2>2, <2>3, <2>4, <2>5
<1>14. RetiredCleared'
  <2> SUFFICES ASSUME NEW i \in Slots, buffer'[i] # Zero
               PROVE  \E k \in 0 .. size' - 1 : i = (head' + k) % Capacity
    BY DEF RetiredCleared
  <2>1. buffer[i] # Zero /\ ~gone(i)  BY <1>10
  <2>2. PICK m \in 0 .. size - 1 : i = (head + m) % Capacity
    BY <1>2, <2>1 DEF IInv, RetiredCleared
  <2>3. ~(m < r)  BY <1>9, <2>1, <2>2
  <2> DEFINE k == m - r
  <2>4. k \in 0 .. size - r - 1 /\ k \in 0 .. size' - 1 /\ r + k = m
    BY <1>3, <1>4, <1>5, <2>3
  <2> HIDE DEF k
  <2>5. i = (head' + k) % Capacity  BY <1>11, <2>2, <2>4
  <2> QED  BY <2>4, <2>5
<1> QED  BY <1>12, <1>13, <1>14 DEF IInv

\* The inductive step: whatever call a goroutine makes next.
LEMMA StepIInv == IInv /\ [Next]_vars => IInv'
<1> SUFFICES ASSUME IInv, [Next]_vars PROVE IInv'  OBVIOUS
<1>1. ASSUME NEW p \in Payloads, AppendPayload(p) PROVE IInv'
  <2>1. CASE AppendError(p) = "nil"  BY <1>1, <2>1, AppendIInv
  <2>2. CASE AppendError(p) # "nil"
    BY <1>1, <2>2, ReturnIInv DEF AppendPayload, Return
  <2> QED  BY <2>1, <2>2
<1>2. ASSUME NEW offset \in 0 .. MaxSequence, Ack(offset) PROVE IInv'
  <2>1. CASE OffsetError(offset) = "nil" /\ offset # base
    BY <1>2, <2>1, AckIInv
  <2>2. CASE ~(OffsetError(offset) = "nil" /\ offset # base)
    <3>1. base \in Nat /\ offset \in Int  BY JournalAssumption DEF IInv, TypeOK
    <3> QED  BY <1>2, <2>2, <3>1, ReturnIInv DEF Ack, Return
  <2> QED  BY <2>1, <2>2
<1>3. CASE Close  BY <1>3, CloseIInv
<1>4. CASE UNCHANGED vars  BY <1>4, ReturnIInv DEF vars, stateVars
<1> QED  BY <1>1, <1>2, <1>3, <1>4 DEF Next

\* The strengthened invariant holds in every state of every behaviour.
THEOREM Inductive == Spec => []IInv
  BY InitIInv, StepIInv, PTL DEF Spec

\* Journal fields stay well typed, size always counts the bytes between base
\* and end, and the retained bytes never exceed the capacity the flow budgeted.
THEOREM TypeCorrect == Spec => []TypeOK
<1>1. IInv => TypeOK  BY DEF IInv
<1> QED  BY <1>1, Inductive, PTL

\* A slot of the circular buffer is non-zero only while its byte is still
\* unacknowledged: Ack retires bytes by overwriting them (journal.go:82-92).
THEOREM RetiredAreCleared == Spec => []RetiredCleared
<1>1. IInv => RetiredCleared  BY DEF IInv
<1> QED  BY <1>1, Inductive, PTL

LEMMA ReplayFromWindow == IInv => ReplayExact
<1> SUFFICES ASSUME IInv, ~closed,
                    NEW offset \in base .. end, NEW length \in 0 .. end - offset
             PROVE  ReplayBytes(offset, length) =
                      SubSeq(produced, offset + 1, offset + length)
  BY DEF ReplayExact
<1>1. /\ Capacity \in Nat \ {0} /\ head \in Slots
      /\ size = end - base /\ size \in 0 .. Capacity
      /\ base \in Nat /\ end \in Nat /\ base <= end
      /\ produced \in Seq(Byte) /\ end = Len(produced)
  BY JournalAssumption DEF IInv, TypeOK
<1> DEFINE z == offset - base
           start == (head + z) % Capacity
           first == MinOf(length, Capacity - start)
<1>2. /\ offset \in Nat /\ length \in Nat /\ offset + length <= end
      /\ z \in 0 .. Capacity /\ length \in 0 .. Capacity - z
      /\ z + length <= size /\ base + z = offset
  BY <1>1
<1>3. start \in Slots  BY <1>1, <1>2, SlotWrap
<1>4. first \in Nat  BY <1>1, <1>2, <1>3 DEF MinOf, Slots
<1>5. ReplayBytes(offset, length) =
        [i \in 1 .. length |->
           IF i <= first THEN buffer[start + i - 1] ELSE buffer[i - first - 1]]
  BY DEF ReplayBytes
<1>6. SubSeq(produced, offset + 1, offset + length) =
        [i \in 1 .. length |-> produced[offset + i]]
  BY <1>1, <1>2
<1>7. ASSUME NEW i \in 1 .. length
      PROVE  (IF i <= first THEN buffer[start + i - 1] ELSE buffer[i - first - 1])
               = produced[offset + i]
  <2>1. i - 1 \in 0 .. length - 1  BY <1>2
  <2>2. (head + (z + (i - 1))) % Capacity =
          IF i - 1 < first THEN start + (i - 1) ELSE (i - 1) - first
    BY <1>1, <1>2, <1>3, <1>4, <2>1, TailSlot
  <2> DEFINE k == z + (i - 1)
  <2>3. k \in 0 .. size - 1 /\ base + k + 1 = offset + i  BY <1>1, <1>2, <2>1
  <2>4. buffer[(head + k) % Capacity] = produced[base + k + 1]
    <3> HIDE DEF k
    <3> QED  BY <2>3 DEF IInv, WindowExact
  <2> HIDE DEF z, start, first
  <2>5. /\ i - 1 < first <=> i <= first
        /\ start + (i - 1) = start + i - 1
        /\ (i - 1) - first = i - first - 1
    BY <1>2, <1>3, <1>4 DEF Slots
  <2> QED  BY <2>2, <2>3, <2>4, <2>5
<1> HIDE DEF start, first
<1> QED  BY <1>5, <1>6, <1>7

\* Replay from any offset the journal still owns returns exactly the bytes the
\* producer appended there, however often the buffer wrapped around
\* (journal.go:98-120).
THEOREM ReplayIsExact == Spec => []ReplayExact
  BY ReplayFromWindow, Inductive, PTL

\* The whole promise of the journal, for every capacity, payload set and
\* sequence bound: well-formed offsets, exact replay, erased retired bytes.
THEOREM JournalCorrect == Spec => []JournalIsExact
  BY TypeCorrect, ReplayIsExact, RetiredAreCleared, PTL DEF JournalIsExact

\* What the refinement takes for the log's window: the bytes Replay would copy.
Window == IF closed THEN <<>> ELSE ReplayBytes(base, size)

\* The window is the part of the history between base and end.
HistoryWindow ==
    ~closed => /\ Window \in Seq(Byte) /\ Len(Window) = size
               /\ \A i \in 1 .. size : Window[i] = produced[base + i]

LEMMA WindowIsHistory == IInv => HistoryWindow
<1> SUFFICES ASSUME IInv, ~closed
             PROVE  /\ Window \in Seq(Byte) /\ Len(Window) = size
                    /\ \A i \in 1 .. size : Window[i] = produced[base + i]
  BY DEF HistoryWindow
<1>1. /\ base \in Nat /\ end \in Nat /\ base <= end /\ size = end - base
      /\ produced \in Seq(Byte) /\ end = Len(produced)
  BY JournalAssumption DEF IInv, TypeOK
<1>2. base \in base .. end /\ size \in 0 .. end - base /\ base + size = end  BY <1>1
<1>3. ReplayBytes(base, size) = SubSeq(produced, base + 1, base + size)
  BY <1>2, ReplayFromWindow DEF ReplayExact
<1>4. Window = SubSeq(produced, base + 1, end)  BY <1>2, <1>3 DEF Window
<1>5. SubSeq(produced, base + 1, end) = [i \in 1 .. size |-> produced[base + i]]
  BY <1>1
<1>6. \A i \in 1 .. size : base + i \in 1 .. Len(produced)  BY <1>1
<1> QED  BY <1>1, <1>4, <1>5, <1>6

LEMMA AppendRefines ==
    ASSUME IInv, IInv', NEW p \in Payloads, AppendPayload(p), AppendError(p) = "nil"
    PROVE  Log!LogAppend(p)
<1>1. /\ ~closed /\ closed' = closed /\ base' = base
      /\ size' = size + Len(p) /\ produced' = produced \o p
      /\ ~(Len(p) > Capacity - size) /\ ~(Len(p) > MaxSequence - end)
  BY DEF AppendPayload, AppendError, Return
<1>2. /\ Capacity \in Nat /\ MaxSequence \in Nat /\ p \in Seq(Byte) /\ Len(p) \in Nat
      /\ base \in Nat /\ end \in Nat /\ size \in Nat /\ size = end - base
      /\ produced \in Seq(Byte) /\ end = Len(produced)
  BY <1>1, JournalAssumption DEF IInv, TypeOK
<1>3. /\ Window \in Seq(Byte) /\ Len(Window) = size
      /\ \A i \in 1 .. size : Window[i] = produced[base + i]
  BY <1>1, WindowIsHistory DEF HistoryWindow
<1>4. /\ Window' \in Seq(Byte) /\ Len(Window') = size + Len(p)
      /\ \A i \in 1 .. size + Len(p) : Window'[i] = (produced \o p)[base + i]
  <2>1. HistoryWindow'  BY WindowIsHistory, PTL
  <2> QED  BY <1>1, <2>1 DEF HistoryWindow
<1>5. Window' = Window \o p
  <2>1. /\ Window \o p \in Seq(Byte) /\ Len(Window \o p) = size + Len(p)
        /\ \A i \in 1 .. size : (Window \o p)[i] = Window[i]
        /\ \A i \in 1 .. Len(p) : (Window \o p)[size + i] = p[i]
    <3>1. /\ Window \o p \in Seq(Byte) /\ Len(Window \o p) = Len(Window) + Len(p)
          /\ \A i \in 1 .. Len(Window) : (Window \o p)[i] = Window[i]
          /\ \A i \in 1 .. Len(p) : (Window \o p)[Len(Window) + i] = p[i]
      BY <1>2, <1>3, ConcatBytes
    <3> QED  BY <1>3, <3>1
  <2>2. ASSUME NEW i \in 1 .. size + Len(p) PROVE Window'[i] = (Window \o p)[i]
    <3>1. CASE i <= size
      <4>1. i \in 1 .. size /\ base + i \in 1 .. Len(produced)  BY <1>2, <3>1
      <4>2. (produced \o p)[base + i] = produced[base + i]  BY <1>2, <4>1, ConcatBytes
      <4> QED  BY <1>3, <1>4, <2>1, <4>1, <4>2
    <3>2. CASE i > size
      <4>1. PICK j \in 1 .. Len(p) : i = size + j
        <5>1. i - size \in 1 .. Len(p) /\ i = size + (i - size)  BY <1>2, <3>2
        <5> QED  BY <5>1
      <4>2. base + i = Len(produced) + j  BY <1>2, <4>1
      <4>3. (produced \o p)[base + i] = p[j]  BY <1>2, <4>2, ConcatBytes
      <4> QED  BY <1>4, <2>1, <4>1, <4>3
    <3>3. i <= size \/ i > size  BY <1>2
    <3> QED  BY <3>1, <3>2, <3>3
  <2> QED  BY <1>4, <2>1, <2>2, SeqEqual
<1>6. Len(Window) + Len(p) <= Capacity /\ base + Len(Window) + Len(p) <= MaxSequence
  BY <1>1, <1>2, <1>3
<1> QED  BY <1>1, <1>5, <1>6 DEF Log!LogAppend, Window

LEMMA AckRefines ==
    ASSUME IInv, IInv', NEW offset \in 0 .. MaxSequence, Ack(offset),
           OffsetError(offset) = "nil", offset # base
    PROVE  Log!LogAck(offset)
<1>1. /\ ~closed /\ ~(offset < base) /\ ~(offset > end)  BY DEF OffsetError
<1>2. /\ MaxSequence \in Nat /\ offset \in Nat
      /\ base \in Nat /\ end \in Nat /\ size \in Nat /\ size = end - base
      /\ produced \in Seq(Byte) /\ end = Len(produced)
  BY <1>1, JournalAssumption DEF IInv, TypeOK
<1>3. /\ closed' = closed /\ base' = offset /\ produced' = produced
      /\ size' = size - (offset - base)
  BY <1>1, <1>2 DEF Ack, Return
<1>4. /\ Window \in Seq(Byte) /\ Len(Window) = size
      /\ \A i \in 1 .. size : Window[i] = produced[base + i]
  BY <1>1, WindowIsHistory DEF HistoryWindow
<1>5. /\ Window' \in Seq(Byte) /\ Len(Window') = size - (offset - base)
      /\ \A i \in 1 .. size - (offset - base) : Window'[i] = produced[offset + i]
  <2>1. HistoryWindow'  BY WindowIsHistory, PTL
  <2> QED  BY <1>1, <1>3, <2>1 DEF HistoryWindow
<1>6. Window' = SubSeq(Window, offset - base + 1, Len(Window))
  <2> DEFINE r == offset - base
  <2>1. r \in Nat /\ r <= size /\ base + r = offset  BY <1>1, <1>2
  <2> HIDE DEF r
  <2>2. SubSeq(Window, r + 1, size) = [i \in 1 .. size - r |-> Window[r + i]]
    BY <1>2, <1>4, <2>1
  <2>3. ASSUME NEW i \in 1 .. size - r PROVE Window'[i] = Window[r + i]
    <3>1. r + i \in 1 .. size /\ base + (r + i) = offset + i  BY <1>2, <2>1
    <3> QED  BY <1>4, <1>5, <3>1 DEF r
  <2>4. Window' = [i \in 1 .. size - r |-> Window'[i]]
    <3>1. Len(Window') = size - r  BY <1>5 DEF r
    <3> QED  BY <1>5, <3>1
  <2>5. Window' = SubSeq(Window, r + 1, size)  BY <2>2, <2>3, <2>4
  <2> QED  BY <1>4, <2>5 DEF r
<1>7. offset \in base .. base + Len(Window)  BY <1>1, <1>2, <1>4
<1> QED  BY <1>1, <1>3, <1>6, <1>7 DEF Log!LogAck, Window

\* A refused call, or an acknowledgement that retires nothing, is a stutter of the log.
LEMMA ReturnRefines ==
    ASSUME UNCHANGED <<stateVars, produced>>
    PROVE  UNCHANGED Log!logVars
  BY DEF stateVars, Log!logVars, ReplayBytes

LEMMA StepRefines == IInv /\ IInv' /\ [Next]_vars => [Log!LogNext]_(Log!logVars)
<1> SUFFICES ASSUME IInv, IInv', [Next]_vars PROVE Log!LogNext \/ UNCHANGED Log!logVars
  OBVIOUS
<1>1. ASSUME NEW p \in Payloads, AppendPayload(p)
      PROVE  Log!LogNext \/ UNCHANGED Log!logVars
  <2>1. CASE AppendError(p) = "nil"  BY <1>1, <2>1, AppendRefines DEF Log!LogNext
  <2>2. CASE AppendError(p) # "nil"
    BY <1>1, <2>2, ReturnRefines DEF AppendPayload, Return
  <2> QED  BY <2>1, <2>2
<1>2. ASSUME NEW offset \in 0 .. MaxSequence, Ack(offset)
      PROVE  Log!LogNext \/ UNCHANGED Log!logVars
  <2>1. CASE OffsetError(offset) = "nil" /\ offset # base
    BY <1>2, <2>1, AckRefines DEF Log!LogNext
  <2>2. CASE ~(OffsetError(offset) = "nil" /\ offset # base)
    <3>1. base \in Nat /\ offset \in Int  BY JournalAssumption DEF IInv, TypeOK
    <3> QED  BY <1>2, <2>2, <3>1, ReturnRefines DEF Ack, Return
  <2> QED  BY <2>1, <2>2
<1>3. CASE Close
  <2>1. Log!LogClose  BY <1>3 DEF Close, Log!LogClose
  <2> QED  BY <2>1 DEF Log!LogNext
<1>4. CASE UNCHANGED vars  BY <1>4, ReturnRefines DEF vars, stateVars
<1> QED  BY <1>1, <1>2, <1>3, <1>4 DEF Next

LEMMA InitRefines == NewJournal => Log!LogInit
<1> SUFFICES ASSUME NewJournal PROVE Log!LogInit  OBVIOUS
<1>1. ReplayBytes(base, size) = <<>>
  <2>1. IInv /\ ~closed /\ size = 0  BY InitIInv DEF NewJournal
  <2>2. Window \in Seq(Byte) /\ Len(Window) = 0  BY <2>1, WindowIsHistory DEF HistoryWindow
  <2> QED  BY <2>1, <2>2 DEF Window
<1> QED  BY <1>1 DEF NewJournal, Log!LogInit

\* The ring buffer implements the abstract log of unacknowledged bytes: every
\* Append, Ack and Close is one of the log's, and nothing else changes what
\* Replay would return.
THEOREM JournalRefinesLog == Spec => RefinesReplayLog
<1>1. NewJournal => Log!LogInit  BY InitRefines
<1>2. IInv /\ IInv' /\ [Next]_vars => [Log!LogNext]_(Log!logVars)  BY StepRefines
<1> QED  BY <1>1, <1>2, Inductive, PTL DEF Spec, RefinesReplayLog, Log!LogSpec

-----------------------------------------------------------------------------
(* The databases.  GeoInv is the inductive invariant.                      *)

\* The shapes of the files and of an update under way.
Files     == [geoip : Nat, geosite : Nat]
GeoStages == {"idle", "local", "download", "geoip", "geosite", "undo", "peers", "asked",
              "restart", "done", "answer", "reloading"}
GeoSteps  == [pc : GeoStages, staged : Files, old : Files, ok : BOOLEAN]

GeoCounts == [updates : Nat, faults : Nat, cut : BOOLEAN, broken : SUBSET GeoNodes]

GeoTyped ==
    /\ release \in Nat
    /\ databases \in [GeoNodes -> Files] /\ matcher \in [GeoNodes -> Files]
    /\ updating \in [GeoNodes -> BOOLEAN]
    /\ update \in [Updaters -> GeoSteps]
    /\ geo \in GeoCounts

\* No update of the node's service was cut short.
Uncut(n) == ~(n = "edge" /\ geo.cut)
OnePair(f) == f.geoip = f.geosite

\* The directory lock has one holder.
Updates(u) == update[u].pc \in {"download", "geoip", "geosite", "undo"}
DirectoryLocked ==
    \A u \in Updaters : Updates(u) =>
        /\ updating[NodeOf(u)]
        /\ \A v \in Updaters : Updates(v) /\ NodeOf(v) = NodeOf(u) => v = u

\* What the holder has staged and kept, and what it has replaced so far.
Activates(d, s) ==
    /\ s.pc \in {"geoip", "geosite"} => OnePair(s.staged)
    /\ s.pc \in {"geoip", "geosite", "undo"} => OnePair(s.old) /\ d.geosite = s.old.geosite
    /\ s.pc = "geosite" => d.geoip = s.staged.geoip
FilesStaged ==
    \A u \in Updaters :
        /\ update[u].pc = "undo" => NodeOf(u) \in geo.broken
        /\ Uncut(NodeOf(u)) => Activates(databases[NodeOf(u)], update[u])

\* An updater that has yet to load the files it has replaced.
Pending(u) ==
    \/ update[u].pc = "geosite"
    \/ update[u].ok /\ update[u].pc \in {"peers", "asked", "restart", "answer", "reloading"}

\* The service matches with the files, or someone will still load them; a
\* reload that has read an older first file is followed by a restart.
Sound(n) == n \notin geo.broken /\ Uncut(n)
Followed ==
    /\ \A n \in GeoNodes : Sound(n) =>
         \/ matcher[n] = databases[n]
         \/ \E u \in Updaters : NodeOf(u) = n /\ Pending(u)
    /\ Sound("edge") /\ update[Handler].pc = "reloading" =>
         \/ update[Handler].staged.geoip = databases["edge"].geoip
         \/ Pending("edgetimer")

GeoInv == GeoTyped /\ DirectoryLocked /\ FilesStaged /\ PairIsWhole /\ Followed

\* The programs and nodes there are.
LEMMA Programs ==
    /\ \A u \in Updaters : NodeOf(u) \in GeoNodes
    /\ GeoPrograms \subseteq Updaters /\ Handler \in Updaters
    /\ \A p \in GeoPrograms : p # Handler
    /\ NodeOf(Handler) = "edge" /\ NodeOf("edgetimer") = "edge" /\ "edgetimer" \in Updaters
    /\ \A u \in Updaters : NodeOf(u) = "edge" => u = Handler \/ u = "edgetimer"
    /\ "edge" \in GeoNodes /\ \A u \in Updaters : u \in {"panel", "timer"} <=> NodeOf(u) = "master"
BY DEF Updaters, NodeOf, GeoNodes, GeoPrograms, Handler

\* Two updaters that have nothing loaded or staged stand the same.
LEMMA Blank == NoUpdate \in GeoSteps /\ NoUpdate.pc = "idle" /\ ~NoUpdate.ok
BY DEF NoUpdate, GeoSteps, Files, Pair, GeoStages

\* What Update returns to its caller.
LEMMA ReturnedIs ==
    ASSUME NEW u \in Updaters, NEW ok \in BOOLEAN
    PROVE  /\ Returned(u, ok) \in GeoSteps /\ Returned(u, ok).ok = ok
           /\ Returned(u, ok).pc \in {"answer", "peers", "restart"}
BY DEF Returned, NoUpdate, GeoSteps, Files, Pair, GeoStages

\* The databases start as one pair, loaded.
LEMMA GeoStarts == GeoInit => GeoInv
<1> SUFFICES ASSUME GeoInit PROVE GeoInv
  OBVIOUS
<1>1. GeoTyped
  BY Blank DEF GeoInit, GeoTyped, GeoCounts, Pair, Files
<1>2. DirectoryLocked /\ FilesStaged
  BY Blank DEF GeoInit, DirectoryLocked, FilesStaged, Updates, Activates
<1>3. PairIsWhole
  BY DEF GeoInit, PairIsWhole, Pair
<1>4. Followed
  BY Programs, Blank DEF GeoInit, Followed
<1>. QED
  BY <1>1, <1>2, <1>3, <1>4 DEF GeoInv

\* A step of one updater that leaves the files alone and needs no lock after it.
LEMMA IdleMove ==
    ASSUME GeoInv, NEW u \in Updaters, NEW s \in GeoSteps,
           update' = [update EXCEPT ![u] = s],
           update[u].pc \notin {"geosite", "undo"},
           s.pc \notin {"download", "geoip", "geosite", "undo", "reloading"},
           \/ ~Pending(u)
           \/ s.ok /\ s.pc \in {"peers", "asked", "restart"}
           \/ NodeOf(u) \in geo'.broken,
           updating' = updating \/ (Updates(u) /\ updating' = [updating EXCEPT ![NodeOf(u)] = FALSE]),
           geo' \in GeoCounts, geo'.cut = geo.cut, geo.broken \subseteq geo'.broken,
           UNCHANGED <<release, databases, matcher>>
    PROVE  GeoInv'
<1>0. GeoTyped /\ DirectoryLocked /\ FilesStaged /\ PairIsWhole /\ Followed /\ NodeOf(u) \in GeoNodes
  BY Programs DEF GeoInv
<1>1. GeoTyped'
  BY <1>0 DEF GeoTyped
<1>2. update'[u] = s /\ \A v \in Updaters : v # u => update'[v] = update[v]
  BY <1>0 DEF GeoTyped
<1>3. DirectoryLocked'
  <2>1. SUFFICES ASSUME NEW v \in Updaters, Updates(v)'
                 PROVE  /\ updating'[NodeOf(v)]
                        /\ \A w \in Updaters : Updates(w)' /\ NodeOf(w) = NodeOf(v) => w = v
    BY DEF DirectoryLocked
  <2>2. v # u /\ \A w \in Updaters : Updates(w)' => Updates(w)
    BY <1>2, <2>1 DEF Updates
  <2>3. updating[NodeOf(v)] /\ (Updates(u) => NodeOf(u) # NodeOf(v))
    BY <1>0, <2>1, <2>2 DEF DirectoryLocked
  <2>4. updating'[NodeOf(v)]
    BY <1>0, <2>3, Programs DEF GeoTyped
  <2>. QED
    BY <1>0, <2>1, <2>2, <2>4 DEF DirectoryLocked
<1>4. FilesStaged'
  BY <1>0, <1>2 DEF FilesStaged, Activates, Uncut
<1>5. PairIsWhole'
  BY <1>0, <1>2 DEF PairIsWhole, Activating
<1>6. \A v \in Updaters : Pending(v) => Pending(v)' \/ (v = u /\ NodeOf(u) \in geo'.broken)
  BY <1>2 DEF Pending
<1>7. \A n \in GeoNodes : Sound(n)' => Sound(n)
  BY DEF Sound, Uncut
<1>8. Followed'
  <2>1. ASSUME NEW n \in GeoNodes, Sound(n)'
        PROVE  matcher'[n] = databases'[n] \/ \E v \in Updaters : NodeOf(v) = n /\ Pending(v)'
    BY <1>0, <1>6, <1>7, <2>1 DEF Followed, Sound
  <2>2. ASSUME Sound("edge")', update'[Handler].pc = "reloading"
        PROVE  update'[Handler].staged.geoip = databases'["edge"].geoip \/ Pending("edgetimer")'
    BY <1>0, <1>2, <1>6, <1>7, <2>2, Programs DEF Followed, Sound
  <2>. QED
    BY <2>1, <2>2 DEF Followed
<1>. QED
  BY <1>1, <1>3, <1>4, <1>5, <1>8 DEF GeoInv

\* The steps of the operation that touch no file.
LEMMA GeoQuietKeeps ==
    ASSUME GeoInv,
           NewRelease \/ (\E n \in GeoNodes : GuardAges(n))
    PROVE  GeoInv'
<1>0. GeoTyped /\ DirectoryLocked /\ FilesStaged /\ PairIsWhole /\ Followed
  BY DEF GeoInv
<1>1. UNCHANGED <<databases, matcher, updating, update, geo>> /\ release' \in Nat
  BY <1>0 DEF NewRelease, GuardAges, GeoTyped
<1>2. GeoTyped' /\ DirectoryLocked'
  BY <1>0, <1>1 DEF GeoTyped, DirectoryLocked, Updates
<1>3. FilesStaged' /\ PairIsWhole'
  BY <1>0, <1>1 DEF FilesStaged, PairIsWhole, Activating, Uncut
<1>4. Followed'
  BY <1>0, <1>1 DEF Followed, Sound, Uncut, Pending
<1>. QED
  BY <1>2, <1>3, <1>4 DEF GeoInv

\* The steps that only move an updater on.
LEMMA MovesKeep ==
    ASSUME GeoInv,
           \/ \E p \in GeoPrograms : acquireGeoDataOrchestrationLock(p) \/ FinishUpdate(p)
           \/ \E p \in {"panel", "timer"} : Answered(p)
           \/ AnswerFailed
    PROVE  GeoInv'
<1>0. GeoTyped /\ Handler \in Updaters
  BY Programs DEF GeoInv
<1>1. ASSUME NEW p \in GeoPrograms, acquireGeoDataOrchestrationLock(p)
      PROVE  GeoInv'
  <2>1. p \in Updaters /\ update[p] \in GeoSteps /\ update[p].pc = "idle"
    BY <1>0, <1>1, Programs DEF GeoTyped, acquireGeoDataOrchestrationLock, AtStage
  <2>2. [update[p] EXCEPT !.pc = "local"] \in GeoSteps /\ [update[p] EXCEPT !.pc = "local"].pc = "local"
    BY <2>1 DEF GeoSteps, GeoStages
  <2>3. update' = [update EXCEPT ![p] = [update[p] EXCEPT !.pc = "local"]]
    BY <1>0, <1>1, <2>1 DEF acquireGeoDataOrchestrationLock, ToStage, GeoTyped
  <2>4. geo' \in GeoCounts /\ geo'.cut = geo.cut /\ geo'.broken = geo.broken
    BY <1>0, <1>1 DEF acquireGeoDataOrchestrationLock, GeoTyped, GeoCounts
  <2>5. UNCHANGED <<release, databases, matcher, updating>> /\ ~Pending(p)
    BY <1>1, <2>1 DEF acquireGeoDataOrchestrationLock, Pending
  <2>. QED
    BY <2>1, <2>2, <2>3, <2>4, <2>5, IdleMove
<1>2. ASSUME NEW p \in GeoPrograms, FinishUpdate(p)
      PROVE  GeoInv'
  <2>1. p \in Updaters /\ update[p].pc = "done"
    BY <1>2, Programs DEF FinishUpdate, AtStage
  <2>2. update' = [update EXCEPT ![p] = NoUpdate]
    BY <1>2 DEF FinishUpdate
  <2>3. UNCHANGED <<release, databases, matcher, updating, geo>> /\ ~Pending(p)
    BY <1>2, <2>1 DEF FinishUpdate, Pending
  <2>4. geo \in GeoCounts
    BY <1>0 DEF GeoTyped
  <2>. QED
    BY <2>1, <2>2, <2>3, <2>4, Blank, IdleMove
<1>3. ASSUME NEW p \in {"panel", "timer"}, Answered(p)
      PROVE  GeoInv'
  <2>1. p \in Updaters /\ update[p] \in GeoSteps /\ update[p].pc = "asked"
    BY <1>0, <1>3 DEF GeoTyped, Answered, AtStage, Updaters, GeoPrograms
  <2>2. [update[p] EXCEPT !.pc = "restart"] \in GeoSteps /\ [update[p] EXCEPT !.pc = "restart"].pc = "restart"
        /\ [update[p] EXCEPT !.pc = "restart"].ok = update[p].ok
    BY <2>1 DEF GeoSteps, GeoStages
  <2>3. update' = [update EXCEPT ![p] = [update[p] EXCEPT !.pc = "restart"]]
    BY <1>0, <1>3, <2>1 DEF Answered, ToStage, GeoTyped
  <2>4. geo \in GeoCounts /\ UNCHANGED <<release, databases, matcher, updating, geo>>
    BY <1>0, <1>3 DEF Answered, GeoTyped
  <2>5. ~Pending(p) \/ update[p].ok
    BY <2>1 DEF Pending
  <2>. QED
    BY <2>1, <2>2, <2>3, <2>4, <2>5, IdleMove
<1>4. ASSUME AnswerFailed
      PROVE  GeoInv'
  <2>1. update[Handler].pc = "answer" /\ ~update[Handler].ok
    BY <1>4 DEF AnswerFailed, AtStage
  <2>2. UNCHANGED <<release, databases, matcher, updating, geo>> /\ ~Pending(Handler)
        /\ update' = [update EXCEPT ![Handler] = NoUpdate] /\ geo \in GeoCounts
    BY <1>0, <1>4, <2>1 DEF AnswerFailed, Pending, GeoTyped
  <2>. QED
    BY <1>0, <2>1, <2>2, Blank, IdleMove
<1>. QED
  BY <1>1, <1>2, <1>3, <1>4

\* A fault is noted at the node it happened on.
LEMMA FaultNoted ==
    ASSUME GeoTyped, NEW u \in Updaters, GeoFault(u)
    PROVE  /\ geo' \in GeoCounts /\ geo'.cut = geo.cut /\ geo.broken \subseteq geo'.broken
           /\ NodeOf(u) \in geo'.broken
<1>1. NodeOf(u) \in GeoNodes /\ geo \in GeoCounts
  BY Programs DEF GeoTyped
<1>2. geo' = [geo EXCEPT !.faults = @ + 1, !.broken = @ \cup {NodeOf(u)}]
  BY DEF GeoFault
<1>3. geo.broken \cup {NodeOf(u)} \in SUBSET GeoNodes
  BY <1>1 DEF GeoCounts
<1>4. geo'.cut = geo.cut /\ geo'.broken = geo.broken \cup {NodeOf(u)}
  BY <1>1, <1>2 DEF GeoCounts
<1>5. geo' = [updates |-> geo.updates, faults |-> geo.faults + 1, cut |-> geo.cut,
              broken |-> geo.broken \cup {NodeOf(u)}]
  BY <1>1, <1>2 DEF GeoCounts
<1>6. geo' \in GeoCounts
  BY <1>1, <1>3, <1>5 DEF GeoCounts
<1>. QED
  BY <1>4, <1>6

\* Update returns an error with nothing activated.
LEMMA FailedUpdateKeeps ==
    ASSUME GeoInv, NEW u \in Updaters,
           update' = [update EXCEPT ![u] = Returned(u, FALSE)],
           \/ AtStage(u, "local") /\ UNCHANGED updating
           \/ /\ update[u].pc \in {"download", "geoip"}
              /\ updating' = [updating EXCEPT ![NodeOf(u)] = FALSE],
           UNCHANGED geo \/ GeoFault(u),
           UNCHANGED <<release, databases, matcher>>
    PROVE  GeoInv'
<1>1. GeoTyped
  BY DEF GeoInv
<1>2. geo' \in GeoCounts /\ geo'.cut = geo.cut /\ geo.broken \subseteq geo'.broken
  BY <1>1, FaultNoted DEF GeoTyped
<1>3. ~Pending(u) /\ update[u].pc \notin {"geosite", "undo"}
      /\ (UNCHANGED updating \/ (Updates(u) /\ updating' = [updating EXCEPT ![NodeOf(u)] = FALSE]))
  BY DEF Pending, Updates, AtStage
<1>4. Returned(u, FALSE) \in GeoSteps /\ Returned(u, FALSE).pc \in {"answer", "peers", "restart"}
  BY ReturnedIs
<1>. QED
  BY <1>2, <1>3, <1>4, IdleMove

\* The invariant follows from its parts.
LEMMA FromParts ==
    ASSUME GeoTyped', DirectoryLocked', FilesStaged', PairIsWhole', Followed'
    PROVE  GeoInv'
BY DEF GeoInv

\* An updater takes the lock of its directory, if nobody holds it.
LEMMA LockKeeps ==
    ASSUME GeoInv, NEW u \in Updaters, Lock(u)
    PROVE  GeoInv'
<1>0. GeoTyped /\ DirectoryLocked /\ FilesStaged /\ PairIsWhole /\ Followed /\ NodeOf(u) \in GeoNodes
  BY Programs DEF GeoInv
<1>1. CASE updating[NodeOf(u)]
  BY <1>1, FailedUpdateKeeps DEF Lock
<1>2. CASE ~updating[NodeOf(u)]
  <2>1. /\ update[u] \in GeoSteps /\ update[u].pc = "local"
        /\ updating' = [updating EXCEPT ![NodeOf(u)] = TRUE]
        /\ update' = [update EXCEPT ![u].pc = "download"]
        /\ UNCHANGED <<release, databases, matcher, geo>>
    BY <1>0, <1>2 DEF Lock, AtStage, ToStage, GeoTyped
  <2>2. update'[u].pc = "download" /\ \A v \in Updaters : v # u => update'[v] = update[v]
    BY <1>0, <2>1 DEF GeoTyped, GeoSteps
  <2>3. GeoTyped'
    <3>1. update' \in [Updaters -> GeoSteps]
      BY <1>0, <2>1 DEF GeoTyped, GeoSteps, GeoStages
    <3>. QED
      BY <1>0, <2>1, <3>1 DEF GeoTyped
  <2>4. DirectoryLocked'
    <3>1. \A v \in Updaters : Updates(v)' => v = u \/ (Updates(v) /\ NodeOf(v) # NodeOf(u))
      BY <1>0, <1>2, <2>2 DEF DirectoryLocked, Updates
    <3>2. \A v \in Updaters : Updates(v)' => updating'[NodeOf(v)]
      BY <1>0, <2>1, <3>1, Programs DEF DirectoryLocked, GeoTyped
    <3>. QED
      BY <1>0, <3>1, <3>2 DEF DirectoryLocked
  <2>5. FilesStaged' /\ PairIsWhole'
    BY <1>0, <2>1, <2>2 DEF FilesStaged, Activates, Uncut, PairIsWhole, Activating
  <2>6. \A v \in Updaters : Pending(v) => Pending(v)'
    BY <2>1, <2>2 DEF Pending
  <2>7. Followed'
    BY <1>0, <2>1, <2>2, <2>6, Programs DEF Followed, Sound, Uncut
  <2>. QED
    BY <2>3, <2>4, <2>5, <2>7, FromParts
<1>. QED
  BY <1>1, <1>2

\* A download stages one verified pair and keeps the files it will replace.
LEMMA DownloadKeeps ==
    ASSUME GeoInv, NEW u \in Updaters, Download(u)
    PROVE  GeoInv'
<1>0. GeoTyped /\ DirectoryLocked /\ FilesStaged /\ PairIsWhole /\ Followed /\ NodeOf(u) \in GeoNodes
      /\ update[u] \in GeoSteps /\ update[u].pc = "download"
  BY Programs DEF GeoInv, GeoTyped, Download, AtStage
<1>1. CASE update' = [update EXCEPT ![u] = Returned(u, FALSE)]
           /\ updating' = [updating EXCEPT ![NodeOf(u)] = FALSE]
  BY <1>0, <1>1, FailedUpdateKeeps DEF Download
<1>2. CASE update' = [update EXCEPT ![u].pc = "geoip", ![u].staged = Pair(release),
                                    ![u].old = databases[NodeOf(u)]]
           /\ UNCHANGED updating
  <2>1. UNCHANGED <<release, databases, matcher, updating, geo>>
    BY <1>2 DEF Download
  <2>2. /\ update'[u] = [update[u] EXCEPT !.pc = "geoip", !.staged = Pair(release),
                                          !.old = databases[NodeOf(u)]]
        /\ \A v \in Updaters : v # u => update'[v] = update[v]
    BY <1>0, <1>2 DEF GeoTyped
  <2>3. update'[u].pc = "geoip" /\ OnePair(update'[u].staged) /\ update'[u].old = databases[NodeOf(u)]
        /\ update'[u] \in GeoSteps
    <3>1. Pair(release) \in Files /\ OnePair(Pair(release)) /\ databases[NodeOf(u)] \in Files
      BY <1>0 DEF GeoTyped, Pair, OnePair, Files
    <3>. QED
      BY <1>0, <2>2, <3>1 DEF GeoSteps, GeoStages
  <2>4. GeoTyped'
    <3>1. update' \in [Updaters -> GeoSteps]
      BY <1>0, <1>2, <2>2, <2>3 DEF GeoTyped
    <3>. QED
      BY <1>0, <2>1, <3>1 DEF GeoTyped
  <2>5. \A v \in Updaters : Updates(v)' <=> Updates(v)
    BY <1>0, <2>2, <2>3 DEF Updates
  <2>6. DirectoryLocked'
    BY <1>0, <2>1, <2>5 DEF DirectoryLocked
  <2>7. Uncut(NodeOf(u)) => OnePair(databases[NodeOf(u)])
    <3>1. ~Activating(NodeOf(u))
      BY <1>0 DEF Activating, DirectoryLocked, Updates
    <3>. QED
      BY <1>0, <3>1 DEF PairIsWhole, Uncut, OnePair
  <2>8. FilesStaged'
    BY <1>0, <2>1, <2>2, <2>3, <2>7 DEF FilesStaged, Activates, Uncut
  <2>9. PairIsWhole'
    BY <1>0, <2>1, <2>2, <2>3 DEF PairIsWhole, Activating
  <2>10. \A v \in Updaters : Pending(v) => Pending(v)'
    BY <1>0, <2>2 DEF Pending
  <2>11. Followed'
    BY <1>0, <2>1, <2>2, <2>3, <2>10, Programs DEF Followed, Sound, Uncut
  <2>. QED
    BY <2>4, <2>6, <2>8, <2>9, <2>11, FromParts
<1>. QED
  BY <1>1, <1>2 DEF Download

\* While an updater holds the lock, no other activates files of its node.
LEMMA OthersAway ==
    ASSUME GeoInv, NEW u \in Updaters, Updates(u), NEW v \in Updaters, v # u, NodeOf(v) = NodeOf(u)
    PROVE  update[v].pc \notin {"download", "geoip", "geosite", "undo"}
BY DEF GeoInv, DirectoryLocked, Updates

\* The first file is replaced by the staged one, or the update fails.
LEMMA FirstFileKeeps ==
    ASSUME GeoInv, NEW u \in Updaters, ActivateGeoIP(u)
    PROVE  GeoInv'
<1>0. GeoTyped /\ DirectoryLocked /\ FilesStaged /\ PairIsWhole /\ Followed /\ NodeOf(u) \in GeoNodes
      /\ update[u] \in GeoSteps /\ update[u].pc = "geoip" /\ Updates(u)
  BY Programs DEF GeoInv, GeoTyped, ActivateGeoIP, AtStage, Updates
<1>1. CASE update' = [update EXCEPT ![u] = Returned(u, FALSE)] /\ GeoFault(u)
           /\ updating' = [updating EXCEPT ![NodeOf(u)] = FALSE] /\ UNCHANGED databases
  BY <1>0, <1>1, FailedUpdateKeeps DEF ActivateGeoIP
<1>2. CASE databases' = [databases EXCEPT ![NodeOf(u)].geoip = update[u].staged.geoip]
           /\ ToStage(u, "geosite") /\ UNCHANGED <<updating, geo>>
  <2>1. UNCHANGED <<release, matcher, updating, geo>>
    BY <1>2 DEF ActivateGeoIP
  <2>2. /\ update'[u] = [update[u] EXCEPT !.pc = "geosite"] /\ update'[u].pc = "geosite"
        /\ update'[u].staged = update[u].staged /\ update'[u].old = update[u].old
        /\ \A v \in Updaters : v # u => update'[v] = update[v]
        /\ update' \in [Updaters -> GeoSteps]
    BY <1>0, <1>2 DEF GeoTyped, ToStage, GeoSteps, GeoStages
  <2>3. /\ databases' \in [GeoNodes -> Files]
        /\ databases'[NodeOf(u)].geoip = update[u].staged.geoip
        /\ databases'[NodeOf(u)].geosite = databases[NodeOf(u)].geosite
        /\ \A n \in GeoNodes : n # NodeOf(u) => databases'[n] = databases[n]
    BY <1>0, <1>2 DEF GeoTyped, GeoSteps, Files
  <2>4. GeoTyped'
    BY <1>0, <2>1, <2>2, <2>3 DEF GeoTyped
  <2>5. \A v \in Updaters : Updates(v)' <=> Updates(v)
    BY <1>0, <2>2 DEF Updates
  <2>6. DirectoryLocked'
    BY <1>0, <2>1, <2>5 DEF DirectoryLocked
  <2>7. FilesStaged'
    <3>1. \A v \in Updaters : v # u /\ NodeOf(v) = NodeOf(u) =>
            update[v].pc \notin {"download", "geoip", "geosite", "undo"}
      BY <1>0, OthersAway
    <3>2. ASSUME NEW v \in Updaters, Uncut(NodeOf(v))
          PROVE  Activates(databases'[NodeOf(v)], update'[v])
      <4>1. CASE v = u
        BY <1>0, <2>2, <2>3, <3>2, <4>1 DEF FilesStaged, Activates
      <4>2. CASE v # u /\ NodeOf(v) = NodeOf(u)
        BY <2>2, <3>1, <4>2 DEF Activates
      <4>3. CASE NodeOf(v) # NodeOf(u)
        BY <1>0, <2>2, <2>3, <3>2, <4>3, Programs DEF FilesStaged
      <4>. QED
        BY <4>1, <4>2, <4>3
    <3>3. ASSUME NEW v \in Updaters, update'[v].pc = "undo" PROVE NodeOf(v) \in geo.broken
      BY <1>0, <2>2, <3>3 DEF FilesStaged
    <3>. QED
      BY <2>1, <3>2, <3>3 DEF FilesStaged, Uncut
  <2>8. PairIsWhole'
    BY <1>0, <2>1, <2>2, <2>3 DEF PairIsWhole, Activating
  <2>9. Pending(u)' /\ \A v \in Updaters : Pending(v) => Pending(v)'
    BY <1>0, <2>2 DEF Pending
  <2>10. Followed'
    <3>1. ASSUME NEW n \in GeoNodes, Sound(n)
          PROVE  matcher'[n] = databases'[n] \/ \E v \in Updaters : NodeOf(v) = n /\ Pending(v)'
      BY <1>0, <2>1, <2>3, <2>9, <3>1 DEF Followed
    <3>2. ASSUME Sound("edge"), update'[Handler].pc = "reloading"
          PROVE  update'[Handler].staged.geoip = databases'["edge"].geoip \/ Pending("edgetimer")'
      BY <1>0, <2>2, <2>3, <2>9, <3>2, Programs DEF Followed
    <3>. QED
      BY <2>1, <3>1, <3>2 DEF Followed, Sound, Uncut
  <2>. QED
    BY <2>4, <2>6, <2>7, <2>8, <2>10, FromParts
<1>. QED
  BY <1>1, <1>2 DEF ActivateGeoIP

\* The holder releases the directory lock.
LEMMA Unlocked ==
    ASSUME GeoTyped, DirectoryLocked, NEW u \in Updaters, Updates(u), ~Updates(u)',
           updating' = [updating EXCEPT ![NodeOf(u)] = FALSE],
           \A v \in Updaters : v # u => update'[v] = update[v]
    PROVE  DirectoryLocked' /\ updating' \in [GeoNodes -> BOOLEAN]
<1>1. \A v \in Updaters : Updates(v)' => Updates(v) /\ NodeOf(v) # NodeOf(u)
  BY DEF DirectoryLocked, Updates
<1>2. updating' \in [GeoNodes -> BOOLEAN] /\ \A n \in GeoNodes : n # NodeOf(u) => updating'[n] = updating[n]
  BY Programs DEF GeoTyped
<1>3. \A v \in Updaters : Updates(v)' => updating'[NodeOf(v)]
  BY <1>1, <1>2, Programs DEF DirectoryLocked
<1>. QED
  BY <1>1, <1>2, <1>3 DEF DirectoryLocked

\* A step that ends the activation of an updater leaves a whole pair.
LEMMA Activated ==
    ASSUME GeoInv, NEW u \in Updaters, Updates(u), UNCHANGED geo,
           update'[u].pc \notin {"download", "geoip", "geosite", "undo"},
           \A v \in Updaters : v # u => update'[v] = update[v],
           \A n \in GeoNodes : n # NodeOf(u) => databases'[n] = databases[n],
           Uncut(NodeOf(u)) => OnePair(databases'[NodeOf(u)])
    PROVE  FilesStaged' /\ PairIsWhole'
<1>0. GeoTyped /\ DirectoryLocked /\ FilesStaged /\ PairIsWhole
  BY DEF GeoInv
<1>1. \A v \in Updaters : v # u /\ NodeOf(v) = NodeOf(u) =>
        update[v].pc \notin {"download", "geoip", "geosite", "undo"}
  BY OthersAway
<1>2. ASSUME NEW v \in Updaters, Uncut(NodeOf(v))
      PROVE  Activates(databases'[NodeOf(v)], update'[v])
  <2>1. CASE NodeOf(v) = NodeOf(u)
    BY <1>1, <2>1 DEF Activates
  <2>2. CASE NodeOf(v) # NodeOf(u)
    BY <1>0, <1>2, <2>2, Programs DEF FilesStaged
  <2>. QED
    BY <2>1, <2>2
<1>3. ASSUME NEW v \in Updaters, update'[v].pc = "undo" PROVE NodeOf(v) \in geo.broken
  BY <1>0, <1>3 DEF FilesStaged
<1>4. FilesStaged'
  BY <1>2, <1>3 DEF FilesStaged, Uncut
<1>5. ASSUME NEW n \in GeoNodes, ~Activating(n)', Uncut(n)
      PROVE  databases'[n].geoip = databases'[n].geosite
  <2>1. CASE n = NodeOf(u)
    BY <1>5, <2>1 DEF OnePair
  <2>2. CASE n # NodeOf(u)
    BY <1>0, <1>5, <2>2 DEF PairIsWhole, Activating, Uncut
  <2>. QED
    BY <2>1, <2>2
<1>6. PairIsWhole'
  BY <1>5 DEF PairIsWhole, Uncut
<1>. QED
  BY <1>4, <1>6

\* The second file is replaced, or the first is about to be put back.
LEMMA SecondFileKeeps ==
    ASSUME GeoInv, NEW u \in Updaters, ActivateGeoSite(u)
    PROVE  GeoInv'
<1>0. GeoTyped /\ DirectoryLocked /\ FilesStaged /\ PairIsWhole /\ Followed /\ NodeOf(u) \in GeoNodes
      /\ update[u] \in GeoSteps /\ update[u].pc = "geosite" /\ Updates(u)
  BY Programs DEF GeoInv, GeoTyped, ActivateGeoSite, AtStage, Updates
<1>1. CASE databases' = [databases EXCEPT ![NodeOf(u)].geosite = update[u].staged.geosite]
           /\ update' = [update EXCEPT ![u] = Returned(u, TRUE)]
           /\ updating' = [updating EXCEPT ![NodeOf(u)] = FALSE] /\ UNCHANGED geo
  <2>1. UNCHANGED <<release, matcher, geo>>
    BY <1>1 DEF ActivateGeoSite
  <2>2. /\ update'[u] \in GeoSteps /\ update'[u].ok /\ update'[u].pc \in {"answer", "peers", "restart"}
        /\ \A v \in Updaters : v # u => update'[v] = update[v]
        /\ update' \in [Updaters -> GeoSteps]
    BY <1>0, <1>1, ReturnedIs DEF GeoTyped
  <2>3. /\ databases' \in [GeoNodes -> Files]
        /\ databases'[NodeOf(u)].geosite = update[u].staged.geosite
        /\ databases'[NodeOf(u)].geoip = databases[NodeOf(u)].geoip
        /\ \A n \in GeoNodes : n # NodeOf(u) => databases'[n] = databases[n]
    BY <1>0, <1>1 DEF GeoTyped, GeoSteps, Files
  <2>4. DirectoryLocked' /\ updating' \in [GeoNodes -> BOOLEAN]
    BY <1>0, <1>1, <2>2, Unlocked DEF Updates
  <2>5. GeoTyped'
    BY <1>0, <2>1, <2>2, <2>3, <2>4 DEF GeoTyped
  <2>6. Uncut(NodeOf(u)) => OnePair(databases'[NodeOf(u)])
    BY <1>0, <2>3 DEF FilesStaged, Activates, OnePair
  <2>7. FilesStaged' /\ PairIsWhole'
    BY <1>0, <2>1, <2>2, <2>3, <2>6, Activated
  <2>8. Pending(u)' /\ \A v \in Updaters : Pending(v) => Pending(v)'
    BY <2>2 DEF Pending
  <2>9. Followed'
    <3>1. ASSUME NEW n \in GeoNodes, Sound(n)
          PROVE  matcher'[n] = databases'[n] \/ \E v \in Updaters : NodeOf(v) = n /\ Pending(v)'
      BY <1>0, <2>1, <2>3, <2>8, <3>1 DEF Followed
    <3>2. ASSUME Sound("edge"), update'[Handler].pc = "reloading"
          PROVE  update'[Handler].staged.geoip = databases'["edge"].geoip \/ Pending("edgetimer")'
      BY <1>0, <2>2, <2>3, <2>8, <3>2, Programs DEF Followed
    <3>. QED
      BY <2>1, <3>1, <3>2 DEF Followed, Sound, Uncut
  <2>. QED
    BY <2>4, <2>5, <2>7, <2>9, FromParts
<1>2. CASE GeoFault(u) /\ ToStage(u, "undo") /\ UNCHANGED <<databases, updating>>
  <2>1. UNCHANGED <<release, matcher, databases, updating>>
    BY <1>2 DEF ActivateGeoSite
  <2>2. /\ geo' \in GeoCounts /\ geo'.cut = geo.cut /\ geo.broken \subseteq geo'.broken
        /\ NodeOf(u) \in geo'.broken
    BY <1>0, <1>2, FaultNoted
  <2>3. /\ update'[u] = [update[u] EXCEPT !.pc = "undo"] /\ update'[u].pc = "undo"
        /\ update'[u].old = update[u].old
        /\ \A v \in Updaters : v # u => update'[v] = update[v]
        /\ update' \in [Updaters -> GeoSteps]
    BY <1>0, <1>2 DEF GeoTyped, ToStage, GeoSteps, GeoStages
  <2>4. GeoTyped'
    BY <1>0, <2>1, <2>2, <2>3 DEF GeoTyped
  <2>5. \A v \in Updaters : Updates(v)' <=> Updates(v)
    BY <1>0, <2>3 DEF Updates
  <2>6. DirectoryLocked'
    BY <1>0, <2>1, <2>5 DEF DirectoryLocked
  <2>7. FilesStaged'
    BY <1>0, <2>1, <2>2, <2>3 DEF FilesStaged, Activates, Uncut
  <2>8. PairIsWhole'
    BY <1>0, <2>1, <2>2, <2>3 DEF PairIsWhole, Activating
  <2>9. \A v \in Updaters : v # u /\ Pending(v) => Pending(v)'
    BY <2>3 DEF Pending
  <2>10. \A n \in GeoNodes : Sound(n)' => Sound(n) /\ n # NodeOf(u)
    BY <2>2 DEF Sound, Uncut
  <2>11. Followed'
    <3>1. ASSUME NEW n \in GeoNodes, Sound(n)'
          PROVE  matcher'[n] = databases'[n] \/ \E v \in Updaters : NodeOf(v) = n /\ Pending(v)'
      BY <1>0, <2>1, <2>9, <2>10, <3>1 DEF Followed
    <3>2. ASSUME Sound("edge")', update'[Handler].pc = "reloading"
          PROVE  update'[Handler].staged.geoip = databases'["edge"].geoip \/ Pending("edgetimer")'
      BY <1>0, <2>1, <2>3, <2>9, <2>10, <3>2, Programs DEF Followed
    <3>. QED
      BY <3>1, <3>2 DEF Followed
  <2>. QED
    BY <2>4, <2>6, <2>7, <2>8, <2>11, FromParts
<1>. QED
  BY <1>1, <1>2 DEF ActivateGeoSite

\* The first file is put back, on a node where a fault is noted.
LEMMA UndoKeeps ==
    ASSUME GeoInv, NEW u \in Updaters, UndoGeoIP(u)
    PROVE  GeoInv'
<1>0. GeoTyped /\ DirectoryLocked /\ FilesStaged /\ PairIsWhole /\ Followed /\ NodeOf(u) \in GeoNodes
      /\ update[u] \in GeoSteps /\ update[u].pc = "undo" /\ Updates(u)
  BY Programs DEF GeoInv, GeoTyped, UndoGeoIP, AtStage, Updates
<1>1. UNCHANGED <<release, matcher, geo>> /\ updating' = [updating EXCEPT ![NodeOf(u)] = FALSE]
  BY DEF UndoGeoIP
<1>2. /\ update'[u] \in GeoSteps /\ update'[u].pc \in {"answer", "peers", "restart"}
      /\ \A v \in Updaters : v # u => update'[v] = update[v]
      /\ update' \in [Updaters -> GeoSteps]
  BY <1>0, ReturnedIs DEF GeoTyped, UndoGeoIP
<1>3. /\ databases' \in [GeoNodes -> Files]
      /\ databases'[NodeOf(u)].geoip = update[u].old.geoip
      /\ databases'[NodeOf(u)].geosite = databases[NodeOf(u)].geosite
      /\ \A n \in GeoNodes : n # NodeOf(u) => databases'[n] = databases[n]
  BY <1>0 DEF GeoTyped, GeoSteps, Files, UndoGeoIP
<1>4. DirectoryLocked' /\ updating' \in [GeoNodes -> BOOLEAN]
  BY <1>0, <1>1, <1>2, Unlocked DEF Updates
<1>5. GeoTyped'
  BY <1>0, <1>1, <1>2, <1>3, <1>4 DEF GeoTyped
<1>6. Uncut(NodeOf(u)) => OnePair(databases'[NodeOf(u)])
  BY <1>0, <1>3 DEF FilesStaged, Activates, OnePair
<1>7. FilesStaged' /\ PairIsWhole'
  BY <1>0, <1>1, <1>2, <1>3, <1>6, Activated
<1>8. \A v \in Updaters : v # u /\ Pending(v) => Pending(v)'
  BY <1>2 DEF Pending
<1>9. \A n \in GeoNodes : Sound(n)' => Sound(n) /\ n # NodeOf(u)
  BY <1>0, <1>1 DEF Sound, Uncut, FilesStaged
<1>10. Followed'
  <2>1. ASSUME NEW n \in GeoNodes, Sound(n)'
        PROVE  matcher'[n] = databases'[n] \/ \E v \in Updaters : NodeOf(v) = n /\ Pending(v)'
    BY <1>0, <1>1, <1>3, <1>8, <1>9, <2>1 DEF Followed
  <2>2. ASSUME Sound("edge")', update'[Handler].pc = "reloading"
        PROVE  update'[Handler].staged.geoip = databases'["edge"].geoip \/ Pending("edgetimer")'
    BY <1>0, <1>2, <1>3, <1>8, <1>9, <2>2, Programs DEF Followed
  <2>. QED
    BY <2>1, <2>2 DEF Followed
<1>. QED
  BY <1>4, <1>5, <1>7, <1>10, FromParts

\* The handler reads the first file of its reload.
LEMMA ReloadBegins ==
    ASSUME GeoInv, ReloadGeoIP
    PROVE  GeoInv'
<1>0. GeoTyped /\ DirectoryLocked /\ FilesStaged /\ PairIsWhole /\ Followed
      /\ Handler \in Updaters /\ update[Handler] \in GeoSteps
      /\ update[Handler].pc = "answer" /\ update[Handler].ok
  BY Programs DEF GeoInv, GeoTyped, ReloadGeoIP, AtStage
<1>1. CASE GeoFault(Handler) /\ update' = [update EXCEPT ![Handler] = NoUpdate]
  <2>1. UNCHANGED <<release, databases, matcher, updating>>
    BY DEF ReloadGeoIP
  <2>2. /\ geo' \in GeoCounts /\ geo'.cut = geo.cut /\ geo.broken \subseteq geo'.broken
        /\ NodeOf(Handler) \in geo'.broken
    BY <1>0, <1>1, FaultNoted
  <2>. QED
    BY <1>0, <1>1, <2>1, <2>2, Blank, IdleMove
<1>2. CASE update' = [update EXCEPT ![Handler].pc = "reloading", ![Handler].staged = databases["edge"]]
           /\ UNCHANGED geo
  <2>1. UNCHANGED <<release, databases, matcher, updating, geo>>
    BY <1>2 DEF ReloadGeoIP
  <2>2. /\ update'[Handler] = [update[Handler] EXCEPT !.pc = "reloading", !.staged = databases["edge"]]
        /\ \A v \in Updaters : v # Handler => update'[v] = update[v]
    BY <1>0, <1>2 DEF GeoTyped
  <2>3. /\ update'[Handler] \in GeoSteps /\ update'[Handler].pc = "reloading" /\ update'[Handler].ok
        /\ update'[Handler].staged = databases["edge"]
    <3>1. databases["edge"] \in Files
      BY <1>0, Programs DEF GeoTyped
    <3>. QED
      BY <1>0, <2>2, <3>1 DEF GeoSteps, GeoStages
  <2>4. GeoTyped'
    <3>1. update' \in [Updaters -> GeoSteps]
      BY <1>0, <1>2, <2>2, <2>3 DEF GeoTyped
    <3>. QED
      BY <1>0, <2>1, <3>1 DEF GeoTyped
  <2>5. DirectoryLocked'
    BY <1>0, <2>1, <2>2, <2>3 DEF DirectoryLocked, Updates
  <2>6. FilesStaged'
    BY <1>0, <2>1, <2>2, <2>3 DEF FilesStaged, Activates, Uncut
  <2>7. PairIsWhole'
    BY <1>0, <2>1, <2>2, <2>3 DEF PairIsWhole, Activating
  <2>8. \A v \in Updaters : Pending(v) => Pending(v)'
    BY <2>2, <2>3 DEF Pending
  <2>9. Followed'
    BY <1>0, <2>1, <2>3, <2>8 DEF Followed, Sound, Uncut
  <2>. QED
    BY <2>4, <2>5, <2>6, <2>7, <2>9, FromParts
<1>. QED
  BY <1>1, <1>2 DEF ReloadGeoIP

\* The handler's service matches with the first file read and the second.
LEMMA ReloadEnds ==
    ASSUME GeoInv, ReloadGeoSite
    PROVE  GeoInv'
<1>0. GeoTyped /\ DirectoryLocked /\ FilesStaged /\ PairIsWhole /\ Followed
      /\ Handler \in Updaters /\ update[Handler] \in GeoSteps /\ update[Handler].pc = "reloading"
  BY Programs DEF GeoInv, GeoTyped, ReloadGeoSite, AtStage
<1>1. UNCHANGED <<release, databases, updating, geo>>
  BY DEF ReloadGeoSite
<1>2. update'[Handler] = NoUpdate /\ \A v \in Updaters : v # Handler => update'[v] = update[v]
  BY <1>0 DEF GeoTyped, ReloadGeoSite
<1>3. /\ matcher' \in [GeoNodes -> Files]
      /\ matcher'["edge"] = [geoip |-> update[Handler].staged.geoip, geosite |-> databases["edge"].geosite]
      /\ \A n \in GeoNodes : n # "edge" => matcher'[n] = matcher[n]
  BY <1>0, Programs DEF GeoTyped, ReloadGeoSite, GeoSteps, Files
<1>4. GeoTyped'
  <2>1. update' \in [Updaters -> GeoSteps]
    BY <1>0, Blank DEF GeoTyped, ReloadGeoSite
  <2>. QED
    BY <1>0, <1>1, <1>3, <2>1 DEF GeoTyped
<1>5. DirectoryLocked'
  BY <1>0, <1>1, <1>2, Blank DEF DirectoryLocked, Updates
<1>6. FilesStaged'
  BY <1>0, <1>1, <1>2, Blank DEF FilesStaged, Activates, Uncut
<1>7. PairIsWhole'
  BY <1>0, <1>1, <1>2, Blank DEF PairIsWhole, Activating
<1>8. \A v \in Updaters : v # Handler /\ Pending(v) => Pending(v)'
  BY <1>2 DEF Pending
<1>9. Followed'
  <2>1. ASSUME Sound("edge")
        PROVE  matcher'["edge"] = databases["edge"] \/ Pending("edgetimer")'
    <3>1. CASE Pending("edgetimer")
      BY <1>8, <3>1, Programs DEF Handler
    <3>2. CASE update[Handler].staged.geoip = databases["edge"].geoip
      <4>1. databases["edge"] \in Files
        BY <1>0, Programs DEF GeoTyped
      <4>. QED
        BY <1>3, <3>2, <4>1 DEF Files
    <3>. QED
      BY <1>0, <2>1, <3>1, <3>2 DEF Followed
  <2>2. ASSUME NEW n \in GeoNodes, Sound(n), n # "edge"
        PROVE  matcher'[n] = databases[n] \/ \E v \in Updaters : NodeOf(v) = n /\ Pending(v)'
    BY <1>0, <1>3, <1>8, <2>2, Programs DEF Followed
  <2>3. update'[Handler].pc # "reloading"
    BY <1>2, Blank
  <2>. QED
    BY <1>1, <2>1, <2>2, <2>3, Programs DEF Followed, Sound, Uncut
<1>. QED
  BY <1>4, <1>5, <1>6, <1>7, <1>9, FromParts

\* A restart loads the files and ends what the service was doing.
LEMMA RestartKeeps ==
    ASSUME GeoInv, NEW p \in GeoPrograms, RestartService(p)
    PROVE  GeoInv'
<1>0. GeoTyped /\ DirectoryLocked /\ FilesStaged /\ PairIsWhole /\ Followed
      /\ Handler \in Updaters /\ p \in Updaters /\ p # Handler /\ NodeOf(p) \in GeoNodes
      /\ update[p] \in GeoSteps /\ update[p].pc = "restart" /\ geo \in GeoCounts
      /\ UNCHANGED <<release, databases, updating>>
  BY Programs DEF GeoInv, GeoTyped, RestartService, AtStage
<1> DEFINE done == [update[p] EXCEPT !.pc = "done"]
<1>1. done \in GeoSteps /\ done.pc = "done" /\ ~Pending(p) = ~update[p].ok
  BY <1>0 DEF GeoSteps, GeoStages, Pending
<1>2. CASE ToStage(p, "done") /\ UNCHANGED matcher /\ ((~update[p].ok /\ UNCHANGED geo) \/ GeoFault(p))
  <2>1. update' = [update EXCEPT ![p] = done]
    BY <1>0, <1>2 DEF ToStage, GeoTyped
  <2>2. /\ geo' \in GeoCounts /\ geo'.cut = geo.cut /\ geo.broken \subseteq geo'.broken
        /\ ~Pending(p) \/ NodeOf(p) \in geo'.broken
    BY <1>0, <1>1, <1>2, FaultNoted
  <2>. HIDE DEF done
  <2>. QED
    BY <1>0, <1>1, <1>2, <2>1, <2>2, IdleMove
<1>3. CASE /\ matcher' = [matcher EXCEPT ![NodeOf(p)] = databases[NodeOf(p)]]
           /\ geo' = [geo EXCEPT !.cut = @ \/ (NodeOf(p) = "edge" /\ Updates(Handler))]
           /\ update' = [update EXCEPT ![p].pc = "done",
                           ![Handler] = IF NodeOf(p) = "edge" THEN NoUpdate ELSE @]
  <2>1. /\ update'[p] = done
        /\ update'[Handler] = IF NodeOf(p) = "edge" THEN NoUpdate ELSE update[Handler]
        /\ \A v \in Updaters : v # p /\ v # Handler => update'[v] = update[v]
        /\ update' = [v \in Updaters |-> update'[v]]
    BY <1>0, <1>3 DEF GeoTyped
  <2>2. /\ geo' \in GeoCounts /\ geo'.broken = geo.broken
        /\ geo'.cut <=> geo.cut \/ (NodeOf(p) = "edge" /\ Updates(Handler))
    BY <1>0, <1>3 DEF GeoCounts, Updates
  <2>3. /\ matcher' \in [GeoNodes -> Files] /\ matcher'[NodeOf(p)] = databases[NodeOf(p)]
        /\ \A n \in GeoNodes : n # NodeOf(p) => matcher'[n] = matcher[n]
    BY <1>0, <1>3 DEF GeoTyped
  <2> HIDE DEF done
  <2>4. GeoTyped'
    <3>1. \A v \in Updaters : update'[v] \in GeoSteps
      BY <1>0, <1>1, <2>1, Blank DEF GeoTyped
    <3>. QED
      BY <1>0, <2>1, <2>2, <2>3, <3>1 DEF GeoTyped
  <2>5. \A v \in Updaters : v # Handler \/ NodeOf(p) # "edge" =>
          /\ update'[v] = update[v] \/ (v = p /\ update'[v].pc = "done")
          /\ v # p => update'[v] = update[v]
    BY <1>1, <2>1
  <2>6. \A v \in Updaters : Updates(v)' => Updates(v) /\ update'[v] = update[v]
    BY <1>1, <2>1, Blank DEF Updates
  <2>7. DirectoryLocked'
    BY <1>0, <2>6 DEF DirectoryLocked
  <2>8. FilesStaged'
    <3>1. ASSUME NEW v \in Updaters, update'[v].pc \in {"geoip", "geosite", "undo"}
          PROVE  update'[v] = update[v]
      BY <2>6, <3>1 DEF Updates
    <3>2. \A n : Uncut(n)' => Uncut(n)
      BY <2>2 DEF Uncut
    <3>. QED
      BY <1>0, <2>2, <3>1, <3>2 DEF FilesStaged, Activates
  <2>9. PairIsWhole'
    <3>1. ASSUME NEW n \in GeoNodes, ~Activating(n)', Uncut(n)'
          PROVE  ~Activating(n) /\ Uncut(n)
      BY <1>0, <2>1, <2>2, <3>1, Programs DEF Activating, Uncut, Updates
    <3>. QED
      BY <1>0, <3>1 DEF PairIsWhole, Uncut
  <2>10. Followed'
    <3>1. ASSUME NEW n \in GeoNodes, Sound(n)', n # NodeOf(p)
          PROVE  matcher'[n] = databases'[n] \/ \E v \in Updaters : NodeOf(v) = n /\ Pending(v)'
      <4>1. \A v \in Updaters : NodeOf(v) = n => update'[v] = update[v]
        BY <1>0, <2>1, <3>1, Programs DEF GeoNodes
      <4>2. Sound(n)
        BY <2>2, <3>1 DEF Sound, Uncut
      <4>. QED
        BY <1>0, <2>3, <3>1, <4>1, <4>2 DEF Followed, Pending
    <3>2. ASSUME Sound("edge")', update'[Handler].pc = "reloading"
          PROVE  update'[Handler].staged.geoip = databases'["edge"].geoip \/ Pending("edgetimer")'
      <4>1. NodeOf(p) # "edge" /\ update'[Handler] = update[Handler] /\ update'["edgetimer"] = update["edgetimer"]
        BY <2>1, <3>2, Blank, Programs DEF Handler
      <4>2. Sound("edge")
        BY <2>2, <3>2 DEF Sound, Uncut
      <4>. QED
        BY <1>0, <3>2, <4>1, <4>2 DEF Followed, Pending
    <3>. QED
      BY <1>0, <2>3, <3>1, <3>2 DEF Followed
  <2>. QED
    BY <2>4, <2>7, <2>8, <2>9, <2>10, FromParts
<1>. QED
  BY <1>0, <1>2, <1>3 DEF RestartService, Updates

\* The master asks the edge, whose handler begins an update of its own.
LEMMA AskKeeps ==
    ASSUME GeoInv, NEW p \in {"panel", "timer"}, AskEdge(p)
    PROVE  GeoInv'
<1>0. GeoTyped /\ DirectoryLocked /\ FilesStaged /\ PairIsWhole /\ Followed
      /\ Handler \in Updaters /\ p \in Updaters /\ p # Handler /\ geo \in GeoCounts
      /\ update[p] \in GeoSteps /\ update[p].pc = "peers" /\ update[Handler] \in GeoSteps
      /\ UNCHANGED <<release, databases, matcher, updating, geo>>
  BY Programs DEF GeoInv, GeoTyped, AskEdge, AtStage, Updaters, GeoPrograms, Handler
<1>1. CASE ToStage(p, "restart")
  <2> DEFINE s == [update[p] EXCEPT !.pc = "restart"]
  <2>1. update' = [update EXCEPT ![p] = s] /\ s \in GeoSteps /\ s.pc = "restart" /\ s.ok = update[p].ok
    BY <1>0, <1>1 DEF ToStage, GeoTyped, GeoSteps, GeoStages
  <2>2. ~Pending(p) \/ s.ok
    BY <1>0, <2>1 DEF Pending
  <2>. HIDE DEF s
  <2>. QED
    BY <1>0, <2>1, <2>2, IdleMove
<1>2. CASE AtStage(Handler, "idle")
           /\ update' = [update EXCEPT ![p].pc = "asked", ![Handler].pc = "local"]
  <2>1. /\ update'[p] = [update[p] EXCEPT !.pc = "asked"]
        /\ update'[Handler] = [update[Handler] EXCEPT !.pc = "local"]
        /\ \A v \in Updaters : v # p /\ v # Handler => update'[v] = update[v]
        /\ update' = [v \in Updaters |-> update'[v]]
    BY <1>0, <1>2 DEF GeoTyped
  <2>2. /\ update'[p] \in GeoSteps /\ update'[p].pc = "asked" /\ update'[p].ok = update[p].ok
        /\ update'[Handler] \in GeoSteps /\ update'[Handler].pc = "local"
        /\ update[Handler].pc = "idle"
    BY <1>0, <1>2, <2>1 DEF GeoSteps, GeoStages, AtStage
  <2>3. GeoTyped'
    BY <1>0, <2>1, <2>2 DEF GeoTyped
  <2>4. DirectoryLocked'
    BY <1>0, <2>1, <2>2 DEF DirectoryLocked, Updates
  <2>5. FilesStaged'
    BY <1>0, <2>1, <2>2 DEF FilesStaged, Activates, Uncut
  <2>6. PairIsWhole'
    BY <1>0, <2>1, <2>2 DEF PairIsWhole, Activating
  <2>7. \A v \in Updaters : Pending(v) => Pending(v)'
    BY <1>0, <2>1, <2>2 DEF Pending
  <2>8. Followed'
    BY <1>0, <2>2, <2>7 DEF Followed, Sound, Uncut
  <2>. QED
    BY <2>3, <2>4, <2>5, <2>6, <2>8, FromParts
<1>. QED
  BY <1>1, <1>2 DEF AskEdge

\* The invariant is inductive.
LEMMA GeoPreserved ==
    ASSUME GeoInv, [GeoNext]_geoVars
    PROVE  GeoInv'
<1>1. CASE UNCHANGED geoVars
  <2>1. UNCHANGED <<release, databases, matcher, updating, update, geo>>
    BY <1>1 DEF geoVars
  <2>. QED
    BY <2>1, Zenon DEF GeoInv, GeoTyped, DirectoryLocked, FilesStaged, PairIsWhole, Followed, Updates,
                Activating, Sound, Uncut, Pending
<1>2. CASE GeoNext
  <2>1. \A u \in Updaters : UpdateSteps(u) => GeoInv'
    BY LockKeeps, DownloadKeeps, FirstFileKeeps, SecondFileKeeps, UndoKeeps DEF UpdateSteps
  <2>. QED
    BY <1>2, <2>1, GeoQuietKeeps, MovesKeep, RestartKeeps, AskKeeps, ReloadBegins, ReloadEnds DEF GeoNext
<1>. QED
  BY <1>1, <1>2

\* For every number of releases, updates and faults: a directory that no update is
\* activating holds two files of one release, and a node at rest without a fault
\* matches with the files on its disk, however the timers, the panel and the edge's
\* handler overlap (activatePair, Reload, runGeoDataOperation).
THEOREM GeoWhole == GeoSpec => []DatabasesAreWhole
<1>1. GeoInv => DatabasesAreWhole
  <2> SUFFICES ASSUME GeoInv PROVE PairIsWhole /\ MatcherFollowsFiles
    BY DEF DatabasesAreWhole
  <2>1. PairIsWhole /\ Followed
    BY DEF GeoInv
  <2>2. MatcherFollowsFiles
    BY <2>1 DEF MatcherFollowsFiles, Resting, Followed, Sound, Uncut, Pending
  <2>. QED
    BY <2>1, <2>2
<1>. QED
  BY <1>1, GeoStarts, GeoPreserved, PTL DEF GeoSpec

-----------------------------------------------------------------------------
(* The relay of one association.                                           *)

Peers == [pc : {"read", "got", "write", "route", "insert", "forward", "done"},
          target : Targets \cup {NoTarget}, size : Nat, count : Nat]

PeerTyped ==
    /\ peer \in Peers
    /\ peer.pc \in {"got", "write", "route", "insert", "forward"} => peer.target \in Targets

\* The first reply of an address is remembered with what the client had sent
\* by then, and the address has `replied` ever after.
AllowanceKept(t) ==
    IF t \in DOMAIN allowed /\ allowed[t].replied
    THEN \E n \in Nat, b \in Nat : /\ replies[t] = {<<n, b>>} /\ n <= Mtu + 3 * b
                                   /\ b <= allowed[t].bytes
    ELSE replies[t] = {}

DirectInv ==
    /\ DOMAIN allowed \subseteq seen \cap Targets
    /\ allowed = [t \in DOMAIN allowed |-> allowed[t]]
    /\ \A t \in DOMAIN allowed : allowed[t] \in [bytes : Nat, replied : BOOLEAN]
    /\ replies = [t \in Targets |-> replies[t]]
    /\ \A t \in Targets : AllowanceKept(t)

\* A stream is entered in the map or is in the reader's hand; the ones in the
\* map are closed by the clean-up, but for those entered after it.
RoutedInv ==
    /\ routes \subseteq Targets /\ IsFiniteSet(routes) /\ Cardinality(routes) <= MaxTargets
    /\ peer.pc \in {"route", "insert"} =>
         peer.target \notin routes /\ Cardinality(routes) < MaxTargets
    /\ links \in [Targets -> SUBSET {"open", "worker"}]
    /\ \A t \in Targets \ routes : links[t] # {} => peer.pc = "insert" /\ peer.target = t
    /\ main \in {"run", "cleanup", "wait", "done"}
    /\ main \in {"wait", "done"} => \A t \in routes \ late : "open" \notin links[t]
    /\ main = "done" => peer.pc = "done" /\ \A t \in Targets : "worker" \notin links[t]

UdpInv == PeerTyped /\ DirectInv /\ RoutedInv

\* A relay starts in a state of the invariant.
LEMMA UdpStarts == UdpInit => UdpInv
<1> SUFFICES ASSUME UdpInit PROVE UdpInv
  OBVIOUS
<1>1. PeerTyped
  BY DEF UdpInit, PeerTyped, Peers
<1>2. DirectInv
  BY DEF UdpInit, DirectInv, AllowanceKept
<1>3. IsFiniteSet({}) /\ Cardinality({}) = 0
  BY FS_EmptySet
<1>4. RoutedInv
  BY <1>3, UdpBounds DEF UdpInit, RoutedInv
<1>. QED
  BY <1>1, <1>2, <1>4 DEF UdpInv

\* The reader goes on to the next datagram, to another stage, or ends.
LEMMA PeerMoves ==
    ASSUME PeerTyped
    PROVE  /\ NextDatagram(peer) \in Peers /\ NextDatagram(peer).pc = "read"
           /\ \A pc \in {"write", "route", "insert", "forward", "done"} :
                 LET p == [peer EXCEPT !.pc = pc] IN
                 p \in Peers /\ p.pc = pc /\ p.target = peer.target
BY DEF PeerTyped, Peers, NextDatagram

\* A step of the reader that is not about routes.
LEMMA ReaderKeeps ==
    ASSUME UdpInv, PeerTyped', peer.pc # "insert" \/ main # "done",
           peer.pc # "done", peer.pc # "insert", peer'.pc \notin {"route", "insert"},
           UNCHANGED <<routes, links, main, late>>
    PROVE  RoutedInv'
BY DEF UdpInv, RoutedInv

\* A step that leaves the direct relay's tables alone.
LEMMA DirectSame ==
    ASSUME DirectInv, UNCHANGED <<allowed, seen, replies>>
    PROVE  DirectInv'
BY DEF DirectInv, AllowanceKept

\* A step that leaves the routed relay's state alone.
LEMMA RoutedSame ==
    ASSUME RoutedInv, UNCHANGED <<peer, routes, links, main, late>>
    PROVE  RoutedInv'
BY DEF RoutedInv

\* The reader takes a datagram or ends.
LEMMA ReadKeeps ==
    ASSUME UdpInv, ClientEnds \/ \E t \in Targets, n \in Sizes : ReadClient(t, n)
    PROVE  UdpInv'
<1>1. PeerTyped /\ DirectInv /\ RoutedInv /\ peer \in Peers /\ peer.pc = "read"
  BY DEF UdpInv, PeerTyped, ClientEnds, ReadClient
<1>2. UNCHANGED <<allowed, seen, replies, routes, links, main, late>>
  BY DEF ClientEnds, ReadClient
<1>3. PeerTyped' /\ peer'.pc \in {"got", "done"}
  <2>1. CASE ClientEnds
    BY <1>1, <2>1, PeerMoves DEF ClientEnds, PeerTyped
  <2>2. CASE \E t \in Targets, n \in Sizes : ReadClient(t, n)
    <3>1. PICK t \in Targets, n \in Sizes : ReadClient(t, n)
      BY <2>2
    <3>2. peer' = [pc |-> "got", target |-> t, size |-> n, count |-> peer.count + 1] /\ n \in Nat
          /\ peer.count + 1 \in Nat
      BY <1>1, <3>1 DEF ReadClient, Sizes, Peers
    <3>. QED
      BY <3>2 DEF PeerTyped, Peers
  <2>. QED
    BY <2>1, <2>2
<1>4. DirectInv'
  BY <1>1, <1>2, DirectSame
<1>5. RoutedInv'
  BY <1>1, <1>2, <1>3, ReaderKeeps
<1>. QED
  BY <1>3, <1>4, <1>5 DEF UdpInv

\* The direct relay admits a datagram or refuses it.
LEMMA AdmitKeeps ==
    ASSUME UdpInv, NEW ok \in BOOLEAN, Admit(ok)
    PROVE  UdpInv'
<1>1. PeerTyped /\ DirectInv /\ RoutedInv /\ peer \in Peers /\ peer.pc = "got" /\ peer.target \in Targets
      /\ peer.size \in Nat
  BY DEF UdpInv, PeerTyped, Admit, Peers
<1>3. UNCHANGED <<replies, routes, links, main, late>>
  BY DEF Admit
<1>4. peer' = NextDatagram(peer) \/ peer' = [peer EXCEPT !.pc = "write"]
  BY Zenon DEF Admit
<1>5. PeerTyped' /\ peer'.pc \in {"read", "write"}
  <2>1. CASE peer' = NextDatagram(peer)
    BY <1>1, <2>1, PeerMoves DEF PeerTyped
  <2>2. CASE peer' = [peer EXCEPT !.pc = "write"]
    BY <1>1, <2>2, PeerMoves DEF PeerTyped
  <2>. QED
    BY <1>4, <2>1, <2>2
<1>6. RoutedInv'
  BY <1>1, <1>3, <1>5, ReaderKeeps
<1>7. \/ UNCHANGED <<allowed, seen>>
      \/ UNCHANGED allowed /\ seen' = seen \cup {peer.target}
      \/ /\ seen' = seen \cup {peer.target} /\ peer.target \in DOMAIN allowed
         /\ allowed' = [allowed EXCEPT ![peer.target].bytes = @ + peer.size]
      \/ /\ seen' = seen \cup {peer.target} /\ peer.target \notin DOMAIN allowed
         /\ allowed' = [a \in DOMAIN allowed \cup {peer.target} |->
                          IF a = peer.target THEN [bytes |-> peer.size, replied |-> FALSE]
                                             ELSE allowed[a]]
  BY Zenon DEF Admit
<1>8. DirectInv'
  <2>1. CASE UNCHANGED <<allowed, seen>>
    BY <1>1, <1>3, <2>1, DirectSame
  <2>2. CASE UNCHANGED allowed /\ seen' = seen \cup {peer.target}
    BY <1>1, <1>3, <2>2 DEF DirectInv, AllowanceKept
  <2>3. CASE /\ seen' = seen \cup {peer.target} /\ peer.target \in DOMAIN allowed
             /\ allowed' = [allowed EXCEPT ![peer.target].bytes = @ + peer.size]
    <3>1. PICK t \in Targets : t = peer.target
      BY <1>1
    <3>2. allowed[t] \in [bytes : Nat, replied : BOOLEAN] /\ t \in DOMAIN allowed
      BY <1>1, <2>3, <3>1 DEF DirectInv
    <3>3. PICK b \in Nat : b = allowed[t].bytes + peer.size
      BY <1>1, <3>2
    <3>4. PICK r \in [bytes : Nat, replied : BOOLEAN] : r = [allowed[t] EXCEPT !.bytes = b]
      BY <3>2
    <3>5. r.bytes = b /\ r.replied = allowed[t].replied /\ b >= allowed[t].bytes
      BY <1>1, <3>2, <3>3, <3>4
    <3>6. allowed' = [allowed EXCEPT ![t] = r]
      BY <2>3, <3>1, <3>3, <3>4
    <3>7. /\ DOMAIN allowed' = DOMAIN allowed /\ allowed'[t] = r
          /\ \A a \in DOMAIN allowed \ {t} : allowed'[a] = allowed[a]
          /\ allowed' = [a \in DOMAIN allowed' |-> allowed'[a]]
      BY <3>2, <3>6
    <3>8. ASSUME NEW a \in Targets PROVE AllowanceKept(a)'
      <4>1. CASE a = t
        BY <1>1, <1>3, <3>2, <3>3, <3>5, <3>7, <4>1 DEF DirectInv, AllowanceKept
      <4>2. CASE a # t
        BY <1>1, <1>3, <3>7, <4>2 DEF DirectInv, AllowanceKept
      <4>. QED
        BY <4>1, <4>2
    <3>. QED
      BY <1>1, <1>3, <2>3, <3>7, <3>8 DEF DirectInv
  <2>4. CASE /\ seen' = seen \cup {peer.target} /\ peer.target \notin DOMAIN allowed
             /\ allowed' = [a \in DOMAIN allowed \cup {peer.target} |->
                              IF a = peer.target THEN [bytes |-> peer.size, replied |-> FALSE]
                                                 ELSE allowed[a]]
    <3>1. PICK t \in Targets : t = peer.target
      BY <1>1
    <3>2. PICK r \in [bytes : Nat, replied : BOOLEAN] : r = [bytes |-> peer.size, replied |-> FALSE]
      BY <1>1
    <3>3. ~r.replied
      BY <3>2
    <3>7. /\ DOMAIN allowed' = DOMAIN allowed \cup {t} /\ allowed'[t] = r
          /\ \A a \in DOMAIN allowed : allowed'[a] = allowed[a]
          /\ allowed' = [a \in DOMAIN allowed' |-> allowed'[a]]
      BY <2>4, <3>1, <3>2
    <3>8. ASSUME NEW a \in Targets PROVE AllowanceKept(a)'
      <4>1. CASE a = t
        BY <1>1, <1>3, <2>4, <3>1, <3>3, <3>7, <4>1 DEF DirectInv, AllowanceKept
      <4>2. CASE a # t
        BY <1>1, <1>3, <3>7, <4>2 DEF DirectInv, AllowanceKept
      <4>. QED
        BY <4>1, <4>2
    <3>. QED
      BY <1>1, <1>3, <2>4, <3>1, <3>7, <3>8 DEF DirectInv
  <2>. QED
    BY <1>7, <2>1, <2>2, <2>3, <2>4
<1>. QED
  BY <1>5, <1>6, <1>8 DEF UdpInv

\* The direct relay writes the datagram.
LEMMA TargetWriteKeeps ==
    ASSUME UdpInv, NEW ok \in BOOLEAN, WriteTo(ok)
    PROVE  UdpInv'
<1>1. PeerTyped /\ DirectInv /\ RoutedInv /\ peer \in Peers /\ peer.pc = "write"
  BY DEF UdpInv, PeerTyped, WriteTo
<1>2. UNCHANGED <<allowed, seen, replies, routes, links, main, late>>
      /\ (peer' = NextDatagram(peer) \/ peer' = [peer EXCEPT !.pc = "done"])
  BY Zenon DEF WriteTo
<1>3. PeerTyped' /\ peer'.pc \in {"read", "done"}
  BY <1>1, <1>2, PeerMoves DEF PeerTyped
<1>4. DirectInv'
  BY <1>1, <1>2, DirectSame
<1>5. RoutedInv'
  BY <1>1, <1>2, <1>3, ReaderKeeps
<1>. QED
  BY <1>3, <1>4, <1>5 DEF UdpInv

\* A reply is let through: the first of its address within the allowance.
LEMMA ReplyKeeps ==
    ASSUME UdpInv, NEW t \in Targets, NEW n \in Replies, Reply(t, n)
    PROVE  UdpInv'
<1>1. PeerTyped /\ DirectInv /\ RoutedInv
  BY DEF UdpInv
<1>2. UNCHANGED <<peer, seen, routes, links, main, late>> /\ t \in DOMAIN allowed
      /\ (allowed[t].replied \/ n <= Mtu + 3 * allowed[t].bytes) /\ n \in Nat
  BY UdpBounds DEF Reply, AllowReply, Replies
<1>3. PeerTyped' /\ RoutedInv'
  BY <1>1, <1>2, RoutedSame DEF PeerTyped
<1>4. allowed[t] \in [bytes : Nat, replied : BOOLEAN]
  BY <1>1, <1>2 DEF DirectInv
<1>5. PICK r \in [bytes : Nat, replied : BOOLEAN] : r = [allowed[t] EXCEPT !.replied = TRUE]
  BY <1>4
<1>6. r.replied /\ r.bytes = allowed[t].bytes
  BY <1>4, <1>5
<1>7. allowed' = [allowed EXCEPT ![t] = r]
  BY <1>5 DEF Reply
<1>8. /\ DOMAIN allowed' = DOMAIN allowed /\ allowed'[t] = r
      /\ \A a \in DOMAIN allowed \ {t} : allowed'[a] = allowed[a]
      /\ allowed' = [a \in DOMAIN allowed' |-> allowed'[a]]
  BY <1>2, <1>7
<1>9. AllowanceKept(t)
  BY <1>1 DEF DirectInv
<1>10. replies = [a \in Targets |-> replies[a]] /\ DOMAIN replies = Targets
  BY <1>1 DEF DirectInv
<1>11. replies' = [a \in Targets |-> replies'[a]] /\ AllowanceKept(t)'
       /\ \A a \in Targets \ {t} : replies'[a] = replies[a]
  <2>1. CASE allowed[t].replied
    <3>1. replies' = replies
      BY <2>1 DEF Reply
    <3>. QED
      BY <1>2, <1>6, <1>8, <1>9, <1>10, <2>1, <3>1 DEF AllowanceKept
  <2>2. CASE ~allowed[t].replied
    <3>1. replies' = [replies EXCEPT ![t] = @ \cup {<<n, allowed[t].bytes>>}]
      BY <2>2 DEF Reply
    <3>2. replies[t] = {}
      BY <1>9, <2>2 DEF AllowanceKept
    <3>3. replies'[t] = {<<n, allowed[t].bytes>>} /\ replies' = [a \in Targets |-> replies'[a]]
          /\ \A a \in Targets \ {t} : replies'[a] = replies[a]
      BY <1>10, <3>1, <3>2
    <3>4. AllowanceKept(t)'
      BY <1>2, <1>4, <1>6, <1>8, <2>2, <3>3 DEF AllowanceKept
    <3>. QED
      BY <3>3, <3>4
  <2>. QED
    BY <1>4, <2>1, <2>2
<1>12. \A a \in Targets \ {t} : AllowanceKept(a)'
  BY <1>1, <1>8, <1>11 DEF DirectInv, AllowanceKept
<1>13. DirectInv'
  BY <1>1, <1>2, <1>8, <1>11, <1>12 DEF DirectInv
<1>. QED
  BY <1>3, <1>13 DEF UdpInv

\* The routed relay looks the target up, opens its stream or forwards.
LEMMA LookupKeeps ==
    ASSUME UdpInv, Lookup \/ Forward \/ \E ok \in BOOLEAN : RouteUDP(ok)
    PROVE  UdpInv'
<1>1. PeerTyped /\ DirectInv /\ RoutedInv /\ peer \in Peers /\ peer.pc \in {"got", "forward", "route"}
      /\ peer.target \in Targets
  BY DEF UdpInv, PeerTyped, Lookup, Forward, RouteUDP
<1>2. UNCHANGED <<allowed, seen, replies, routes, main, late>>
  BY DEF Lookup, Forward, RouteUDP
<1>3. DirectInv'
  BY <1>1, <1>2, DirectSame
<1>4. CASE Lookup
  <2>1. UNCHANGED links
        /\ \/ peer' = NextDatagram(peer)
           \/ peer' = [peer EXCEPT !.pc = "forward"]
           \/ /\ peer' = [peer EXCEPT !.pc = "route"] /\ peer.target \notin routes
              /\ ~(Cardinality(routes) >= MaxTargets)
    BY <1>4, Zenon DEF Lookup
  <2>2. IsFiniteSet(routes) /\ Cardinality(routes) \in Nat /\ peer.pc = "got"
    BY <1>1, <1>4, FS_CardinalityType DEF RoutedInv, Lookup
  <2>3. CASE peer' = [peer EXCEPT !.pc = "route"] /\ peer.target \notin routes
             /\ ~(Cardinality(routes) >= MaxTargets)
    <3>1. PeerTyped' /\ peer'.pc = "route" /\ peer'.target = peer.target
      BY <1>1, <2>3, PeerMoves DEF PeerTyped
    <3>2. RoutedInv'
      BY <1>1, <1>2, <2>1, <2>2, <2>3, <3>1, UdpBounds DEF RoutedInv
    <3>. QED
      BY <1>3, <3>1, <3>2 DEF UdpInv
  <2>4. CASE peer' = NextDatagram(peer) \/ peer' = [peer EXCEPT !.pc = "forward"]
    <3>1. PeerTyped' /\ peer'.pc \in {"read", "forward"}
      BY <1>1, <2>4, PeerMoves DEF PeerTyped
    <3>2. RoutedInv'
      BY <1>1, <1>2, <2>1, <2>2, <3>1, ReaderKeeps
    <3>. QED
      BY <1>3, <3>1, <3>2 DEF UdpInv
  <2>. QED
    BY <2>1, <2>3, <2>4
<1>5. CASE Forward
  <2>1. UNCHANGED links /\ peer.pc = "forward"
        /\ (peer' = NextDatagram(peer) \/ peer' = [peer EXCEPT !.pc = "done"])
    BY <1>5, Zenon DEF Forward
  <2>2. PeerTyped' /\ peer'.pc \in {"read", "done"}
    BY <1>1, <2>1, PeerMoves DEF PeerTyped
  <2>3. RoutedInv'
    BY <1>1, <1>2, <2>1, <2>2, ReaderKeeps
  <2>. QED
    BY <1>3, <2>2, <2>3 DEF UdpInv
<1>6. CASE \E ok \in BOOLEAN : RouteUDP(ok)
  <2>1. /\ peer.pc = "route"
        /\ \/ /\ peer' = [peer EXCEPT !.pc = "insert"]
              /\ links' = [links EXCEPT ![peer.target] = {"open"}]
           \/ peer' = NextDatagram(peer) /\ UNCHANGED links
    BY <1>6, Zenon DEF RouteUDP
  <2>2. CASE peer' = NextDatagram(peer) /\ UNCHANGED links
    <3>1. PeerTyped' /\ peer'.pc = "read"
      BY <1>1, <2>2, PeerMoves DEF PeerTyped
    <3>2. RoutedInv'
      BY <1>1, <1>2, <2>1, <2>2, <3>1, ReaderKeeps
    <3>. QED
      BY <1>3, <3>1, <3>2 DEF UdpInv
  <2>3. CASE peer' = [peer EXCEPT !.pc = "insert"]
             /\ links' = [links EXCEPT ![peer.target] = {"open"}]
    <3>1. PeerTyped' /\ peer'.pc = "insert" /\ peer'.target = peer.target
      BY <1>1, <2>3, PeerMoves DEF PeerTyped
    <3>2. RoutedInv'
      BY <1>1, <1>2, <2>1, <2>3, <3>1 DEF RoutedInv
    <3>. QED
      BY <1>3, <3>1, <3>2 DEF UdpInv
  <2>. QED
    BY <2>1, <2>2, <2>3
<1>. QED
  BY <1>4, <1>5, <1>6

\* The new stream enters the map and its worker starts.
LEMMA InsertKeeps ==
    ASSUME UdpInv, Insert
    PROVE  UdpInv'
<1>1. PeerTyped /\ DirectInv /\ RoutedInv /\ peer \in Peers /\ peer.pc = "insert"
      /\ peer.target \in Targets
  BY DEF UdpInv, PeerTyped, Insert
<1>2. UNCHANGED <<allowed, seen, replies, main>> /\ peer' = [peer EXCEPT !.pc = "forward"]
      /\ routes' = routes \cup {peer.target}
      /\ links' = [links EXCEPT ![peer.target] = @ \cup {"worker"}]
      /\ late' = IF main \in {"run", "cleanup"} THEN late ELSE late \cup {peer.target}
  BY DEF Insert
<1>3. PeerTyped' /\ peer'.pc = "forward" /\ DirectInv'
  BY <1>1, <1>2, PeerMoves, DirectSame DEF PeerTyped
<1>4. /\ peer.target \notin routes /\ Cardinality(routes) < MaxTargets /\ IsFiniteSet(routes)
      /\ links \in [Targets -> SUBSET {"open", "worker"}] /\ main # "done"
  BY <1>1 DEF RoutedInv
<1>5. IsFiniteSet(routes') /\ Cardinality(routes') = Cardinality(routes) + 1
      /\ Cardinality(routes) \in Nat
  BY <1>2, <1>4, FS_AddElement, FS_CardinalityType
<1>6. links' \in [Targets -> SUBSET {"open", "worker"}]
      /\ \A t \in Targets \ {peer.target} : links'[t] = links[t]
  BY <1>1, <1>2, <1>4
<1>7. main \in {"wait", "done"} => \A t \in routes' \ late' : t # peer.target /\ t \in routes \ late
  BY <1>2
<1>8. RoutedInv'
  BY <1>1, <1>2, <1>3, <1>4, <1>5, <1>6, <1>7, UdpBounds DEF RoutedInv
<1>. QED
  BY <1>3, <1>8 DEF UdpInv

\* Workers end and peers close their streams.
LEMMA LinksKeep ==
    ASSUME UdpInv, NEW t \in Targets, WorkerEnds(t) \/ PeerCloses(t)
    PROVE  UdpInv'
<1>1. PeerTyped /\ DirectInv /\ RoutedInv
  BY DEF UdpInv
<1>2. UNCHANGED <<peer, allowed, seen, replies, routes, main, late>>
      /\ \E w : links' = [links EXCEPT ![t] = @ \ {w}]
  BY Zenon DEF WorkerEnds, PeerCloses
<1>3. PICK w : links' = [links EXCEPT ![t] = @ \ {w}]
  BY <1>2
<1>4. links' \in [Targets -> SUBSET {"open", "worker"}]
      /\ \A a \in Targets : links'[a] \subseteq links[a]
  BY <1>1, <1>3 DEF RoutedInv
<1>5. PeerTyped' /\ DirectInv'
  BY <1>1, <1>2, DirectSame DEF PeerTyped
<1>6. RoutedInv'
  BY <1>1, <1>2, <1>4 DEF RoutedInv
<1>. QED
  BY <1>5, <1>6 DEF UdpInv

\* The relay stops, walks the map and joins its workers.
LEMMA StopKeeps ==
    ASSUME UdpInv, RelayStops \/ cleanup \/ workersWait
    PROVE  UdpInv'
<1>1. PeerTyped /\ DirectInv /\ RoutedInv
  BY DEF UdpInv
<1>2. UNCHANGED <<peer, allowed, seen, replies, routes, late>>
  BY DEF RelayStops, cleanup, workersWait
<1>3. PeerTyped' /\ DirectInv'
  BY <1>1, <1>2, DirectSame DEF PeerTyped
<1>4. CASE RelayStops
  BY <1>1, <1>2, <1>3, <1>4 DEF RelayStops, RoutedInv, UdpInv
<1>5. CASE cleanup
  <2>1. links' = [t \in Targets |-> IF t \in routes THEN links[t] \ {"open"} ELSE links[t]]
        /\ main' = "wait"
    BY <1>5 DEF cleanup
  <2>2. links' \in [Targets -> SUBSET {"open", "worker"}]
        /\ (\A t \in Targets : links'[t] \subseteq links[t])
        /\ (\A t \in Targets : t \in routes => "open" \notin links'[t]) /\ routes \subseteq Targets
    BY <1>1, <2>1 DEF RoutedInv
  <2>3. RoutedInv'
    BY <1>1, <1>2, <2>1, <2>2 DEF RoutedInv
  <2>. QED
    BY <1>3, <2>3 DEF UdpInv
<1>6. CASE workersWait
  BY <1>1, <1>2, <1>3, <1>6 DEF workersWait, RoutedInv, UdpInv
<1>. QED
  BY <1>4, <1>5, <1>6

\* Every step of the relay keeps the invariant.
LEMMA UdpStep == UdpInv /\ [UdpNext]_udpVars => UdpInv'
<1> SUFFICES ASSUME UdpInv, [UdpNext]_udpVars PROVE UdpInv'
  OBVIOUS
<1>1. CASE refill \/ UNCHANGED udpVars
  <2>1. UNCHANGED <<peer, allowed, seen, replies, routes, links, main, late>>
    BY <1>1 DEF refill, udpVars
  <2>. QED
    BY <2>1, DirectSame, RoutedSame DEF UdpInv, PeerTyped
<1>2. CASE \E t \in Targets : WorkerEnds(t) \/ PeerCloses(t)
  BY <1>2, LinksKeep
<1>3. CASE ClientEnds \/ \E t \in Targets, n \in Sizes : ReadClient(t, n)
  BY <1>3, ReadKeeps
<1>4. CASE \E ok \in BOOLEAN : Admit(ok) \/ WriteTo(ok)
  BY <1>4, AdmitKeeps, TargetWriteKeeps
<1>5. CASE \E t \in Targets, n \in Replies : Reply(t, n)
  BY <1>5, ReplyKeeps
<1>6. CASE Lookup \/ Forward \/ \E ok \in BOOLEAN : RouteUDP(ok)
  BY <1>6, LookupKeeps
<1>7. CASE Insert
  BY <1>7, InsertKeeps
<1>8. CASE RelayStops \/ cleanup \/ workersWait
  BY <1>8, StopKeeps
<1>. QED
  BY <1>1, <1>2, <1>3, <1>4, <1>5, <1>6, <1>7, <1>8 DEF UdpNext

\* The invariant gives what the relay promises.
LEMMA UdpInvSound == UdpInv => UdpRelayIsSound
<1> SUFFICES ASSUME UdpInv PROVE UdpRelayIsSound
  OBVIOUS
<1>1. ASSUME NEW t \in Targets
      PROVE  /\ Cardinality(replies[t]) <= 1
             /\ \A r \in replies[t] : t \in seen /\ r[1] <= Mtu + 3 * r[2] /\ r[2] <= allowed[t].bytes
  <2>1. AllowanceKept(t) /\ DOMAIN allowed \subseteq seen
    BY DEF UdpInv, DirectInv
  <2>2. CASE t \in DOMAIN allowed /\ allowed[t].replied
    <3>1. PICK n \in Nat, b \in Nat : replies[t] = {<<n, b>>} /\ n <= Mtu + 3 * b /\ b <= allowed[t].bytes
      BY <2>1, <2>2 DEF AllowanceKept
    <3>2. Cardinality(replies[t]) = 1
      BY <3>1, FS_Singleton
    <3>. QED
      BY <2>1, <2>2, <3>1, <3>2
  <2>3. CASE ~(t \in DOMAIN allowed /\ allowed[t].replied)
    <3>1. replies[t] = {}
      BY <2>1, <2>3 DEF AllowanceKept
    <3>. QED
      BY <3>1, FS_EmptySet
  <2>. QED
    BY <2>2, <2>3
<1>2. RoutesAreJoined
  <2>1. Cardinality(routes) <= MaxTargets
    BY DEF UdpInv, RoutedInv
  <2>2. ASSUME main = "done", NEW t \in Targets \ late PROVE links[t] = {}
    BY <2>2 DEF UdpInv, RoutedInv
  <2>. QED
    BY <2>1, <2>2 DEF RoutesAreJoined
<1>. QED
  BY <1>1, <1>2 DEF UdpRelayIsSound, RepliesWithinAllowance

\* For every set of targets and every limit: the replies of an address before
\* its first accepted one stay within the allowance for what the client had
\* sent to it, and a relay that returns has closed every stream it opened and
\* joined every worker, but for a route entered after the clean-up
\* (relayUDPAssociation, relayRoutedUDPAssociation).
THEOREM UdpRelaySound == UdpSpec => []UdpRelayIsSound
<1>1. UdpSpec => []UdpInv
  BY UdpStarts, UdpStep, PTL DEF UdpSpec
<1>. QED
  BY <1>1, UdpInvSound, PTL
=============================================================================
