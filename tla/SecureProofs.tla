---------------------------- MODULE SecureProofs ----------------------------
(***************************************************************************)
(* Proofs about the secure session (SecureSession), for every epoch        *)
(* interval, number of dummies, set of secrets and credential table: both  *)
(* sides agree on keys, features and capabilities, every record of an      *)
(* honest peer opens across the rekey and the epochs, and no nonce seals   *)
(* two records.  SecureInvariant has the invariant, the handshake and the  *)
(* plain sends.                                                            *)
(***************************************************************************)
EXTENDS SecureInvariant

-----------------------------------------------------------------------------
(* The negotiation, the rekey and the receiver.                            *)

\* The client, rekeyed, acknowledges and is done.
LEMMA ClientAcknowledges ==
    ASSUME SecureInv, Acknowledge
    PROVE  SecureInv'
<1> USE DEF Sides
<1>0. SecureTyped /\ KeysFollow /\ MessagesHold /\ SelectionHolds /\ NoncesBehind /\ RecordsAlwaysOpen
      /\ Alive /\ LiveInv
  BY DEF SecureInv, Acknowledge, Waits
<1>1. side["client"].pc = "acknowledge" /\ UNCHANGED <<conf, inbox, slow>>
  BY DEF Acknowledge, Waits
<1>2. PICK m : m = [seal |-> Seal("client"), type |-> "ack", id |-> 4, caps |-> {}]
  BY Zenon
<1>3. m \in Recs /\ m.seal = Seal("client") /\ m.type = "ack"
  <2>1. "ack" \in RecTypes /\ 4 \in Nat /\ {} \in SUBSET Caps
    BY DEF RecTypes
  <2>. QED
    BY <1>0, <1>2, <2>1, RecordTyped
<1>4. side["client"].keys = Rekeyed /\ rec["client"].keys = Rekeyed /\ ~rec["client"].pending
      /\ rec["server"].keys = Rekeyed /\ side["server"].keys = Rekeyed /\ rec["client"].ratchet
  BY <1>0, <1>1 DEF LiveInv, Standing, CarriersFollow, KeysFollow
<1>5. PICK u : u = Sent("client")
  OBVIOUS
<1>a. u \in RecordStates /\ u.keys = rec["client"].keys /\ u.send = rec["client"].send + 1
      /\ u.sendEpoch = Seal("client").epoch /\ u.recv = rec["client"].recv
      /\ u.recvEpoch = rec["client"].recvEpoch /\ u.ratchet = rec["client"].ratchet
      /\ u.pending = FALSE
  BY <1>0, <1>4, <1>5, SentPlain, Zenon
<1>b. PICK r : r = [u EXCEPT !.paused = FALSE]
  BY Zenon
<1>c. r \in RecordStates /\ r.keys = u.keys /\ r.send = u.send /\ r.sendEpoch = u.sendEpoch
      /\ r.recv = u.recv /\ r.recvEpoch = u.recvEpoch /\ r.ratchet = u.ratchet
      /\ r.pending = u.pending
  BY <1>a, <1>b, Zenon DEF RecordStates
<1>6. r \in RecordStates /\ r.keys = rec["client"].keys /\ r.send = rec["client"].send + 1
      /\ r.sendEpoch = Seal("client").epoch /\ r.recv = rec["client"].recv
      /\ r.recvEpoch = rec["client"].recvEpoch /\ r.ratchet = rec["client"].ratchet
      /\ r.pending = FALSE
  BY <1>a, <1>c
<1> DEFINE q == [side["client"] EXCEPT !.pc = "up", !.done = TRUE, !.negotiated = TRUE,
                                       !.selected = side["client"].selected]
<1>7. q \in SideRecs /\ q.pc = "up" /\ Identity(q, side["client"]) /\ q.selected = side["client"].selected
      /\ q.done = TRUE /\ q.negotiated = TRUE /\ q.broken = side["client"].broken
      /\ side' = [side EXCEPT !["client"] = q]
  BY <1>0, ZenonT(30) DEF SecureTyped, SideRecs, Pcs, Identity, Acknowledge, Completed
<1> HIDE DEF q
<1>8. side'["client"] = q /\ side'["server"] = side["server"] /\ side' \in [Sides -> SideRecs]
  BY <1>0, <1>7 DEF SecureTyped
<1>p. Peer("client") = "server"
  BY DEF Peer
<1>9. PlainSend("client", m, r)
  <2>1. wire' = [wire EXCEPT ![Peer("client")] = Append(@, m)]
        /\ sealed' = [nonces |-> sealed.nonces \cup {<<"client", Seal("client")>>}, repeated |-> sealed.repeated \/ <<"client", Seal("client")>> \in sealed.nonces]
        /\ rec' = [rec EXCEPT !["client"] = r]
    BY <1>2, <1>5, <1>b DEF Acknowledge, Send, Completed
  <2>2. \A y \in Sides : Identity(side'[y], side[y])
    BY <1>7, <1>8 DEF Identity
  <2>. QED
    BY <1>1, <1>3, <1>4, <1>6, <2>1, <2>2, SessionKeysDiffer DEF PlainSend
<1>10. /\ rec'["client"] = r /\ rec'["server"] = rec["server"] /\ rec' \in [Sides -> RecordStates]
       /\ wire'["server"] = Append(wire["server"], m) /\ wire'["client"] = wire["client"]
       /\ wire' \in [Sides -> Seq(Messages)]
       /\ sealed' \in [nonces : SUBSET (Sides \X Seals), repeated : BOOLEAN]
  BY <1>0, <1>9, <1>p, SendPlaces
<1>11. KeysFollow' /\ Base' = Base /\ Rekeyed' = Rekeyed /\ NoncesBehind'
  BY <1>0, <1>9, SendKeeps
<1>12. SecureTyped'
  BY <1>0, <1>1, <1>8, <1>10 DEF SecureTyped
<1>13. Lasting
  BY <1>1, <1>7, <1>8, <1>11 DEF Lasting, Chosen, Identity
<1>14. MessagesHold'
  <2>1. Says("server", m)'
    BY <1>3, <1>4, <1>7, <1>8, <1>11 DEF Says, Chosen, Identity
  <2>. QED
    BY <1>1, <1>9, <1>13, <1>p, <2>1, SendSays
<1>15. SelectionHolds'
  BY <1>0, <1>1, <1>4, <1>7, <1>8, <1>11 DEF SelectionHolds, Chosen, Identity
<1>16. RecordsAlwaysOpen'
  BY <1>0, <1>1, <1>7, <1>8, SMTT(30) DEF RecordsAlwaysOpen
<1>17. Standing'
  BY <1>0, <1>1, <1>4, <1>6, <1>7, <1>8, <1>10, <1>11, SessionKeysDiffer, SMTT(30) DEF LiveInv, Standing, Identity
<1>18. Handshaking'
  <2>1. side["client"].keys # <<>> /\ side'["client"].pc # "confirm"
        /\ side'["server"].pc \notin {"start", "response"}
    BY <1>0, <1>4, <1>7, <1>8, SessionKeysDiffer, SMTT(30) DEF LiveInv, Standing
  <2>. QED
    BY <1>0, <1>9, <2>1, SendHandshakes
<1>19. CarriersFollow'
  <2>1. \A x \in Sides : /\ rec'[x].keys = rec[x].keys /\ rec'[x].ratchet = rec[x].ratchet
                         /\ ~rec'[x].ratchet => rec'[x] = rec[x]
                         /\ rec'[x].keys = <<>> => rec'[x] = rec[x]
    BY <1>4, <1>6, <1>10, SessionKeysDiffer, Zenon
  <2>2. ~rec'["client"].pending /\ (rec'["server"].pending <=> side'["server"].pc = "ready")
    BY <1>0, <1>6, <1>8, <1>10 DEF LiveInv, CarriersFollow
  <2>. QED
    BY <1>0, <1>1, <1>7, <1>8, <1>10, <1>11, <2>1, <2>2, SMTT(30) DEF LiveInv, CarriersFollow
<1>20. Boundary'
  BY <1>0, <1>1, <1>4, <1>7, <1>8, <1>10, <1>11, SessionKeysDiffer DEF LiveInv, Boundary, Identity
<1>21. ~slow => RecordsLineUp'
  BY <1>0, <1>4, <1>9, SessionKeysDiffer, SendLinesUp
<1>. QED
  BY <1>1, <1>11, <1>12, <1>14, <1>15, <1>16, <1>17, <1>18, <1>19, <1>20, <1>21 DEF SecureInv, LiveInv

\* What the client selects from the server's offer.
LEMMA Selects ==
    ASSUME SecureTyped, NEW caps, caps = selectExtensionParameters(Offer)
    PROVE  /\ caps \in SUBSET Caps
           /\ "fs" \in caps <=> conf.clientFS /\ conf.serverFS
           /\ conf.clientFS => "fs" \in Required
<1>1. /\ Offer \in SUBSET Caps /\ RequestedSet \in SUBSET Caps
      /\ "fs" \in Offer <=> conf.serverFS
      /\ "fs" \in RequestedSet <=> conf.clientFS
  BY OffersTyped
<1>2. \A x : x \in caps <=> x \in Offer /\ x \in RequestedSet
                            /\ ("udp" \in Offer \cap RequestedSet \/ x # "datagrams")
  BY DEF selectExtensionParameters
<1>. QED
  BY <1>1, <1>2 DEF Required, Parameters

\* The head of the inbox is a decoded record, and it is taken.
LEMMA InboxTaken ==
    ASSUME SecureInv, NEW x \in Sides, inbox[x] # <<>>,
           inbox' = [inbox EXCEPT ![x] = Tail(@)]
    PROVE  /\ Head(inbox[x]) \in Recs /\ Says(x, Head(inbox[x]))
           /\ inbox' \in [Sides -> Seq(Recs)] /\ inbox'[x] = Tail(inbox[x])
           /\ \A y \in Sides \ {x} : inbox'[y] = inbox[y]
           /\ \A y \in Sides : \A k \in 1 .. Len(inbox'[y]) :
                 \E j \in 1 .. Len(inbox[y]) : inbox'[y][k] = inbox[y][j]
<1>1. inbox \in [Sides -> Seq(Recs)] /\ MessagesHold
  BY DEF SecureInv, SecureTyped
<1>2. PICK w \in Seq(Recs) : w = inbox[x]
  BY <1>1
<1>3. /\ Tail(w) \in Seq(Recs) /\ Head(w) \in Recs /\ Head(w) = w[1] /\ Len(w) \in Nat \ {0}
      /\ \A k \in 1 .. Len(Tail(w)) : \E j \in 1 .. Len(w) : Tail(w)[k] = w[j]
  BY <1>2, TailWithin
<1>4. 1 \in 1 .. Len(w)
  BY <1>3
<1>5. Says(x, w[1])
  BY <1>1, <1>2, <1>4 DEF MessagesHold
<1>6. inbox'[x] = Tail(w) /\ \A y \in Sides \ {x} : inbox'[y] = inbox[y]
  BY <1>1, <1>2
<1>7. inbox' \in [Sides -> Seq(Recs)]
  BY <1>1, <1>2, <1>3
<1>8. \A y \in Sides : \A k \in 1 .. Len(inbox'[y]) :
         \E j \in 1 .. Len(inbox[y]) : inbox'[y][k] = inbox[y][j]
  BY <1>2, <1>3, <1>6
<1>. QED
  BY <1>2, <1>3, <1>5, <1>6, <1>7, <1>8

\* The client accepts: with forward secrecy it waits for the confirmation,
\* without it is done.
LEMMA ClientAccepts ==
    ASSUME SecureInv, Alive, side["client"].pc = "offer", NEW caps,
           caps \in SUBSET Caps, "fs" \in caps <=> conf.clientFS /\ conf.serverFS,
           NEW q \in SideRecs, side' = [side EXCEPT !["client"] = q],
           Identity(q, side["client"]), q.selected = caps, q.broken = side["client"].broken,
           NEW m, m = [seal |-> Seal("client"), type |-> "accept", id |-> 2, caps |-> caps],
           NEW r, PlainSend("client", m, r),
           \/ /\ "fs" \in caps /\ q.pc = "confirmation" /\ q.done = side["client"].done
              /\ q.negotiated = side["client"].negotiated /\ r.paused = rec["client"].paused
           \/ "fs" \notin caps /\ ~conf.clientFS /\ q.pc = "up" /\ q.done /\ q.negotiated,
           inbox["client"] # <<>>, inbox' = [inbox EXCEPT !["client"] = Tail(@)]
    PROVE  SecureInv'
<1> USE DEF Sides
<1>0. SecureTyped /\ KeysFollow /\ MessagesHold /\ SelectionHolds /\ NoncesBehind /\ RecordsAlwaysOpen
      /\ LiveInv
  BY DEF SecureInv
<1>1. UNCHANGED <<conf, slow>>
  BY DEF PlainSend
<1>2. m \in Recs /\ m.seal = Seal("client") /\ m.type = "accept" /\ m.caps = caps
  <2>1. "accept" \in RecTypes /\ 2 \in Nat
    BY DEF RecTypes
  <2>. QED
    BY <1>0, <2>1, RecordTyped
<1>3. /\ ~Chosen /\ side["server"].pc \notin {"ready", "ack"} /\ ~side["server"].negotiated
      /\ ~side["client"].done
  BY <1>0 DEF SelectionHolds, Chosen
<1>4. side["client"].keys = Base /\ rec["client"].keys = Base /\ ~rec["client"].pending
      /\ side["server"].keys # Rekeyed /\ rec["server"].keys = side["server"].keys
      /\ side["server"].keys # <<>> /\ ~rec["client"].ratchet /\ rec["client"].sendEpoch = 0
  BY <1>0, SessionKeysDiffer DEF LiveInv, Standing, CarriersFollow, KeysFollow
<1>5. r \in RecordStates /\ r.keys = rec["client"].keys /\ r.send = rec["client"].send + 1
      /\ r.sendEpoch = Seal("client").epoch /\ r.recv = rec["client"].recv
      /\ r.recvEpoch = rec["client"].recvEpoch /\ r.ratchet = rec["client"].ratchet
      /\ r.pending = FALSE
  BY DEF PlainSend
<1>6. r.sendEpoch = 0
  BY <1>0, <1>4, <1>5, SentPlain, SMTT(30) DEF Rotated
<1>8. side'["client"] = q /\ side'["server"] = side["server"] /\ side' \in [Sides -> SideRecs]
  BY <1>0 DEF SecureTyped
<1>p. Peer("client") = "server"
  BY DEF Peer
<1>i. /\ inbox' \in [Sides -> Seq(Recs)] /\ inbox'["server"] = inbox["server"]
      /\ \A y \in Sides : \A k \in 1 .. Len(inbox'[y]) :
            \E j \in 1 .. Len(inbox[y]) : inbox'[y][k] = inbox[y][j]
  BY InboxTaken
<1>10. /\ rec'["client"] = r /\ rec'["server"] = rec["server"] /\ rec' \in [Sides -> RecordStates]
       /\ wire'["server"] = Append(wire["server"], m) /\ wire'["client"] = wire["client"]
       /\ wire' \in [Sides -> Seq(Messages)]
       /\ sealed' \in [nonces : SUBSET (Sides \X Seals), repeated : BOOLEAN]
  BY <1>0, <1>p, SendPlaces
<1>11. KeysFollow' /\ Base' = Base /\ Rekeyed' = Rekeyed /\ NoncesBehind'
  BY <1>0, SendKeeps
<1>12. SecureTyped'
  BY <1>0, <1>1, <1>8, <1>10, <1>i, SMTT(30) DEF SecureTyped
<1>13. Lasting
  BY <1>1, <1>3, <1>8, <1>11, SMTT(30) DEF Lasting
<1>c. Chosen'
  BY <1>8 DEF Chosen
<1>14. MessagesHold'
  <2>1. Says("server", m)'
    BY <1>1, <1>2, <1>8, <1>c, SMTT(30) DEF Says
  <2>. QED
    BY <1>13, <1>i, <1>p, <2>1, SendSays, SMTT(30)
<1>15. SelectionHolds'
  BY <1>0, <1>1, <1>3, <1>8, <1>11, <1>c, SMTT(30) DEF SelectionHolds
<1>16. RecordsAlwaysOpen'
  BY <1>0, <1>1, <1>8, SMTT(30) DEF RecordsAlwaysOpen
<1>17. Standing'
  BY <1>0, <1>3, <1>4, <1>5, <1>8, <1>10, <1>11, SessionKeysDiffer, SMTT(30) DEF LiveInv, Standing, Identity
<1>18. Handshaking'
  <2>1. side["client"].keys # <<>> /\ side'["client"].pc # "confirm"
        /\ side'["server"].pc \notin {"start", "response"}
    BY <1>0, <1>4, <1>8, SessionKeysDiffer, SMTT(30) DEF LiveInv, Standing
  <2>. QED
    BY <1>0, <2>1, SendHandshakes, SMTT(30)
<1>19. CarriersFollow'
  <2>1. \A x \in Sides : /\ rec'[x].keys = rec[x].keys /\ rec'[x].ratchet = rec[x].ratchet
                         /\ rec'[x].recvEpoch = rec[x].recvEpoch
                         /\ rec'[x].sendEpoch = rec[x].sendEpoch
                         /\ rec'[x].keys = <<>> => rec'[x] = rec[x]
    BY <1>4, <1>5, <1>6, <1>10, SessionKeysDiffer, SMTT(30)
  <2>2. ~rec'["client"].pending /\ (rec'["server"].pending <=> side'["server"].pc = "ready")
    BY <1>0, <1>5, <1>8, <1>10, SMTT(30) DEF LiveInv, CarriersFollow
  <2>3. side'["client"].pc \in {"offer", "confirmation", "acknowledge"} /\ conf.clientFS
           => rec'["client"].paused
    BY <1>0, <1>8, <1>10, SMTT(30) DEF LiveInv, CarriersFollow
  <2>. QED
    BY <1>0, <1>1, <1>8, <1>10, <1>11, <2>1, <2>2, <2>3, SMTT(30) DEF LiveInv, CarriersFollow
<1>20. Boundary'
  <2>1. side'["client"].pc = "confirmation" => wire["server"] = <<>> /\ inbox'["server"] = <<>>
    BY <1>0, <1>8, <1>i, SMTT(30) DEF LiveInv, Boundary
  <2>2. wire["server"] = <<>> => Len(wire'["server"]) = 1
    BY <1>0, <1>2, <1>10, EmptySeq, AppendProperties, SMTT(30) DEF Messages
  <2>3. side'["server"].keys # Rekeyed'
    BY <1>4, <1>8, <1>11, SMTT(30)
  <2>. QED
    BY <1>3, <1>8, <2>1, <2>2, <2>3, SMTT(30) DEF Boundary
<1>21. ~slow => RecordsLineUp'
  BY <1>4, SendLinesUp
<1>. QED
  BY <1>1, <1>11, <1>12, <1>14, <1>15, <1>16, <1>17, <1>18, <1>19, <1>20, <1>21, SMTT(30) DEF SecureInv, LiveInv

\* The client answers the offer, or gives up when what it requires is not in
\* it.
LEMMA ClientNegotiates ==
    ASSUME SecureInv, negotiateClientExtensions
    PROVE  SecureInv'
<1> USE DEF Sides
<1>0. SecureTyped /\ KeysFollow /\ MessagesHold /\ SelectionHolds /\ NoncesBehind /\ RecordsAlwaysOpen
      /\ Alive /\ LiveInv
  BY DEF SecureInv, negotiateClientExtensions, Waits
<1>1. /\ side["client"].pc = "offer" /\ UNCHANGED <<conf, slow>> /\ inbox["client"] # <<>>
      /\ Head(inbox["client"]).type = "offer" /\ inbox' = [inbox EXCEPT !["client"] = Tail(@)]
  BY DEF negotiateClientExtensions, Waits, Message
<1>2. /\ Says("client", Head(inbox["client"])) /\ inbox' \in [Sides -> Seq(Recs)]
      /\ \A y \in Sides : \A k \in 1 .. Len(inbox'[y]) :
            \E j \in 1 .. Len(inbox[y]) : inbox'[y][k] = inbox[y][j]
  BY <1>1, InboxTaken
<1>3. Head(inbox["client"]).caps = Offer
  BY <1>1, <1>2 DEF Says
<1>4. PICK caps : caps = selectExtensionParameters(Offer)
  OBVIOUS
<1>5. /\ caps \in SUBSET Caps
      /\ "fs" \in caps <=> conf.clientFS /\ conf.serverFS
      /\ conf.clientFS => "fs" \in Required
  BY <1>0, <1>4, Selects
<1>6. IF Required \subseteq caps
      THEN /\ Send("client", "accept", 2, caps)
           /\ IF "fs" \in caps
              THEN /\ side' = [side EXCEPT !["client"].pc = "confirmation",
                                           !["client"].selected = caps]
                   /\ rec' = [rec EXCEPT !["client"] = Sent("client")]
              ELSE Completed("client", Sent("client"), TRUE, caps)
      ELSE /\ side' = [side EXCEPT !["client"].pc = "failed"]
           /\ UNCHANGED <<rec, wire, sealed>>
  BY <1>3, <1>4, Zenon DEF negotiateClientExtensions
<1>7. side["client"].keys = Base /\ rec["client"].keys = Base /\ ~rec["client"].pending
  BY <1>0, <1>1 DEF LiveInv, Standing, CarriersFollow
<1>8. CASE ~(Required \subseteq caps)
  <2> DEFINE q == [side["client"] EXCEPT !.pc = "failed"]
  <2>1. /\ side' = [side EXCEPT !["client"] = q] /\ UNCHANGED <<rec, wire, sealed>>
        /\ q \in SideRecs /\ q.pc = "failed" /\ Same(q, side["client"])
    BY <1>0, <1>6, <1>8, ZenonT(30) DEF SecureTyped, SideRecs, Pcs, Same, Identity
  <2> HIDE DEF q
  <2>2. side' \in [Sides -> SideRecs]
    BY <1>0, <2>1 DEF SecureTyped
  <2>3. SecureTyped'
    BY <1>0, <1>1, <1>2, <2>1, <2>2 DEF SecureTyped
  <2>. QED
    BY <1>1, <1>2, <2>1, <2>3, GivesUp, Zenon DEF Same
<1>9. CASE Required \subseteq caps
  <2>1. PICK m : m = [seal |-> Seal("client"), type |-> "accept", id |-> 2, caps |-> caps]
    BY Zenon
  <2>2. m \in Recs /\ m.seal = Seal("client")
    <3>1. "accept" \in RecTypes /\ 2 \in Nat
      BY DEF RecTypes
    <3>. QED
      BY <1>0, <1>5, <2>1, <3>1, RecordTyped
  <2>3. PICK u : u = Sent("client")
    OBVIOUS
  <2>4. u \in RecordStates /\ u.keys = rec["client"].keys /\ u.send = rec["client"].send + 1
        /\ u.sendEpoch = Seal("client").epoch /\ u.recv = rec["client"].recv
        /\ u.recvEpoch = rec["client"].recvEpoch /\ u.ratchet = rec["client"].ratchet
        /\ u.pending = FALSE /\ u.paused = rec["client"].paused
    BY <1>0, <1>7, <2>3, SentPlain, Zenon
  <2>5. /\ wire' = [wire EXCEPT ![Peer("client")] = Append(@, m)]
        /\ sealed' = [nonces |-> sealed.nonces \cup {<<"client", Seal("client")>>},
                      repeated |-> sealed.repeated \/ <<"client", Seal("client")>> \in sealed.nonces]
    BY <1>6, <1>9, <2>1 DEF Send
  <2>6. CASE "fs" \in caps
    <3> DEFINE q == [side["client"] EXCEPT !.pc = "confirmation", !.selected = caps]
    <3>1. /\ side' = [side EXCEPT !["client"] = q] /\ rec' = [rec EXCEPT !["client"] = u]
      BY <1>0, <1>6, <1>9, <2>3, <2>6, Zenon DEF SecureTyped
    <3>2. /\ q \in SideRecs /\ q.pc = "confirmation" /\ Identity(q, side["client"])
          /\ q.selected = caps /\ q.broken = side["client"].broken
          /\ q.done = side["client"].done /\ q.negotiated = side["client"].negotiated
      BY <1>0, <1>5, ZenonT(30) DEF SecureTyped, SideRecs, Pcs, Identity
    <3> HIDE DEF q
    <3>3. \A y \in Sides : Identity(side'[y], side[y])
      BY <1>0, <3>1, <3>2 DEF SecureTyped, Identity
    <3>4. PlainSend("client", m, u)
      BY <1>1, <1>7, <2>2, <2>4, <2>5, <3>1, <3>3, SessionKeysDiffer DEF PlainSend
    <3>5. PICK z \in SideRecs : z = q
      BY <3>2
    <3>. QED
      BY <1>0, <1>1, <1>5, <2>1, <2>4, <2>6, <3>1, <3>2, <3>4, <3>5, ClientAccepts, Zenon
  <2>7. CASE "fs" \notin caps
    <3> DEFINE q == [side["client"] EXCEPT !.pc = "up", !.done = TRUE, !.negotiated = TRUE,
                                           !.selected = caps]
               r == [u EXCEPT !.paused = FALSE]
    <3>1. /\ side' = [side EXCEPT !["client"] = q] /\ rec' = [rec EXCEPT !["client"] = r]
      BY <1>0, <1>6, <1>9, <2>3, <2>7, Zenon DEF SecureTyped, Completed
    <3>2. /\ q \in SideRecs /\ q.pc = "up" /\ Identity(q, side["client"])
          /\ q.selected = caps /\ q.broken = side["client"].broken /\ q.done /\ q.negotiated
      BY <1>0, <1>5, ZenonT(30) DEF SecureTyped, SideRecs, Pcs, Identity
    <3>r. r \in RecordStates /\ r.keys = u.keys /\ r.send = u.send /\ r.sendEpoch = u.sendEpoch
          /\ r.recv = u.recv /\ r.recvEpoch = u.recvEpoch /\ r.ratchet = u.ratchet
          /\ r.pending = u.pending
      BY <2>4, Zenon DEF RecordStates
    <3> HIDE DEF q, r
    <3>3. \A y \in Sides : Identity(side'[y], side[y])
      BY <1>0, <3>1, <3>2 DEF SecureTyped, Identity
    <3>4. PlainSend("client", m, r)
      BY <1>1, <1>7, <2>2, <2>4, <2>5, <3>1, <3>3, <3>r, SessionKeysDiffer, SMTT(30) DEF PlainSend
    <3>5. ~conf.clientFS
      BY <1>5, <1>9, <2>7, SMTT(30)
    <3>. QED
      BY <1>0, <1>1, <1>5, <2>1, <2>4, <2>7, <3>1, <3>2, <3>4, <3>5, ClientAccepts, Zenon
  <2>. QED
    BY <2>6, <2>7
<1>. QED
  BY <1>8, <1>9

\* A side moves on without sending or opening a record: its place among the
\* records stands.
QuietStep(x, q, r) ==
    /\ conf' = conf /\ wire' = wire /\ sealed' = sealed /\ slow' \in BOOLEAN /\ (slow => slow')
    /\ q \in SideRecs /\ side' = [side EXCEPT ![x] = q] /\ Identity(q, side[x])
    /\ q.broken = side[x].broken
    /\ r \in RecordStates /\ rec' = [rec EXCEPT ![x] = r] /\ r.keys = rec[x].keys
    /\ r.send = rec[x].send /\ r.sendEpoch = rec[x].sendEpoch /\ r.recv = rec[x].recv
    /\ r.recvEpoch = rec[x].recvEpoch /\ r.ratchet = rec[x].ratchet
    /\ inbox' \in [Sides -> Seq(Recs)]
    /\ \A y \in Sides : \A k \in 1 .. Len(inbox'[y]) :
          \E j \in 1 .. Len(inbox[y]) : inbox'[y][k] = inbox[y][j]
    /\ rec[x].keys # <<>> /\ q.pc \notin {"start", "response", "confirm"}

\* Being in step depends on the counters and what is in flight only.
LEMMA InStepSame ==
    ASSUME NEW x \in Sides, wire' = wire,
           \A y \in Sides : /\ rec'[y].keys = rec[y].keys /\ rec'[y].send = rec[y].send
                            /\ rec'[y].sendEpoch = rec[y].sendEpoch /\ rec'[y].recv = rec[y].recv
                            /\ rec'[y].recvEpoch = rec[y].recvEpoch
                            /\ rec'[y].ratchet = rec[y].ratchet,
           InStep(x)
    PROVE  InStep(x)'
BY DEF InStep, Peer, Sides, Chain, Rotated, EpochBefore, LastEpoch

\* What such a step leaves in place.
LEMMA QuietKeeps ==
    ASSUME SecureInv, Alive, NEW x \in Sides, NEW q, NEW r, QuietStep(x, q, r)
    PROVE  /\ SecureTyped' /\ KeysFollow' /\ NoncesBehind' /\ RecordsAlwaysOpen'
           /\ Base' = Base /\ Rekeyed' = Rekeyed /\ Handshaking'
           /\ slow \/ RecordsLineUp'
           /\ Lasting => MessagesHold'
           /\ side'[x] = q /\ rec'[x] = r
           /\ \A y \in Sides \ {x} : side'[y] = side[y] /\ rec'[y] = rec[y]
           /\ \A y \in Sides : inbox[y] = <<>> => inbox'[y] = <<>>
<1>0. SecureTyped /\ KeysFollow /\ MessagesHold /\ NoncesBehind /\ RecordsAlwaysOpen /\ LiveInv
  BY DEF SecureInv
<1>1. /\ side'[x] = q /\ rec'[x] = r /\ side' \in [Sides -> SideRecs] /\ rec' \in [Sides -> RecordStates]
      /\ \A y \in Sides \ {x} : side'[y] = side[y] /\ rec'[y] = rec[y]
  BY <1>0 DEF SecureTyped, QuietStep
<1>2. /\ conf' = conf /\ wire' = wire /\ sealed' = sealed /\ slow' \in BOOLEAN /\ (slow => slow')
      /\ inbox' \in [Sides -> Seq(Recs)]
  BY DEF QuietStep
<1>3. SecureTyped'
  BY <1>0, <1>1, <1>2, SMTT(30) DEF SecureTyped
<1>4. \A y \in Sides : Identity(side'[y], side[y]) /\ side'[y].broken = side[y].broken
  BY <1>1 DEF QuietStep, Identity
<1>5. KeysFollow' /\ Base' = Base /\ Rekeyed' = Rekeyed
  BY <1>0, <1>2, <1>4, KeysSame, SMTT(30)
<1>6. \A y \in Sides : /\ rec'[y].keys = rec[y].keys /\ rec'[y].send = rec[y].send
                       /\ rec'[y].sendEpoch = rec[y].sendEpoch /\ rec'[y].recv = rec[y].recv
                       /\ rec'[y].recvEpoch = rec[y].recvEpoch
                       /\ rec'[y].ratchet = rec[y].ratchet
  BY <1>1 DEF QuietStep
<1>7. NoncesBehind'
  BY <1>0, <1>2, <1>5, <1>6, NoncesKept, SMTT(30)
<1>8. RecordsAlwaysOpen'
  BY <1>0, <1>2, <1>4, SMTT(30) DEF RecordsAlwaysOpen
<1>9. Lasting => MessagesHold'
  <2>1. \A y \in Sides : \A k \in 1 .. Len(wire'[y]) :
           \E j \in 1 .. Len(wire[y]) : wire'[y][k] = wire[y][j]
    BY <1>2
  <2>. QED
    BY <1>0, <2>1, MessagesLast, Zenon DEF QuietStep
<1>10. Handshaking'
  <2>1. side[x].keys # <<>> /\ side[x].pc \notin {"start", "response", "confirm"}
    BY <1>0 DEF QuietStep, LiveInv, Standing, KeysFollow, Sides
  <2>2. \A y \in Sides : side'[y].pc \in {"start", "response", "confirm"} => side'[y] = side[y]
    BY <1>1 DEF QuietStep
  <2>3. x = "client" => side["server"].pc \notin {"start", "response"}
    BY <1>0, <2>1 DEF LiveInv, Standing, KeysFollow
  <2>4. x = "server" => side'["client"] = side["client"]
    BY <1>1, SMTT(30) DEF Sides
  <2>. QED
    BY <1>0, <1>1, <1>2, <1>4, <2>1, <2>2, <2>3, <2>4, ZenonT(30)
    DEF LiveInv, Handshaking, Challenge, Response, Confirm, transcript, Tag, Sides, Identity, QuietStep
<1>11. slow \/ RecordsLineUp'
  <2>1. SUFFICES ASSUME RecordsLineUp PROVE RecordsLineUp'
    BY <1>0 DEF LiveInv
  <2>2. rec["client"].keys # <<>> /\ rec["client"].keys = rec["server"].keys
           => \A y \in Sides : InStep(y)'
    BY <1>2, <1>6, <2>1, InStepSame DEF RecordsLineUp
  <2>3. /\ rec'["client"].keys = rec["client"].keys /\ rec'["server"].keys = rec["server"].keys
        /\ rec'["client"].recv = rec["client"].recv /\ rec'["server"].recv = rec["server"].recv
        /\ rec'["server"].send = rec["server"].send
        /\ rec'["server"].sendEpoch = rec["server"].sendEpoch
        /\ rec'["server"].recvEpoch = rec["server"].recvEpoch
    BY <1>6, SMTT(30) DEF Sides
  <2>4. rec["client"].keys = <<>> /\ rec["server"].keys # <<>> =>
         /\ Chain(wire["client"], 2, rec["server"].keys, FALSE, 0, 0)'
         /\ rec'["server"].send = Len(wire'["client"]) - 1 /\ rec'["server"].recv = 0
         /\ rec'["server"].sendEpoch = LastEpoch(wire["client"], 2, 0)'
    BY <1>2, <2>1, <2>3, SMTT(30) DEF RecordsLineUp, Chain, Rotated, EpochBefore, LastEpoch
  <2>5. rec["client"].keys = Base /\ rec["server"].keys = Rekeyed =>
         /\ Chain(wire["client"], 1, rec["client"].keys, FALSE, rec["client"].recv, 0)'
         /\ rec'["server"].send = 0 /\ rec'["server"].recv = 0 /\ rec'["server"].sendEpoch = 0
         /\ rec'["server"].recvEpoch = 0
    BY <1>2, <2>1, <2>3 DEF RecordsLineUp, Chain, Rotated, EpochBefore
  <2>. QED
    BY <1>5, <2>2, <2>3, <2>4, <2>5, ZenonT(30) DEF RecordsLineUp
<1>12. \A y \in Sides : inbox[y] = <<>> => inbox'[y] = <<>>
  <2>1. SUFFICES ASSUME NEW y \in Sides, inbox[y] = <<>> PROVE inbox'[y] = <<>>
    OBVIOUS
  <2>2. inbox'[y] \in Seq(Recs) /\ \A k \in 1 .. Len(inbox'[y]) : FALSE
    BY <1>2, <2>1, EmptySeq DEF QuietStep
  <2>3. Len(inbox'[y]) = 0
    BY <2>2, LenProperties, SMTT(30)
  <2>. QED
    BY <2>2, <2>3, EmptySeq
<1>. QED
  BY <1>1, <1>3, <1>5, <1>7, <1>8, <1>9, <1>10, <1>11, <1>12, SMTT(30)

\* The server's negotiation ends; if it ends without the acknowledgement of a
\* rekey, the server was slow.
LEMMA ServerDone ==
    ASSUME SecureInv, Alive, side["server"].pc \in {"accept", "ack"}, NEW q, NEW r,
           QuietStep("server", q, r), q.pc = "up", r.pending = rec["server"].pending,
           q.negotiated => /\ Chosen /\ side["client"].negotiated
                           /\ q.selected = side["client"].selected,
           side["server"].pc = "ack" => slow' \/ side["client"].keys = Rekeyed
    PROVE  SecureInv'
<1> USE DEF Sides
<1>0. SecureTyped /\ KeysFollow /\ SelectionHolds /\ LiveInv
  BY DEF SecureInv
<1>1. /\ SecureTyped' /\ KeysFollow' /\ NoncesBehind' /\ RecordsAlwaysOpen'
      /\ Base' = Base /\ Rekeyed' = Rekeyed /\ Handshaking'
      /\ slow \/ RecordsLineUp'
      /\ Lasting => MessagesHold'
      /\ side'["server"] = q /\ rec'["server"] = r
      /\ side'["client"] = side["client"] /\ rec'["client"] = rec["client"]
      /\ \A y \in Sides : inbox[y] = <<>> => inbox'[y] = <<>>
  BY QuietKeeps
<1>2. /\ conf' = conf /\ wire' = wire /\ (slow => slow') /\ Identity(q, side["server"])
      /\ r.keys = rec["server"].keys /\ r.sendEpoch = rec["server"].sendEpoch
      /\ r.recvEpoch = rec["server"].recvEpoch /\ r.ratchet = rec["server"].ratchet
      /\ r.send = rec["server"].send /\ r.recv = rec["server"].recv /\ slow' \in BOOLEAN
  BY SMTT(30) DEF QuietStep
<1>3. Lasting
  BY <1>1, <1>2, SMTT(30) DEF Lasting, Chosen, Identity
<1>4. SelectionHolds'
  BY <1>0, <1>1, <1>2, SMTT(30) DEF SelectionHolds, Chosen, Identity
<1>5. side["client"].keys # Rekeyed /\ side["server"].keys = Rekeyed => slow'
  BY <1>0, SessionKeysDiffer, SMTT(30) DEF LiveInv, Standing
<1>6. Standing'
  BY <1>0, <1>1, <1>2, <1>5, SessionKeysDiffer, SMTT(30) DEF LiveInv, Standing, Identity
<1>7. CarriersFollow'
  BY <1>0, <1>1, <1>2, SMTT(30) DEF LiveInv, CarriersFollow
<1>8. Boundary'
  <2>1. side'["client"].keys # Rekeyed' /\ side'["server"].keys = Rekeyed' => slow'
    BY <1>1, <1>2, <1>5 DEF Identity
  <2>. QED
    BY <1>0, <1>1, <1>2, <2>1, SMTT(30) DEF LiveInv, Boundary
<1>. QED
  BY <1>1, <1>2, <1>3, <1>4, <1>6, <1>7, <1>8, ZenonT(30) DEF SecureInv, LiveInv

\* The server arms its rekey: the client then waits for the confirmation, and
\* nothing it sent is in flight.
LEMMA ServerArms ==
    ASSUME SecureInv, Alive, side["server"].pc = "accept", NEW q, NEW r,
           QuietStep("server", q, r), q.pc = "ready", r.pending, slow' = slow,
           r.paused = rec["server"].paused, q.negotiated = side["server"].negotiated,
           "fs" \in q.selected, q.selected = side["client"].selected, Chosen,
           inbox["server"] # <<>>
    PROVE  SecureInv'
<1> USE DEF Sides
<1>0. SecureTyped /\ KeysFollow /\ SelectionHolds /\ LiveInv
  BY DEF SecureInv
<1>1. /\ SecureTyped' /\ KeysFollow' /\ NoncesBehind' /\ RecordsAlwaysOpen'
      /\ Base' = Base /\ Rekeyed' = Rekeyed /\ Handshaking'
      /\ slow \/ RecordsLineUp'
      /\ Lasting => MessagesHold'
      /\ side'["server"] = q /\ rec'["server"] = r
      /\ side'["client"] = side["client"] /\ rec'["client"] = rec["client"]
  BY QuietKeeps
<1>2. /\ conf' = conf /\ wire' = wire /\ Identity(q, side["server"])
      /\ r.keys = rec["server"].keys /\ r.sendEpoch = rec["server"].sendEpoch
      /\ r.recvEpoch = rec["server"].recvEpoch /\ r.ratchet = rec["server"].ratchet
      /\ r.send = rec["server"].send /\ r.recv = rec["server"].recv
  BY DEF QuietStep
<1>3. Lasting
  BY <1>1, <1>2, SMTT(30) DEF Lasting, Chosen, Identity
<1>4. SelectionHolds'
  BY <1>0, <1>1, <1>2, SMTT(30) DEF SelectionHolds, Chosen, Identity
<1>5. /\ side["server"].keys = Base /\ side["client"].keys # Rekeyed
      /\ side["client"].pc = "confirmation"
  <2>1. side["server"].keys = Base /\ side["client"].keys # Rekeyed
    BY <1>0, SessionKeysDiffer DEF LiveInv, Standing, KeysFollow
  <2>2. conf.clientFS
    BY <1>0 DEF SelectionHolds
  <2>3. side["client"].pc # "failed"
    BY DEF Alive
  <2>. QED
    BY <1>0, <2>1, <2>2, <2>3 DEF LiveInv, Standing, SelectionHolds, Chosen
<1>6. Standing'
  BY <1>0, <1>1, <1>2, <1>5, SessionKeysDiffer, SMTT(30) DEF LiveInv, Standing, Identity
<1>7. CarriersFollow'
  BY <1>0, <1>1, <1>2, ZenonT(30) DEF LiveInv, CarriersFollow
<1>8. Boundary'
  <2>1. wire["server"] = <<>>
    BY <1>0, <1>5 DEF LiveInv, Boundary
  <2>2. side'["server"].keys # Rekeyed'
    BY <1>1, <1>2, <1>5, SessionKeysDiffer DEF Identity
  <2>. QED
    BY <1>1, <1>2, <1>5, <2>1, <2>2 DEF Boundary
<1>. QED
  BY <1>1, <1>3, <1>4, <1>6, <1>7, <1>8, SMTT(30) DEF SecureInv, LiveInv

\* The server takes the client's acceptance.
LEMMA ServerAccepted ==
    ASSUME SecureInv, AcceptReceived
    PROVE  SecureInv'
<1> USE DEF Sides
<1>0. SecureTyped /\ KeysFollow /\ SelectionHolds /\ Alive /\ LiveInv
  BY DEF SecureInv, AcceptReceived, Waits
<1>1. /\ side["server"].pc = "accept" /\ UNCHANGED <<conf, wire, sealed, slow>>
      /\ inbox["server"] # <<>> /\ Head(inbox["server"]).type = "accept"
      /\ inbox' = [inbox EXCEPT !["server"] = Tail(@)]
  BY DEF AcceptReceived, Waits, Message
<1>2. PICK m : m = Head(inbox["server"])
  OBVIOUS
<1>3. /\ m \in Recs /\ Says("server", m) /\ inbox' \in [Sides -> Seq(Recs)]
      /\ \A y \in Sides : \A k \in 1 .. Len(inbox'[y]) :
            \E j \in 1 .. Len(inbox[y]) : inbox'[y][k] = inbox[y][j]
  BY <1>1, <1>2, InboxTaken, SMTT(30)
<1>4. /\ Chosen /\ side["client"].selected = m.caps /\ m.caps \in SUBSET Caps
      /\ "fs" \notin m.caps => side["client"].negotiated
  BY <1>1, <1>2, <1>3, SMTT(30) DEF Says, Recs
<1>5. rec["server"].keys = Base /\ rec["server"].keys # <<>>
  BY <1>0, <1>1, SessionKeysDiffer DEF LiveInv, Standing
<1>6. IF "fs" \in m.caps
      THEN /\ side' = [side EXCEPT !["server"].pc = "ready", !["server"].selected = m.caps]
           /\ rec' = [rec EXCEPT !["server"] = rekeyAfterNextSend(@)]
      ELSE Completed("server", rec["server"], TRUE, m.caps)
  BY <1>2, Zenon DEF AcceptReceived
<1>7. CASE "fs" \in m.caps
  <2> DEFINE q == [side["server"] EXCEPT !.pc = "ready", !.selected = m.caps]
             r == [rec["server"] EXCEPT !.pending = TRUE]
  <2>1. side' = [side EXCEPT !["server"] = q] /\ rec' = [rec EXCEPT !["server"] = r]
    BY <1>0, <1>6, <1>7, Zenon DEF SecureTyped, rekeyAfterNextSend
  <2>2. /\ q \in SideRecs /\ q.pc = "ready" /\ Identity(q, side["server"]) /\ q.selected = m.caps
        /\ q.broken = side["server"].broken /\ q.negotiated = side["server"].negotiated
    BY <1>0, <1>4, ZenonT(30) DEF SecureTyped, SideRecs, Pcs, Identity
  <2>3. /\ r \in RecordStates /\ r.keys = rec["server"].keys /\ r.send = rec["server"].send
        /\ r.sendEpoch = rec["server"].sendEpoch /\ r.recv = rec["server"].recv
        /\ r.recvEpoch = rec["server"].recvEpoch /\ r.ratchet = rec["server"].ratchet
        /\ r.pending /\ r.paused = rec["server"].paused
    BY <1>0, ZenonT(30) DEF SecureTyped, RecordStates
  <2> HIDE DEF q, r
  <2>4. QuietStep("server", q, r)
    BY <1>0, <1>1, <1>3, <1>5, <2>1, <2>2, <2>3 DEF QuietStep, SecureTyped
  <2>. QED
    BY <1>0, <1>1, <1>4, <1>7, <2>2, <2>3, <2>4, ServerArms
<1>8. CASE "fs" \notin m.caps
  <2> DEFINE q == [side["server"] EXCEPT !.pc = "up", !.done = TRUE, !.negotiated = TRUE,
                                         !.selected = m.caps]
             r == [rec["server"] EXCEPT !.paused = FALSE]
  <2>1. side' = [side EXCEPT !["server"] = q] /\ rec' = [rec EXCEPT !["server"] = r]
    BY <1>0, <1>6, <1>8, Zenon DEF SecureTyped, Completed
  <2>2. /\ q \in SideRecs /\ q.pc = "up" /\ Identity(q, side["server"]) /\ q.selected = m.caps
        /\ q.broken = side["server"].broken
    BY <1>0, <1>4, ZenonT(30) DEF SecureTyped, SideRecs, Pcs, Identity
  <2>3. /\ r \in RecordStates /\ r.keys = rec["server"].keys /\ r.send = rec["server"].send
        /\ r.sendEpoch = rec["server"].sendEpoch /\ r.recv = rec["server"].recv
        /\ r.recvEpoch = rec["server"].recvEpoch /\ r.ratchet = rec["server"].ratchet
        /\ r.pending = rec["server"].pending
    BY <1>0, Zenon DEF SecureTyped, RecordStates
  <2> HIDE DEF q, r
  <2>4. QuietStep("server", q, r)
    BY <1>0, <1>1, <1>3, <1>5, <2>1, <2>2, <2>3, SMTT(30) DEF QuietStep, SecureTyped
  <2>. QED
    BY <1>0, <1>1, <1>4, <1>8, <2>2, <2>3, <2>4, ServerDone, SMTT(30)
<1>. QED
  BY <1>7, <1>8

\* The server takes the acknowledgement: the client has rekeyed.
LEMMA ServerAcknowledged ==
    ASSUME SecureInv, AckReceived
    PROVE  SecureInv'
<1> USE DEF Sides
<1>0. SecureTyped /\ KeysFollow /\ SelectionHolds /\ Alive /\ LiveInv
  BY DEF SecureInv, AckReceived, Waits
<1>1. /\ side["server"].pc = "ack" /\ UNCHANGED <<conf, wire, sealed, slow>>
      /\ inbox["server"] # <<>> /\ Head(inbox["server"]).type = "ack"
      /\ inbox' = [inbox EXCEPT !["server"] = Tail(@)]
  BY DEF AckReceived, Waits, Message
<1>2. /\ Says("server", Head(inbox["server"])) /\ inbox' \in [Sides -> Seq(Recs)]
      /\ \A y \in Sides : \A k \in 1 .. Len(inbox'[y]) :
            \E j \in 1 .. Len(inbox[y]) : inbox'[y][k] = inbox[y][j]
  BY <1>1, InboxTaken
<1>3. Chosen /\ side["client"].keys = Rekeyed /\ side["client"].negotiated
  BY <1>1, <1>2 DEF Says
<1>4. side["server"].selected = side["client"].selected
  BY <1>0, <1>1 DEF SelectionHolds
<1>5. rec["server"].keys = Rekeyed /\ rec["server"].keys # <<>>
  BY <1>0, <1>1, SessionKeysDiffer DEF LiveInv, Standing
<1> DEFINE q == [side["server"] EXCEPT !.pc = "up", !.done = TRUE, !.negotiated = TRUE,
                                       !.selected = side["server"].selected]
           r == [rec["server"] EXCEPT !.paused = FALSE]
<1>6. side' = [side EXCEPT !["server"] = q] /\ rec' = [rec EXCEPT !["server"] = r]
  BY <1>0, Zenon DEF SecureTyped, Completed, AckReceived
<1>7. /\ q \in SideRecs /\ q.pc = "up" /\ Identity(q, side["server"])
      /\ q.selected = side["server"].selected /\ q.broken = side["server"].broken
  BY <1>0, ZenonT(30) DEF SecureTyped, SideRecs, Pcs, Identity
<1>8. /\ r \in RecordStates /\ r.keys = rec["server"].keys /\ r.send = rec["server"].send
      /\ r.sendEpoch = rec["server"].sendEpoch /\ r.recv = rec["server"].recv
      /\ r.recvEpoch = rec["server"].recvEpoch /\ r.ratchet = rec["server"].ratchet
      /\ r.pending = rec["server"].pending
  BY <1>0, Zenon DEF SecureTyped, RecordStates
<1> HIDE DEF q, r
<1>9. QuietStep("server", q, r)
  BY <1>0, <1>1, <1>2, <1>5, <1>6, <1>7, <1>8 DEF QuietStep, SecureTyped
<1>. QED
  BY <1>0, <1>1, <1>3, <1>4, <1>7, <1>8, <1>9, ServerDone, SMTT(30)

\* The client stops waiting for an offer it does not need.
LEMMA ClientGoesWithout ==
    ASSUME SecureInv, Alive, side["client"].pc = "offer", ~conf.clientFS, NEW q, NEW r,
           QuietStep("client", q, r), q.pc = "up", q.done, q.selected = {}, slow' = slow,
           r.pending = rec["client"].pending
    PROVE  SecureInv'
<1> USE DEF Sides
<1>0. SecureTyped /\ KeysFollow /\ SelectionHolds /\ LiveInv
  BY DEF SecureInv
<1>1. /\ SecureTyped' /\ KeysFollow' /\ NoncesBehind' /\ RecordsAlwaysOpen'
      /\ Base' = Base /\ Rekeyed' = Rekeyed /\ Handshaking'
      /\ slow \/ RecordsLineUp'
      /\ Lasting => MessagesHold'
      /\ side'["client"] = q /\ rec'["client"] = r
      /\ side'["server"] = side["server"] /\ rec'["server"] = rec["server"]
  BY QuietKeeps
<1>2. /\ conf' = conf /\ wire' = wire /\ Identity(q, side["client"])
      /\ r.keys = rec["client"].keys /\ r.sendEpoch = rec["client"].sendEpoch
      /\ r.recvEpoch = rec["client"].recvEpoch /\ r.ratchet = rec["client"].ratchet
      /\ r.send = rec["client"].send /\ r.recv = rec["client"].recv
  BY DEF QuietStep
<1>3. ~Chosen /\ Chosen'
  BY <1>1 DEF Chosen
<1>4. Lasting
  BY <1>1, <1>2, <1>3, SMTT(30) DEF Lasting
<1>5. SelectionHolds'
  BY <1>0, <1>1, <1>2, <1>3, SMTT(30) DEF SelectionHolds
<1>6. side["client"].keys = Base /\ side["server"].keys # Rekeyed /\ side["server"].pc # "ready"
  BY <1>0, SessionKeysDiffer, SMTT(30) DEF LiveInv, Standing
<1>7. Standing'
  BY <1>0, <1>1, <1>2, <1>6, SessionKeysDiffer, SMTT(30) DEF LiveInv, Standing, Identity
<1>8. CarriersFollow'
  <2>1. CarriersFollow
    BY <1>0 DEF LiveInv
  <2>2. /\ ~rec'["client"].pending /\ (rec'["server"].pending <=> side'["server"].pc = "ready")
        /\ side'["client"].pc \in {"offer", "confirmation", "acknowledge"} /\ conf'.clientFS =>
             rec'["client"].paused
        /\ side'["server"].pc \in {"offer", "accept", "ready", "ack"} /\ conf'.serverFS =>
             rec'["server"].paused
    BY <1>1, <1>2, <2>1 DEF CarriersFollow
  <2>3. \A x \in Sides : /\ rec'[x].ratchet = rec[x].ratchet /\ rec'[x].keys = rec[x].keys
                         /\ rec'[x].sendEpoch = rec[x].sendEpoch /\ rec'[x].recvEpoch = rec[x].recvEpoch
                         /\ rec'[x].send = rec[x].send /\ rec'[x].recv = rec[x].recv
    BY <1>1, <1>2
  <2>4. ASSUME NEW x \in Sides
        PROVE  /\ rec'[x].ratchet <=> rec'[x].keys = Rekeyed'
               /\ ~rec'[x].ratchet => rec'[x].sendEpoch = 0 /\ rec'[x].recvEpoch = 0
               /\ rec'[x].keys = <<>> => rec'[x].send = 0 /\ rec'[x].recv = 0
    <3>1. /\ rec[x].ratchet <=> rec[x].keys = Rekeyed
          /\ ~rec[x].ratchet => rec[x].sendEpoch = 0 /\ rec[x].recvEpoch = 0
          /\ rec[x].keys = <<>> => rec[x].send = 0 /\ rec[x].recv = 0
      BY <2>1 DEF CarriersFollow
    <3>. QED
      BY <1>1, <2>3, <3>1, Zenon
  <2>. QED
    BY <2>2, <2>4, Zenon DEF CarriersFollow
<1>9. Boundary'
  BY <1>1, <1>6 DEF Boundary
<1>. QED
  BY <1>1, <1>4, <1>5, <1>7, <1>8, <1>9, SMTT(30) DEF SecureInv, LiveInv

\* A side stops waiting for its peer.
LEMMA TimeoutKeeps ==
    ASSUME SecureInv, NEW x \in Sides, ExtensionTimeout(x)
    PROVE  SecureInv'
<1> USE DEF Sides
<1>0. SecureTyped /\ KeysFollow /\ SelectionHolds /\ Alive /\ LiveInv
  BY DEF SecureInv, ExtensionTimeout, Waits
<1>1. /\ side[x].pc \in {"offer", "confirmation", "accept", "ack"}
      /\ x = "server" => side[x].pc # "offer" 
      /\ slow' = (slow \/ side[x].pc = "ack") /\ UNCHANGED <<conf, wire, inbox, sealed>>
  BY DEF ExtensionTimeout
<1>2. /\ x = "server" => side[x].pc \in {"accept", "ack"}
      /\ x = "client" => side[x].pc \in {"offer", "confirmation"}
  BY <1>0, <1>1 DEF LiveInv, Standing
<1>3. rec[x].keys # <<>>
  BY <1>0, <1>2, SessionKeysDiffer DEF LiveInv, Standing
<1>4. Required # {} <=> conf.clientFS
  BY <1>0, OffersTyped, SMTT(30)
<1>5. CASE x = "client" /\ Required # {}
  <2> DEFINE q == [side[x] EXCEPT !.pc = "failed"]
  <2>1. /\ side' = [side EXCEPT ![x] = q] /\ rec' = rec
    BY <1>5 DEF ExtensionTimeout
  <2>2. q \in SideRecs /\ q.pc = "failed" /\ Same(q, side[x])
    BY <1>0, ZenonT(30) DEF SecureTyped, SideRecs, Pcs, Same, Identity
  <2> HIDE DEF q
  <2>3. slow' = slow
    BY <1>0, <1>1, <1>2, <1>5 DEF SecureTyped
  <2>4. SecureTyped'
    BY <1>0, <1>1, <2>1, <2>2, <2>3 DEF SecureTyped
  <2>. QED
    BY <1>1, <2>1, <2>2, <2>3, <2>4, GivesUp, Zenon DEF Same
<1>6. CASE ~(x = "client" /\ Required # {})
  <2> DEFINE q == [side[x] EXCEPT !.pc = "up", !.done = TRUE, !.negotiated = FALSE, !.selected = {}]
             r == [rec[x] EXCEPT !.paused = FALSE]
  <2>1. side' = [side EXCEPT ![x] = q] /\ rec' = [rec EXCEPT ![x] = r]
    BY <1>0, <1>6, Zenon DEF SecureTyped, Completed, ExtensionTimeout
  <2>2. /\ q \in SideRecs /\ q.pc = "up" /\ Identity(q, side[x]) /\ q.done /\ ~q.negotiated
        /\ q.selected = {} /\ q.broken = side[x].broken
    <3>1. PICK c \in SideRecs : c = side[x]
      BY <1>0 DEF SecureTyped
    <3>2. q = [c EXCEPT !.pc = "up", !.done = TRUE, !.negotiated = FALSE, !.selected = {}]
      BY <3>1
    <3>. HIDE DEF q
    <3>3. q = [pc |-> "up", keys |-> c.keys, features |-> c.features, device |-> c.device,
               credential |-> c.credential, done |-> TRUE, negotiated |-> FALSE,
               selected |-> {}, offer |-> c.offer, broken |-> c.broken]
      BY <3>2, Zenon DEF SideRecs
    <3>4. /\ c.keys \in KeySet /\ c.credential \in {"a", "b", NoSet} /\ c.features \in SUBSET Feats
          /\ c.device \in Devices /\ c.offer \in SUBSET Caps /\ c.broken \in BOOLEAN
      BY DEF SideRecs
    <3>5. q \in SideRecs
      BY <3>3, <3>4 DEF SideRecs, Pcs
    <3>. QED
      BY <3>1, <3>3, <3>5 DEF Identity
  <2>3. /\ r \in RecordStates /\ r.keys = rec[x].keys /\ r.send = rec[x].send
        /\ r.sendEpoch = rec[x].sendEpoch /\ r.recv = rec[x].recv
        /\ r.recvEpoch = rec[x].recvEpoch /\ r.ratchet = rec[x].ratchet
        /\ r.pending = rec[x].pending
    BY <1>0, Zenon DEF SecureTyped, RecordStates
  <2> HIDE DEF q, r
  <2>4. QuietStep(x, q, r)
    <3>1. slow' \in BOOLEAN /\ (slow => slow') /\ inbox' \in [Sides -> Seq(Recs)]
          /\ \A y \in Sides : \A k \in 1 .. Len(inbox'[y]) :
                \E j \in 1 .. Len(inbox[y]) : inbox'[y][k] = inbox[y][j]
      BY <1>0, <1>1, SMTT(30) DEF SecureTyped
    <3>. QED
      BY <1>1, <1>3, <2>1, <2>2, <2>3, <3>1 DEF QuietStep
  <2>5. CASE x = "server"
    BY <1>0, <1>1, <1>2, <2>2, <2>3, <2>4, <2>5, ServerDone, ZenonT(30)
  <2>6. CASE x = "client"
    <3>1. ~conf.clientFS
      BY <1>4, <1>6, <2>6, SMTT(30)
    <3>2. side["client"].pc = "offer"
      BY <1>0, <1>2, <2>6, <3>1 DEF SelectionHolds
    <3>3. slow' = slow
      BY <1>0, <1>1, <2>6, <3>2 DEF SecureTyped
    <3>. QED
      BY <1>0, <2>2, <2>3, <2>4, <2>6, <3>1, <3>2, <3>3, ClientGoesWithout, Zenon
  <2>. QED
    BY <2>5, <2>6
<1>. QED
  BY <1>5, <1>6

\* The rekey restarts the counters under the forward-secret keys.
LEMMA RekeyIs ==
    ASSUME SecureTyped, NEW s \in RecordStates, s.keys = Base, NEW r, r = rekey(s)
    PROVE  /\ r \in RecordStates /\ r.keys = Rekeyed /\ r.send = 0 /\ r.recv = 0
           /\ r.sendEpoch = 0 /\ r.recvEpoch = 0 /\ r.ratchet /\ ~r.pending /\ r.paused = s.paused
<1>1. Rekeyed \in KeySet
  BY SessionKeysTyped
<1>2. r = [s EXCEPT !.keys = Rekeyed, !.send = 0, !.recv = 0, !.sendEpoch = 0,
                    !.recvEpoch = 0, !.ratchet = TRUE, !.pending = FALSE]
  BY DEF rekey, applyRekey, Rekeyed
<1>3. r = [keys |-> Rekeyed, send |-> 0, recv |-> 0, sendEpoch |-> 0, recvEpoch |-> 0,
           ratchet |-> TRUE, pending |-> FALSE, dummies |-> s.dummies, paused |-> s.paused]
  BY <1>2, Zenon DEF RecordStates
<1>4. s.dummies \in Nat /\ s.paused \in BOOLEAN
  BY DEF RecordStates
<1>5. r \in RecordStates
  BY <1>1, <1>3, <1>4 DEF RecordStates
<1>. QED
  BY <1>3, <1>5

\* Sending with the rekey armed.
LEMMA SentRekeys ==
    ASSUME SecureTyped, NEW x \in Sides, rec[x].pending, rec[x].keys = Base
    PROVE  \E s \in RecordStates : s.keys = Base /\ s.paused = rec[x].paused /\ Sent(x) = rekey(s)
<1>1. PICK r \in RecordStates : r = rec[x]
  BY DEF SecureTyped
<1>2. PICK e \in Nat : e = Seal(x).epoch
  BY SentPlain, Zenon DEF Seals
<1>3. PICK n \in Nat : n = r.send + 1
  BY DEF RecordStates
<1> DEFINE s == [r EXCEPT !.sendEpoch = e, !.send = n]
<1>4. s \in RecordStates /\ s.keys = r.keys /\ s.pending = r.pending /\ s.paused = r.paused
  BY Zenon DEF RecordStates
<1>5. Sent(x) = IF s.pending THEN rekey(s) ELSE s
  BY <1>1, <1>2, <1>3 DEF Sent
<1> HIDE DEF s
<1>6. Sent(x) = rekey(s)
  BY <1>1, <1>4, <1>5, SMTT(30)
<1>. QED
  BY <1>1, <1>4, <1>6

\* The server's confirmation: its last record under the old keys.
LEMMA ServerRekeys ==
    ASSUME SecureInv, applyServerForwardSecrecy
    PROVE  SecureInv'
<1> USE DEF Sides
<1>0. SecureTyped /\ KeysFollow /\ MessagesHold /\ SelectionHolds /\ NoncesBehind /\ RecordsAlwaysOpen
      /\ Alive /\ LiveInv
  BY DEF SecureInv, applyServerForwardSecrecy, Waits
<1>1. side["server"].pc = "ready" /\ UNCHANGED <<conf, inbox, slow>>
  BY DEF applyServerForwardSecrecy, Waits
<1>2. PICK m : m = [seal |-> Seal("server"), type |-> "ready", id |-> 3, caps |-> {}]
  BY Zenon
<1>3. m \in Recs /\ m.seal = Seal("server") /\ m.type = "ready" /\ m \in Messages /\ m.type \in RecTypes
  <2>1. "ready" \in RecTypes /\ 3 \in Nat /\ {} \in SUBSET Caps
    BY DEF RecTypes
  <2>2. m \in Recs /\ m.seal = Seal("server") /\ m.type = "ready"
    BY <1>0, <1>2, <2>1, RecordTyped
  <2>. QED
    BY <2>1, <2>2 DEF Messages
<1>4. /\ side["server"].keys = Base /\ rec["server"].keys = Base /\ rec["server"].pending
      /\ side["client"].pc = "confirmation" /\ side["client"].keys = Base
      /\ rec["client"].keys = Base
  BY <1>0, <1>1 DEF LiveInv, Standing, CarriersFollow
<1>5. PICK r : r = Sent("server")
  OBVIOUS
<1>6. /\ r \in RecordStates /\ r.keys = Rekeyed /\ r.send = 0 /\ r.recv = 0
      /\ r.sendEpoch = 0 /\ r.recvEpoch = 0 /\ r.ratchet /\ ~r.pending
      /\ r.paused = rec["server"].paused
  <2>1. PICK s \in RecordStates : s.keys = Base /\ s.paused = rec["server"].paused /\ r = rekey(s)
    BY <1>0, <1>4, <1>5, SentRekeys
  <2>. QED
    BY <1>0, <2>1, RekeyIs
<1>7. PICK q : q = [side["server"] EXCEPT !.pc = "ack", !.keys = Rekeyed]
  OBVIOUS
<1>8. /\ q \in SideRecs /\ q.pc = "ack" /\ q.keys = Rekeyed
      /\ q.features = side["server"].features /\ q.device = side["server"].device
      /\ q.credential = side["server"].credential
      /\ q.selected = side["server"].selected /\ q.negotiated = side["server"].negotiated
      /\ q.done = side["server"].done /\ q.broken = side["server"].broken
  <2>1. Rekeyed \in KeySet
    BY <1>0, SessionKeysTyped
  <2>. QED
    BY <1>0, <1>7, <2>1, ZenonT(30) DEF SecureTyped, SideRecs, Pcs
<1>9. side' = [side EXCEPT !["server"] = q]
  BY <1>0, <1>4, <1>7, Zenon DEF SecureTyped, applyServerForwardSecrecy, Rekeyed
<1>10. side'["server"] = q /\ side'["client"] = side["client"] /\ side' \in [Sides -> SideRecs]
  BY <1>0, <1>8, <1>9 DEF SecureTyped
<1>11. /\ wire' = [wire EXCEPT !["client"] = Append(@, m)]
       /\ sealed' = [nonces |-> sealed.nonces \cup {<<"server", Seal("server")>>},
                     repeated |-> sealed.repeated \/ <<"server", Seal("server")>> \in sealed.nonces]
       /\ rec' = [rec EXCEPT !["server"] = r]
  BY <1>2, <1>5 DEF applyServerForwardSecrecy, Send, Peer
<1>12. /\ rec'["server"] = r /\ rec'["client"] = rec["client"] /\ rec' \in [Sides -> RecordStates]
       /\ wire'["client"] = Append(wire["client"], m) /\ wire'["server"] = wire["server"]
       /\ wire["client"] \in Seq(Messages) /\ wire' \in [Sides -> Seq(Messages)]
  <2>1. wire["client"] \in Seq(Messages) /\ Append(wire["client"], m) \in Seq(Messages)
    BY <1>0, <1>3, AppendProperties DEF SecureTyped
  <2>. QED
    BY <1>0, <1>6, <1>11, <2>1, SMTT(30) DEF SecureTyped
<1>13. sealed' \in [nonces : SUBSET (Sides \X Seals), repeated : BOOLEAN]
  <2>1. <<"server", Seal("server")>> \in Sides \X Seals
    BY <1>0, SentPlain
  <2>2. sealed.nonces \in SUBSET (Sides \X Seals) /\ sealed.repeated \in BOOLEAN
    BY <1>0 DEF SecureTyped
  <2>. QED
    BY <1>11, <2>1, <2>2, SMTT(30)
<1>14. SecureTyped'
  BY <1>0, <1>1, <1>10, <1>12, <1>13, SMTT(30) DEF SecureTyped
<1>15. Base' = Base /\ Rekeyed' = Rekeyed
  BY <1>1, <1>10, BaseSame, SMTT(30)
<1>16. KeysFollow'
  BY <1>0, <1>1, <1>4, <1>8, <1>10, <1>15, SessionKeysDiffer, SMTT(30) DEF KeysFollow
<1>17. NoncesBehind'
  BY <1>0, <1>4, <1>6, <1>11, <1>12, <1>15, NoncesSent, SMTT(30)
<1>18. Lasting
  BY <1>1, <1>8, <1>10, <1>15, SMTT(30) DEF Lasting, Chosen
<1>19. /\ Len(wire["client"]) \in Nat /\ Len(wire'["client"]) = Len(wire["client"]) + 1
       /\ wire'["client"][Len(wire["client"]) + 1] = m
       /\ \A k \in 1 .. Len(wire["client"]) : wire'["client"][k] = wire["client"][k]
  BY <1>3, <1>12, AppendProperties, LenProperties, SMTT(30)
<1>20. MessagesHold'
  <2>1. Says("client", m)'
    BY <1>3, <1>8, <1>10, <1>15, SMTT(30) DEF Says
  <2>2. ASSUME NEW k \in 1 .. Len(wire'["client"])
        PROVE  \/ \E j \in 1 .. Len(wire["client"]) : wire'["client"][k] = wire["client"][j]
               \/ Says("client", wire["client"][k])'
    <3>1. CASE k \in 1 .. Len(wire["client"])
      BY <1>19, <3>1, SMTT(30)
    <3>2. CASE k = Len(wire["client"]) + 1
      <4>1. wire'["client"][k] = m
        BY <1>19, <3>2, SMTT(30)
      <4>. QED
        BY <2>1, <4>1 DEF Says
    <3>. QED
      BY <1>19, <3>1, <3>2
  <2>3. ASSUME NEW y \in Sides, NEW k \in 1 .. Len(wire'[y])
        PROVE  \/ \E j \in 1 .. Len(wire[y]) : wire'[y][k] = wire[y][j]
               \/ wire'[y][k].type \in RecTypes => Says(y, wire[y][k])'
    BY <1>12, <2>2, SMTT(30)
  <2>. QED
    BY <1>0, <1>1, <1>18, <2>3, MessagesLast, SMTT(30)
<1>21. SelectionHolds'
  BY <1>0, <1>1, <1>8, <1>10, <1>15, SMTT(30) DEF SelectionHolds, Chosen
<1>22. RecordsAlwaysOpen'
  BY <1>0, <1>1, <1>8, <1>10, SMTT(30) DEF RecordsAlwaysOpen
<1>23. Standing'
  BY <1>0, <1>1, <1>4, <1>6, <1>8, <1>10, <1>12, <1>15, SessionKeysDiffer, SMTT(30) DEF LiveInv, Standing
<1>24. Handshaking'
  <2>1. \A y \in Sides : \A k \in 1 .. Len(wire[y]) : wire[y][k].type \in RecTypes
    BY <1>0, <1>4, SessionKeysDiffer, Zenon DEF LiveInv, Handshaking
  <2>2. \A k \in 1 .. Len(wire'["client"]) : wire'["client"][k].type \in RecTypes
    BY <1>3, <1>19, <2>1, SMTT(30)
  <2>3. \A y \in Sides : \A k \in 1 .. Len(wire'[y]) : wire'[y][k].type \in RecTypes
    BY <1>12, <2>1, <2>2, Zenon
  <2>. QED
    BY <1>4, <1>8, <1>10, <2>3, SessionKeysDiffer, SMTT(30) DEF Handshaking
<1>25. CarriersFollow'
  BY <1>0, <1>1, <1>6, <1>8, <1>10, <1>12, <1>15, SessionKeysDiffer, SMTT(30) DEF LiveInv, CarriersFollow
<1>26. Boundary'
  <2>1. wire'["server"] = <<>>
    BY <1>0, <1>1, <1>4, <1>12, SMTT(30) DEF LiveInv, Boundary
  <2>2. \A k \in 1 .. Len(wire["client"]) : wire["client"][k].type # "ready"
    BY <1>0, <1>3, <1>4, SessionKeysDiffer, SMTT(30) DEF MessagesHold, Says
  <2>3. \A k \in 1 .. Len(inbox'["client"]) : inbox'["client"][k].type # "ready"
    BY <1>0, <1>1, <1>4, SessionKeysDiffer, SMTT(30) DEF MessagesHold, Says
  <2>4. \A k \in 1 .. Len(wire'["client"]) :
           wire'["client"][k].type = "ready" <=> k = Len(wire'["client"])
    BY <1>3, <1>19, <2>2, SMTT(30)
  <2>5. side'["client"].pc = "confirmation"
    BY <1>4, <1>10
  <2>. QED
    BY <2>1, <2>3, <2>4, <2>5, SMTT(30) DEF Boundary
<1>27. ~slow => RecordsLineUp'
  <2>0. SUFFICES ASSUME ~slow PROVE RecordsLineUp'
    OBVIOUS
  <2>1. InStep("client")
    BY <1>0, <1>4, <2>0, SessionKeysDiffer DEF LiveInv, RecordsLineUp
  <2>2. PICK w, n, e : w = wire["client"] /\ n = rec["client"].recv /\ e = rec["client"].recvEpoch
    OBVIOUS
  <2>3. /\ rec["client"].ratchet = FALSE /\ rec["server"].ratchet = FALSE /\ e = 0 /\ n \in Nat
        /\ ~rec["client"].ratchet
    <3>1. ~rec["client"].ratchet /\ ~rec["server"].ratchet /\ rec["client"].recvEpoch = 0
      BY <1>0, <1>4, SessionKeysDiffer DEF LiveInv, CarriersFollow
    <3>2. rec["client"].ratchet \in BOOLEAN /\ rec["server"].ratchet \in BOOLEAN /\ rec["client"].recv \in Nat
      BY <1>0 DEF SecureTyped, RecordStates
    <3>. QED
      BY <2>2, <3>1, <3>2, SMTT(30)
  <2>4. /\ Chain(w, 1, Base, FALSE, n, 0) /\ rec["server"].send = n + Len(w)
        /\ rec["server"].sendEpoch = LastEpoch(w, 1, 0)
    <3>1. Peer("client") = "server"
      BY DEF Peer
    <3>. QED
      BY <1>4, <2>1, <2>2, <2>3, <3>1, Zenon DEF InStep
  <2>5. m.seal = [key |-> Base, counter |-> n + (Len(w) + 1 - 1),
                  epoch |-> Rotated(FALSE, n + (Len(w) + 1 - 1), LastEpoch(w, 1, 0))]
    <3>1. rec["server"].send = n + (Len(w) + 1 - 1)
      BY <1>19, <2>2, <2>3, <2>4
    <3>. QED
      BY <1>3, <1>4, <2>3, <2>4, <3>1, SealIs, Zenon
  <2>6. Chain(Append(w, m), 1, Base, FALSE, n, 0)
    <3>1. w \in Seq(Messages) /\ 1 <= Len(w) + 1 /\ m \in Messages
          /\ 1 \in {1, 2} /\ FALSE \in BOOLEAN /\ 0 \in Nat /\ n \in Nat
      BY <1>3, <1>12, <1>19, <2>2, <2>3, SMTT(30)
    <3>. QED
      BY <2>4, <2>5, <3>1, ChainAppend, ZenonT(30)
  <2>7. /\ wire'["client"] = Append(w, m) /\ rec'["client"].recv = n /\ rec'["client"].keys = Base
        /\ rec'["server"] = r
    BY <1>4, <1>12, <2>2, SMTT(30)
  <2>. QED
    BY <1>6, <1>15, <2>6, <2>7, SessionKeysDiffer, ZenonT(30) DEF RecordsLineUp
<1>. QED
  BY <1>1, <1>14, <1>16, <1>17, <1>20, <1>21, <1>22, <1>23, <1>24, <1>25, <1>26, <1>27, SMTT(30)
  DEF SecureInv, LiveInv

\* The client crosses the boundary: nothing of the old keys is in flight
\* either way, unless the server was slow.
LEMMA ClientRekeys ==
    ASSUME SecureInv, applyClientForwardSecrecy
    PROVE  SecureInv'
<1> USE DEF Sides
<1>0. SecureTyped /\ KeysFollow /\ MessagesHold /\ SelectionHolds /\ NoncesBehind /\ RecordsAlwaysOpen
      /\ Alive /\ LiveInv
  BY DEF SecureInv, applyClientForwardSecrecy, Waits
<1>1. /\ side["client"].pc = "confirmation" /\ UNCHANGED <<conf, wire, sealed, slow>>
      /\ inbox["client"] # <<>> /\ Head(inbox["client"]).type = "ready"
      /\ inbox' = [inbox EXCEPT !["client"] = Tail(@)]
  BY DEF applyClientForwardSecrecy, Waits, Message
<1>2. /\ Says("client", Head(inbox["client"])) /\ inbox' \in [Sides -> Seq(Recs)]
      /\ \A y \in Sides : \A k \in 1 .. Len(inbox'[y]) :
            \E j \in 1 .. Len(inbox[y]) : inbox'[y][k] = inbox[y][j]
  BY <1>1, InboxTaken
<1>3. side["server"].keys = Rekeyed
  BY <1>1, <1>2, SMTT(30) DEF Says
<1>4. /\ rec["server"].keys = Rekeyed /\ side["client"].keys = Base /\ rec["client"].keys = Base
  BY <1>0, <1>1, <1>3 DEF LiveInv, Standing
<1>5. PICK r : r = rekey(rec["client"])
  OBVIOUS
<1>6. /\ r \in RecordStates /\ r.keys = Rekeyed /\ r.send = 0 /\ r.recv = 0
      /\ r.sendEpoch = 0 /\ r.recvEpoch = 0 /\ r.ratchet /\ ~r.pending
      /\ r.paused = rec["client"].paused
  <2>1. rec["client"] \in RecordStates
    BY <1>0 DEF SecureTyped
  <2>. QED
    BY <1>0, <1>4, <1>5, <2>1, RekeyIs, SMTT(30)
<1>7. PICK q : q = [side["client"] EXCEPT !.pc = "acknowledge", !.keys = Rekeyed]
  OBVIOUS
<1>8. /\ q \in SideRecs /\ q.pc = "acknowledge" /\ q.keys = Rekeyed
      /\ q.features = side["client"].features /\ q.device = side["client"].device
      /\ q.credential = side["client"].credential
      /\ q.selected = side["client"].selected /\ q.negotiated = side["client"].negotiated
      /\ q.done = side["client"].done /\ q.broken = side["client"].broken
  <2>1. Rekeyed \in KeySet
    BY <1>0, SessionKeysTyped
  <2>. QED
    BY <1>0, <1>7, <2>1, ZenonT(30) DEF SecureTyped, SideRecs, Pcs
<1>9. side' = [side EXCEPT !["client"] = q] /\ rec' = [rec EXCEPT !["client"] = r]
  BY <1>0, <1>4, <1>5, <1>7, Zenon DEF SecureTyped, applyClientForwardSecrecy, Rekeyed
<1>10. /\ side'["client"] = q /\ side'["server"] = side["server"] /\ side' \in [Sides -> SideRecs]
       /\ rec'["client"] = r /\ rec'["server"] = rec["server"] /\ rec' \in [Sides -> RecordStates]
  BY <1>0, <1>6, <1>8, <1>9, SMTT(30) DEF SecureTyped
<1>14. SecureTyped'
  BY <1>0, <1>1, <1>2, <1>10, SMTT(30) DEF SecureTyped
<1>15. Base' = Base /\ Rekeyed' = Rekeyed
  BY <1>1, <1>8, <1>10, BaseSame, SMTT(30)
<1>16. KeysFollow'
  BY <1>0, <1>1, <1>3, <1>8, <1>10, <1>15, SessionKeysDiffer, SMTT(30) DEF KeysFollow
<1>17. NoncesBehind'
  BY <1>0, <1>1, <1>4, <1>6, <1>10, <1>15, NoncesKept, SMTT(30)
<1>18. Lasting
  BY <1>1, <1>8, <1>10, <1>15, SMTT(30) DEF Lasting, Chosen
<1>20. MessagesHold'
  <2>1. \A y \in Sides : \A k \in 1 .. Len(wire'[y]) :
           \E j \in 1 .. Len(wire[y]) : wire'[y][k] = wire[y][j]
    BY <1>1
  <2>. QED
    BY <1>0, <1>2, <1>18, <2>1, MessagesLast, SMTT(30)
<1>21. SelectionHolds'
  BY <1>0, <1>1, <1>8, <1>10, <1>15, SMTT(30) DEF SelectionHolds, Chosen
<1>22. RecordsAlwaysOpen'
  BY <1>0, <1>1, <1>8, <1>10, SMTT(30) DEF RecordsAlwaysOpen
<1>23. Standing'
  BY <1>0, <1>1, <1>3, <1>4, <1>6, <1>8, <1>10, <1>15, SessionKeysDiffer, SMTT(30) DEF LiveInv, Standing
<1>24. Handshaking'
  <2>1. \A y \in Sides : \A k \in 1 .. Len(wire[y]) : wire[y][k].type \in RecTypes
    BY <1>0, <1>4, SessionKeysDiffer, Zenon DEF LiveInv, Handshaking
  <2>2. side["server"].pc \notin {"start", "response"}
    BY <1>0, <1>3, SessionKeysDiffer, SMTT(30) DEF LiveInv, Standing
  <2>. QED
    BY <1>1, <1>8, <1>10, <2>1, <2>2, SessionKeysDiffer, ZenonT(30) DEF Handshaking
<1>25. CarriersFollow'
  BY <1>0, <1>1, <1>6, <1>8, <1>10, <1>15, SessionKeysDiffer, SMTT(30) DEF LiveInv, CarriersFollow
<1>26. Boundary'
  BY <1>8, <1>10, <1>15, SMTT(30) DEF Boundary
<1>27. ~slow => RecordsLineUp'
  <2>0. SUFFICES ASSUME ~slow PROVE RecordsLineUp'
    OBVIOUS
  <2>1. wire["server"] = <<>>
    <3>1. side["server"].pc = "ack"
      BY <1>0, <1>3, <1>4, <2>0, SessionKeysDiffer DEF LiveInv, Standing
    <3>. QED
      BY <1>0, <1>1, <3>1 DEF LiveInv, Boundary
  <2>2. wire["client"] = <<>>
    <3>1. inbox["client"] \in Seq(Recs)
      BY <1>0, SMTT(30) DEF SecureTyped
    <3>2. 1 \in 1 .. Len(inbox["client"]) /\ inbox["client"][1].type = "ready"
      BY <1>1, <3>1, TailWithin, SMTT(30)
    <3>. QED
      BY <1>0, <1>3, <1>4, <2>0, <3>2, SessionKeysDiffer, SMTT(30) DEF LiveInv, Boundary
  <2>3. /\ rec["server"].send = 0 /\ rec["server"].recv = 0 /\ rec["server"].sendEpoch = 0
        /\ rec["server"].recvEpoch = 0
    BY <1>0, <1>4, <2>0, SMTT(30) DEF LiveInv, RecordsLineUp
  <2>4. \A y \in Sides : /\ wire'[y] = <<>> /\ rec'[y].send = 0 /\ rec'[y].recv = 0
                         /\ rec'[y].sendEpoch = 0 /\ rec'[y].recvEpoch = 0 /\ Peer(y) \in Sides
    BY <1>1, <1>6, <1>10, <2>1, <2>2, <2>3, SMTT(30) DEF Peer
  <2>5. ASSUME NEW y \in Sides PROVE InStep(y)'
    <3>1. Len(wire'[y]) = 0
      BY <2>4, EmptySeq, SMTT(30)
    <3>2. Chain(wire[y], 1, rec[y].keys, rec[y].ratchet, rec[y].recv, rec[y].recvEpoch)'
      BY <3>1 DEF Chain
    <3>3. LastEpoch(wire[y], 1, rec[y].recvEpoch)' = rec'[y].recvEpoch
      BY <3>1, SMTT(30) DEF LastEpoch
    <3>. QED
      BY <2>4, <3>1, <3>2, <3>3, SMTT(30) DEF InStep
  <2>6. rec'["client"].keys = Rekeyed' /\ rec'["server"].keys = Rekeyed'
    BY <1>4, <1>6, <1>10, <1>15, SMTT(30)
  <2>. QED
    BY <2>5, <2>6, SessionKeysDiffer, ZenonT(30) DEF RecordsLineUp
<1>. QED
  BY <1>1, <1>14, <1>16, <1>17, <1>20, <1>21, <1>22, <1>23, <1>24, <1>25, <1>26, <1>27, Zenon
  DEF SecureInv, LiveInv

\* A record to open: the handshake is over, and unless the server was slow
\* the records in flight are those the receiver expects.
LEMMA Arrives ==
    ASSUME SecureInv, Alive, NEW x \in Sides, rec[x].keys # <<>>, wire[x] # <<>>
    PROVE  /\ side["client"].keys # <<>> /\ side["server"].keys # <<>>
           /\ \A y \in Sides : \A k \in 1 .. Len(wire[y]) : wire[y][k].type \in RecTypes
           /\ ~slow => /\ Chain(wire[x], 1, rec[x].keys, rec[x].ratchet, rec[x].recv, rec[x].recvEpoch)
                       /\ x = "server" => rec["client"].keys = rec["server"].keys
<1> USE DEF Sides
<1>0. SecureTyped /\ KeysFollow /\ LiveInv
  BY SMTT(30) DEF SecureInv
<1>1. side["client"].keys # <<>> /\ side["server"].keys # <<>>
  BY <1>0, ZenonT(30) DEF LiveInv, Standing, KeysFollow, Handshaking
<1>2. \A y \in Sides : \A k \in 1 .. Len(wire[y]) : wire[y][k].type \in RecTypes
  BY <1>0, <1>1, ZenonT(30) DEF LiveInv, Handshaking
<1>3. SUFFICES ASSUME ~slow
      PROVE  /\ Chain(wire[x], 1, rec[x].keys, rec[x].ratchet, rec[x].recv, rec[x].recvEpoch)
             /\ x = "server" => rec["client"].keys = rec["server"].keys
  BY <1>1, <1>2, ZenonT(30)
<1>4. rec["client"].keys = side["client"].keys /\ rec["server"].keys = side["server"].keys
  BY <1>0 DEF LiveInv, Standing
<1>5. RecordsLineUp
  BY <1>0, <1>3, SMTT(30) DEF LiveInv
<1>6. CASE rec["client"].keys = rec["server"].keys
  BY <1>1, <1>4, <1>5, <1>6, SMTT(30) DEF RecordsLineUp, InStep
<1>7. CASE rec["client"].keys # rec["server"].keys
  <2>1. rec["client"].keys = Base /\ rec["server"].keys = Rekeyed
    BY <1>0, <1>1, <1>4, <1>7 DEF KeysFollow
  <2>2. x = "client"
    BY <1>0, <1>3, <1>4, <2>1, SessionKeysDiffer, SMTT(30) DEF LiveInv, Standing, Boundary
  <2>3. Chain(wire["client"], 1, rec["client"].keys, FALSE, rec["client"].recv, 0)
    BY <1>5, <2>1, ZenonT(30) DEF RecordsLineUp
  <2>4. rec["client"].ratchet = FALSE /\ rec["client"].recvEpoch = 0
    <3>1. ~rec["client"].ratchet /\ rec["client"].recvEpoch = 0
      BY <1>0, <2>1, SessionKeysDiffer DEF LiveInv, CarriersFollow
    <3>2. rec["client"].ratchet \in BOOLEAN
      BY <1>0 DEF SecureTyped, RecordStates
    <3>. QED
      BY <3>1, <3>2
  <2>. QED
    BY <2>2, <2>3, <2>4, ZenonT(30)
<1>. QED
  BY <1>6, <1>7

\* What a receive does to the carrier and to what is in flight.
Opening(x, m, e, r) ==
    /\ m = Head(wire[x]) /\ e = Rotated(rec[x].ratchet, rec[x].recv, rec[x].recvEpoch)
    /\ r \in RecordStates /\ rec' = [rec EXCEPT ![x] = r] /\ wire' = [wire EXCEPT ![x] = Tail(@)]
    /\ r.recv = rec[x].recv + 1 /\ r.recvEpoch = e /\ r.keys = rec[x].keys
    /\ r.send = rec[x].send /\ r.sendEpoch = rec[x].sendEpoch /\ r.ratchet = rec[x].ratchet
    /\ r.pending = rec[x].pending /\ r.paused = rec[x].paused
    /\ UNCHANGED <<conf, sealed, slow>> /\ rec[x].keys # <<>> /\ wire[x] # <<>>

\* Receive, by whether the record opens.
LEMMA ReceiveOpening ==
    ASSUME SecureInv, NEW x \in Sides, Receive(x)
    PROVE  \E m, e, r : /\ Opening(x, m, e, r)
                        /\ m.seal = [key |-> rec[x].keys, epoch |-> e, counter |-> rec[x].recv] =>
                             /\ side' = side
                             /\ inbox' = IF m.type # "dummy"
                                         THEN [inbox EXCEPT ![x] = Append(@, m)] ELSE inbox
                        /\ m.seal # [key |-> rec[x].keys, epoch |-> e, counter |-> rec[x].recv] =>
                             /\ side' = [side EXCEPT ![x].pc = "failed", ![x].broken = TRUE]
                             /\ inbox' = inbox
<1>0. SecureTyped
  BY DEF SecureInv
<1>1. PICK s \in RecordStates : s = rec[x]
  BY <1>0 DEF SecureTyped
<1>2. PICK e : e = RotatedKey(s, s.recv, s.recvEpoch)
  OBVIOUS
<1>3. e \in Nat /\ e = Rotated(s.ratchet, s.recv, s.recvEpoch)
  BY <1>2 DEF RotatedKey, Rotated, RecordStates
<1>4. PICK n \in Nat : n = s.recv + 1
  BY DEF RecordStates
<1>5. PICK m : m = Head(wire[x])
  OBVIOUS
<1> DEFINE r == [s EXCEPT !.recv = n, !.recvEpoch = e]
<1>6. r \in RecordStates /\ r.recv = n /\ r.recvEpoch = e /\ r.keys = s.keys
      /\ r.send = s.send /\ r.sendEpoch = s.sendEpoch /\ r.ratchet = s.ratchet
      /\ r.pending = s.pending /\ r.paused = s.paused
  <2>1. e \in Nat
    BY <1>3
  <2>. QED
    BY <2>1, Zenon DEF RecordStates
<1>7. rec' = [rec EXCEPT ![x] = r]
  <2>1. rec' = [rec EXCEPT ![x].recv = @ + 1, ![x].recvEpoch = e]
    BY <1>1, <1>2 DEF Receive
  <2>. QED
    BY <1>0, <1>1, <1>4, <2>1, Zenon DEF SecureTyped
<1> HIDE DEF r
<1>8. Opening(x, m, e, r)
  BY <1>1, <1>3, <1>4, <1>5, <1>6, <1>7, ZenonT(30) DEF Opening, Receive
<1>9. /\ side' = IF m.seal = [key |-> rec[x].keys, epoch |-> e, counter |-> rec[x].recv] THEN side
                 ELSE [side EXCEPT ![x].pc = "failed", ![x].broken = TRUE]
      /\ inbox' = IF m.seal = [key |-> rec[x].keys, epoch |-> e, counter |-> rec[x].recv]
                     /\ m.type # "dummy"
                  THEN [inbox EXCEPT ![x] = Append(@, m)] ELSE inbox
  BY <1>1, <1>2, <1>5 DEF Receive
<1>. QED
  BY <1>8, <1>9, Zenon

\* Where the receive leaves what is in flight, and that the record opens.
LEMMA OpeningPlaces ==
    ASSUME SecureInv, NEW x \in Sides, NEW m, NEW e, NEW r, Opening(x, m, e, r)
    PROVE  /\ rec'[x] = r /\ rec' \in [Sides -> RecordStates] /\ wire' \in [Sides -> Seq(Messages)]
           /\ wire'[x] = Tail(wire[x]) /\ wire[x] \in Seq(Messages) /\ m = wire[x][1]
           /\ \A y \in Sides \ {x} : rec'[y] = rec[y] /\ wire'[y] = wire[y]
<1>1. wire[x] \in Seq(Messages) /\ wire[x] # <<>> /\ SecureTyped
  BY DEF SecureInv, SecureTyped, Opening
<1>2. Tail(wire[x]) \in Seq(Messages) /\ Head(wire[x]) = wire[x][1]
  BY <1>1, TailWithin, SMTT(30)
<1>3. /\ rec'[x] = r /\ rec' \in [Sides -> RecordStates]
      /\ wire'[x] = Tail(wire[x]) /\ \A y \in Sides \ {x} : rec'[y] = rec[y] /\ wire'[y] = wire[y]
  BY <1>1, SMTT(30) DEF SecureTyped, Opening
<1>4. wire' \in [Sides -> Seq(Messages)]
  BY <1>1, <1>2, SMTT(30) DEF SecureTyped, Opening
<1>. QED
  BY <1>1, <1>2, <1>3, <1>4, Zenon DEF Opening

\* The record is one of the session's, and unless the server was slow it
\* opens.
LEMMA OpeningOpens ==
    ASSUME SecureInv, Alive, NEW x \in Sides, NEW m, NEW e, NEW r, Opening(x, m, e, r)
    PROVE  /\ \A y \in Sides : \A k \in 1 .. Len(wire'[y]) :
                 \E j \in 1 .. Len(wire[y]) : wire'[y][k] = wire[y][j]
           /\ m \in Recs /\ 1 \in 1 .. Len(wire[x]) /\ m.type \in RecTypes
           /\ ~slow => /\ m.seal = [key |-> rec[x].keys, epoch |-> e, counter |-> rec[x].recv]
                       /\ Chain(Tail(wire[x]), 1, rec[x].keys, rec[x].ratchet, r.recv, e)
                       /\ LastEpoch(Tail(wire[x]), 1, e) = LastEpoch(wire[x], 1, rec[x].recvEpoch)
<1>0. SecureTyped
  BY SMTT(30) DEF SecureInv
<1>1. PICK w \in Seq(Messages) : w = wire[x] /\ w # <<>>
  BY <1>0, ZenonT(30) DEF SecureTyped, Opening
<1>2. /\ Tail(w) \in Seq(Messages) /\ Head(w) \in Messages /\ Head(w) = w[1] /\ Len(w) \in Nat \ {0}
      /\ \A k \in 1 .. Len(Tail(w)) : \E j \in 1 .. Len(w) : Tail(w)[k] = w[j]
  BY <1>1, TailWithin, SMTT(30)
<1>3. wire'[x] = Tail(w) /\ \A y \in Sides \ {x} : wire'[y] = wire[y]
  BY <1>1, OpeningPlaces
<1>5. \A y \in Sides : \A k \in 1 .. Len(wire'[y]) :
         \E j \in 1 .. Len(wire[y]) : wire'[y][k] = wire[y][j]
  <2>1. \A k \in 1 .. Len(wire'[x]) : \E j \in 1 .. Len(wire[x]) : wire'[x][k] = wire[x][j]
    BY <1>1, <1>2, <1>3, SMTT(30)
  <2>2. \A y \in Sides \ {x} : \A k \in 1 .. Len(wire'[y]) :
           \E j \in 1 .. Len(wire[y]) : wire'[y][k] = wire[y][j]
    BY <1>3, SMTT(30)
  <2>. QED
    BY <2>1, <2>2
<1>6. 1 \in 1 .. Len(w) /\ m = w[1] /\ m \in Messages
  BY <1>1, <1>2, SMTT(30) DEF Opening
<1>7. m.type \in RecTypes
  BY <1>1, <1>6, Arrives, SMTT(30) DEF Opening
<1>8. m \in Recs
  BY <1>6, <1>7, SMTT(30) DEF Messages, Raws, RawTypes, RecTypes
<1>9. ASSUME ~slow
      PROVE  /\ m.seal = [key |-> rec[x].keys, epoch |-> e, counter |-> rec[x].recv]
             /\ Chain(Tail(w), 1, rec[x].keys, rec[x].ratchet, r.recv, e)
             /\ LastEpoch(Tail(w), 1, e) = LastEpoch(w, 1, rec[x].recvEpoch)
  <2>1. PICK key, t, n, f : key = rec[x].keys /\ t = rec[x].ratchet /\ n = rec[x].recv
                            /\ f = rec[x].recvEpoch
    BY ZenonT(30)
  <2>2. t \in BOOLEAN /\ n \in Nat /\ f \in Nat
    BY <1>0, <2>1 DEF SecureTyped, RecordStates
  <2>3. Chain(w, 1, key, t, n, f)
    BY <1>1, <1>9, <2>1, Arrives DEF Opening
  <2>4. /\ Head(w).seal = [key |-> key, counter |-> n, epoch |-> Rotated(t, n, f)]
        /\ Chain(Tail(w), 1, key, t, n + 1, Rotated(t, n, f))
        /\ LastEpoch(Tail(w), 1, Rotated(t, n, f)) = LastEpoch(w, 1, f)
    BY <1>1, <2>2, <2>3, ChainTail, SMTT(20)
  <2>5. m = Head(w) /\ e = Rotated(t, n, f) /\ r.recv = n + 1
    BY <1>1, <2>1, SMTT(30) DEF Opening
  <2>. QED
    BY <2>1, <2>4, <2>5, ZenonT(30)
<1>. QED
  BY <1>1, <1>5, <1>6, <1>7, <1>8, <1>9, ZenonT(30)

\* The boundary while a record is opened.
LEMMA OpeningBoundary ==
    ASSUME SecureInv, Alive, NEW x \in Sides, NEW m, NEW e, NEW r, Opening(x, m, e, r),
           side' = side, Base' = Base, Rekeyed' = Rekeyed,
           \A y \in Sides \ {x} : inbox'[y] = inbox[y],
           \A k \in 1 .. Len(inbox'[x]) :
              (\E j \in 1 .. Len(inbox[x]) : inbox'[x][k] = inbox[x][j]) \/ inbox'[x][k] = m
    PROVE  Boundary'
<1> USE DEF Sides
<1>0. SecureTyped /\ Boundary
  BY DEF SecureInv, LiveInv
<1>1. PICK w \in Seq(Messages) : w = wire[x] /\ w # <<>>
  BY <1>0, SMTT(30) DEF SecureTyped, Opening
<1>2. /\ Len(w) \in Nat \ {0} /\ Len(Tail(w)) = Len(w) - 1 /\ (Len(w) = 1 => Tail(w) = <<>>)
      /\ \A k \in 1 .. Len(Tail(w)) : k + 1 \in 1 .. Len(w) /\ Tail(w)[k] = w[k + 1]
      /\ Tail(w) \in Seq(Messages)
  BY <1>1, TailWithin, SMTT(30)
<1>p. wire'[x] = Tail(wire[x]) /\ m = wire[x][1] /\ \A y \in Sides \ {x} : wire'[y] = wire[y]
  BY OpeningPlaces, SMTT(30)
<1>3. wire'[x] = Tail(w) /\ m = w[1] /\ \A y \in Sides \ {x} : wire'[y] = wire[y]
  BY <1>1, <1>p, SMTT(30)
<1>4. slow' = slow /\ conf' = conf
  BY ZenonT(30) DEF Opening
<1>5. CASE x = "server"
  <2>1. /\ wire'["client"] = wire["client"] /\ inbox'["client"] = inbox["client"]
    BY <1>3, <1>5, SMTT(30)
  <2>2. side["client"].pc = "confirmation" =>
          wire'["server"] = <<>> /\ side["server"].pc \notin {"ready", "ack"}
    BY <1>0, <1>1, <1>2, <1>3, <1>5, ZenonT(30) DEF Boundary
  <2>3. ~(side["client"].pc = "offer" /\ conf.clientFS)
    BY <1>0, <1>1, <1>5 DEF Boundary
  <2>. QED
    BY <1>0, <1>4, <2>1, <2>2, <2>3, ZenonT(30) DEF Boundary
<1>6. CASE x = "client"
  <2>1. /\ wire'["server"] = wire["server"] /\ inbox'["server"] = inbox["server"]
    BY <1>3, <1>6, SMTT(30)
  <2>2. ASSUME side["client"].keys # Rekeyed, side["server"].keys = Rekeyed, ~slow
        PROVE  /\ \A k \in 1 .. Len(wire'["client"]) :
                     wire'["client"][k].type = "ready" <=> k = Len(wire'["client"])
               /\ wire'["client"] # <<>> =>
                     \A k \in 1 .. Len(inbox'["client"]) : inbox'["client"][k].type # "ready"
    <3>1. /\ \A k \in 1 .. Len(w) : w[k].type = "ready" <=> k = Len(w)
          /\ \A k \in 1 .. Len(inbox["client"]) : inbox["client"][k].type # "ready"
      BY <1>0, <1>1, <1>6, <2>2 DEF Boundary
    <3>2. \A k \in 1 .. Len(Tail(w)) : Tail(w)[k].type = "ready" <=> k = Len(Tail(w))
      <4>1. SUFFICES ASSUME NEW k \in 1 .. Len(Tail(w))
                     PROVE  Tail(w)[k].type = "ready" <=> k = Len(Tail(w))
        OBVIOUS
      <4>2. PICK j \in 1 .. Len(w) : j = k + 1 /\ Tail(w)[k] = w[j]
        BY <1>2, <4>1, SMTT(30)
      <4>3. j = Len(w) <=> k = Len(Tail(w))
        BY <1>2, <4>1, <4>2, SMTT(30)
      <4>. QED
        BY <3>1, <4>2, <4>3
    <3>3. Tail(w) # <<>> => m.type # "ready"
      <4>1. Tail(w) # <<>> => Len(Tail(w)) # 0
        BY <1>2, EmptySeq
      <4>2. 1 \in 1 .. Len(w) /\ (Tail(w) # <<>> => 1 # Len(w))
        BY <1>2, <4>1
      <4>3. m = w[1]
        BY <1>3
      <4>. QED
        BY <3>1, <4>2, <4>3, SMTT(30)
    <3>. QED
      BY <1>3, <1>6, <3>1, <3>2, <3>3, ZenonT(30)
  <2>. QED
    BY <1>0, <1>4, <2>1, <2>2, SMTT(30) DEF Boundary
<1>. QED
  BY <1>5, <1>6, SMTT(30)

\* The records that follow are still those the receiver expects.
LEMMA OpeningLinesUp ==
    ASSUME SecureInv, Alive, ~slow, NEW x \in Sides, NEW m, NEW e, NEW r, Opening(x, m, e, r),
           Base' = Base, Rekeyed' = Rekeyed
    PROVE  RecordsLineUp'
<1>0. SecureTyped /\ KeysFollow /\ LiveInv /\ RecordsLineUp
  BY DEF SecureInv, LiveInv
<1>1. PICK p \in Sides : p = Peer(x) /\ p # x /\ Peer(p) = x /\ \A y \in Sides : y = x \/ y = p
  BY SMTT(30) DEF Peer, Sides
<1>2. /\ rec'[x] = r /\ wire'[x] = Tail(wire[x]) /\ rec'[p] = rec[p] /\ wire'[p] = wire[p]
      /\ Chain(Tail(wire[x]), 1, rec[x].keys, rec[x].ratchet, r.recv, e)
      /\ LastEpoch(Tail(wire[x]), 1, e) = LastEpoch(wire[x], 1, rec[x].recvEpoch)
  <2>1. /\ rec'[x] = r /\ wire'[x] = Tail(wire[x])
        /\ \A y \in Sides \ {x} : rec'[y] = rec[y] /\ wire'[y] = wire[y]
    BY OpeningPlaces, SMTT(30)
  <2>2. /\ Chain(Tail(wire[x]), 1, rec[x].keys, rec[x].ratchet, r.recv, e)
        /\ LastEpoch(Tail(wire[x]), 1, e) = LastEpoch(wire[x], 1, rec[x].recvEpoch)
    BY OpeningOpens, ZenonT(30)
  <2>3. p \in Sides \ {x}
    BY <1>1, Zenon
  <2>. QED
    BY <2>1, <2>2, <2>3, Zenon
<1>3. /\ r.keys = rec[x].keys /\ r.ratchet = rec[x].ratchet /\ r.recvEpoch = e
      /\ r.send = rec[x].send /\ r.sendEpoch = rec[x].sendEpoch /\ r.recv = rec[x].recv + 1
  BY SMTT(30) DEF Opening
<1>4. /\ rec["client"].keys # <<>> /\ rec["client"].keys \in {Base, Rekeyed}
      /\ rec["server"].keys \in {Base, Rekeyed}
      /\ rec["client"].keys = Rekeyed => rec["server"].keys = Rekeyed
      /\ x = "server" => rec["client"].keys = rec["server"].keys
  <2>1. /\ side["client"].keys # <<>> /\ side["server"].keys # <<>>
        /\ x = "server" => rec["client"].keys = rec["server"].keys
    BY Arrives, ZenonT(30) DEF Opening
  <2>. QED
    BY <1>0, <2>1, SMTT(30) DEF LiveInv, Standing, KeysFollow, Sides
<1>5. rec'["client"].keys = rec["client"].keys /\ rec'["server"].keys = rec["server"].keys
  BY <1>1, <1>2, <1>3, SMTT(30) DEF Sides
<1>6. CASE rec["client"].keys = rec["server"].keys
  <2>1. InStep(x) /\ InStep(p)
    BY <1>0, <1>4, <1>6 DEF RecordsLineUp
  <2>2. InStep(p)'
    BY <1>1, <1>2, <1>3, <2>1, ZenonT(30) DEF InStep
  <2>3. rec[p].send = r.recv + Len(Tail(wire[x]))
    <3>1. Len(Tail(wire[x])) = Len(wire[x]) - 1 /\ Len(wire[x]) \in Nat \ {0}
      <4>1. wire[x] \in Seq(Messages) /\ wire[x] # <<>>
        BY <1>0 DEF SecureTyped, Opening
      <4>. QED
        BY <4>1, TailWithin, SMTT(30)
    <3>2. rec[x].recv \in Nat
      BY <1>0, SMTT(30) DEF SecureTyped, RecordStates
    <3>3. rec[p].send = rec[x].recv + Len(wire[x])
      BY <1>1, <2>1, ZenonT(30) DEF InStep
    <3>. QED
      BY <1>3, <3>1, <3>2, <3>3, SMTT(30)
  <2>4. rec[p].sendEpoch = LastEpoch(Tail(wire[x]), 1, e)
    BY <1>1, <1>2, <2>1, ZenonT(30) DEF InStep
  <2>5. InStep(x)'
    BY <1>1, <1>2, <1>3, <2>3, <2>4, ZenonT(30) DEF InStep
  <2>6. \A y \in Sides : InStep(y)'
    BY <1>1, <2>2, <2>5, SMTT(30)
  <2>. QED
    BY <1>4, <1>5, <1>6, <2>6, SessionKeysDiffer, ZenonT(30) DEF RecordsLineUp
<1>7. CASE rec["client"].keys # rec["server"].keys
  <2>1. rec["client"].keys = Base /\ rec["server"].keys = Rekeyed /\ x = "client" /\ p = "server"
    BY <1>1, <1>4, <1>7, SMTT(30) DEF Sides
  <2>2. rec["client"].ratchet = FALSE /\ e = 0
    <3>1. ~rec["client"].ratchet /\ rec["client"].recvEpoch = 0
      BY <1>0, <2>1, SessionKeysDiffer, SMTT(30) DEF LiveInv, CarriersFollow, Sides
    <3>2. rec["client"].ratchet \in BOOLEAN
      BY <1>0, SMTT(30) DEF SecureTyped, RecordStates, Sides
    <3>. QED
      BY <2>1, <3>1, <3>2, SMTT(30) DEF Opening, Rotated
  <2>3. /\ rec["server"].send = 0 /\ rec["server"].recv = 0 /\ rec["server"].sendEpoch = 0
        /\ rec["server"].recvEpoch = 0
    BY <1>0, <2>1, SMTT(30) DEF RecordsLineUp
  <2>. QED
    BY <1>2, <1>3, <1>4, <1>5, <2>1, <2>2, <2>3, SessionKeysDiffer, ZenonT(30) DEF RecordsLineUp
<1>. QED
  BY <1>6, <1>7

\* The record opens and is handed to the mux.
LEMMA OpeningKeeps ==
    ASSUME SecureInv, Alive, NEW x \in Sides, NEW m, NEW e, NEW r, Opening(x, m, e, r),
           side' = side,
           inbox' = IF m.type # "dummy" THEN [inbox EXCEPT ![x] = Append(@, m)] ELSE inbox
    PROVE  SecureInv'
<1> USE DEF Sides
<1>0. SecureTyped /\ KeysFollow /\ MessagesHold /\ SelectionHolds /\ NoncesBehind /\ RecordsAlwaysOpen
      /\ LiveInv
  BY SMTT(30) DEF SecureInv
<1>1. /\ rec'[x] = r /\ rec' \in [Sides -> RecordStates] /\ wire' \in [Sides -> Seq(Messages)]
      /\ m = wire[x][1] /\ \A y \in Sides \ {x} : rec'[y] = rec[y]
  BY OpeningPlaces, SMTT(30)
<1>2. /\ \A y \in Sides : \A k \in 1 .. Len(wire'[y]) :
            \E j \in 1 .. Len(wire[y]) : wire'[y][k] = wire[y][j]
      /\ m \in Recs /\ 1 \in 1 .. Len(wire[x]) /\ m.type \in RecTypes
  BY OpeningOpens, ZenonT(30)
<1>3. UNCHANGED <<conf, sealed, slow>> /\ rec[x].keys # <<>>
  BY ZenonT(30) DEF Opening
<1>4. /\ inbox' \in [Sides -> Seq(Recs)] /\ \A y \in Sides \ {x} : inbox'[y] = inbox[y]
      /\ \A k \in 1 .. Len(inbox'[x]) :
            \/ \E j \in 1 .. Len(inbox[x]) : inbox'[x][k] = inbox[x][j]
            \/ inbox'[x][k] = m /\ m.type # "dummy"
  <2>1. inbox \in [Sides -> Seq(Recs)] /\ inbox[x] \in Seq(Recs)
    BY <1>0 DEF SecureTyped
  <2>2. CASE m.type = "dummy"
    BY <2>1, <2>2, SMTT(30)
  <2>3. CASE m.type # "dummy"
    <3>1. /\ inbox'[x] = Append(inbox[x], m) /\ inbox' = [inbox EXCEPT ![x] = Append(inbox[x], m)]
      BY <2>1, <2>3, SMTT(30)
    <3>2. /\ Append(inbox[x], m) \in Seq(Recs) /\ Len(inbox[x]) \in Nat
          /\ Len(Append(inbox[x], m)) = Len(inbox[x]) + 1
          /\ Append(inbox[x], m)[Len(inbox[x]) + 1] = m
          /\ \A k \in 1 .. Len(inbox[x]) : Append(inbox[x], m)[k] = inbox[x][k]
      BY <1>2, <2>1, AppendProperties, LenProperties, SMTT(30)
    <3>3. \A k \in 1 .. Len(inbox'[x]) :
            \/ \E j \in 1 .. Len(inbox[x]) : inbox'[x][k] = inbox[x][j]
            \/ inbox'[x][k] = m
      BY <3>1, <3>2, SMTT(30)
    <3>4. inbox' \in [Sides -> Seq(Recs)] /\ \A y \in Sides \ {x} : inbox'[y] = inbox[y]
      BY <2>1, <3>1, <3>2, SMTT(30)
    <3>. QED
      BY <2>3, <3>3, <3>4
  <2>. QED
    BY <2>2, <2>3
<1>5. SecureTyped'
  BY <1>0, <1>1, <1>3, <1>4, SMTT(30) DEF SecureTyped
<1>6. KeysFollow' /\ Base' = Base /\ Rekeyed' = Rekeyed
  BY <1>0, <1>3, KeysSame, SMTT(30) DEF Identity
<1>7. \A y \in Sides : /\ rec'[y].keys = rec[y].keys /\ rec'[y].send = rec[y].send
                       /\ rec'[y].sendEpoch = rec[y].sendEpoch
                       /\ rec'[y].ratchet = rec[y].ratchet /\ rec'[y].pending = rec[y].pending
                       /\ rec'[y].paused = rec[y].paused
                       /\ rec[y].keys = <<>> => rec'[y] = rec[y]
                       /\ ~rec[y].ratchet => rec'[y].recvEpoch = rec[y].recvEpoch
  BY <1>1, <1>3, SMTT(30) DEF Opening, Rotated
<1>8. NoncesBehind'
  BY <1>0, <1>3, <1>6, <1>7, NoncesKept, SMTT(30)
<1>9. Lasting
  BY <1>3, <1>6, SMTT(30) DEF Lasting, Chosen
<1>10. MessagesHold'
  <2>1. \A k \in 1 .. Len(inbox'[x]) :
              \/ \E j \in 1 .. Len(inbox[x]) : inbox'[x][k] = inbox[x][j]
              \/ \E j \in 1 .. Len(wire[x]) :
                    /\ inbox'[x][k] = wire[x][j]
                    /\ wire[x][j].type \in RecTypes /\ wire[x][j].type # "dummy"
    BY <1>1, <1>2, <1>4, ZenonT(30)
  <2>2. \A y \in Sides : \A k \in 1 .. Len(inbox'[y]) :
              \/ \E j \in 1 .. Len(inbox[y]) : inbox'[y][k] = inbox[y][j]
              \/ \E j \in 1 .. Len(wire[y]) :
                    /\ inbox'[y][k] = wire[y][j]
                    /\ wire[y][j].type \in RecTypes /\ wire[y][j].type # "dummy"
    <3> SUFFICES ASSUME NEW y \in Sides, NEW k \in 1 .. Len(inbox'[y])
                 PROVE  \/ \E j \in 1 .. Len(inbox[y]) : inbox'[y][k] = inbox[y][j]
                        \/ \E j \in 1 .. Len(wire[y]) :
                              /\ inbox'[y][k] = wire[y][j]
                              /\ wire[y][j].type \in RecTypes /\ wire[y][j].type # "dummy"
      OBVIOUS
    <3>1. CASE y = x
      BY <2>1, <3>1
    <3>2. CASE y # x
      <4>1. inbox'[y] = inbox[y]
        BY <3>2, <1>4, Zenon
      <4>. QED
        BY <4>1, Zenon
    <3>. QED
      BY <3>1, <3>2
  <2>. QED
    BY <1>0, <1>2, <1>9, <2>2, MessagesLast, SMTT(30)
<1>11. SelectionHolds'
  BY <1>0, <1>3, <1>6, ZenonT(30) DEF SelectionHolds, Chosen
<1>12. RecordsAlwaysOpen'
  BY <1>0, <1>3, SMTT(30) DEF RecordsAlwaysOpen
<1>13. Standing'
  BY <1>0, <1>3, <1>6, <1>7, ZenonT(30) DEF LiveInv, Standing
<1>14. Handshaking'
  <2>1. /\ side["client"].keys # <<>> /\ side["server"].keys # <<>>
        /\ \A y \in Sides : \A k \in 1 .. Len(wire[y]) : wire[y][k].type \in RecTypes
    BY Arrives, SMTT(30) DEF Opening
  <2>2. \A y \in Sides : \A k \in 1 .. Len(wire'[y]) : wire'[y][k].type \in RecTypes
    BY <1>2, <2>1, SMTT(30)
  <2>3. side["client"].pc # "confirm" /\ side["server"].pc \notin {"start", "response"}
    BY <1>0, <2>1, SMTT(30) DEF LiveInv, Standing
  <2>. QED
    BY <2>1, <2>2, <2>3, ZenonT(30) DEF Handshaking
<1>15. CarriersFollow'
  <2>1. \A y \in Sides : rec'[y].keys = <<>> => rec'[y].send = 0 /\ rec'[y].recv = 0
    BY <1>0, <1>7, SMTT(30) DEF LiveInv, CarriersFollow
  <2>. QED
    BY <1>0, <1>3, <1>6, <1>7, <2>1, SMTT(30) DEF LiveInv, CarriersFollow
<1>16. Boundary'
  <2>1. \A k \in 1 .. Len(inbox'[x]) :
           (\E j \in 1 .. Len(inbox[x]) : inbox'[x][k] = inbox[x][j]) \/ inbox'[x][k] = m
    BY <1>4
  <2>. QED
    BY <1>4, <1>6, <2>1, OpeningBoundary, Zenon
<1>17. ~slow => RecordsLineUp'
  BY <1>6, OpeningLinesUp
<1>. QED
  BY <1>3, <1>5, <1>6, <1>8, <1>10, <1>11, <1>12, <1>13, <1>14, <1>15, <1>16, <1>17, SMTT(30) DEF SecureInv, LiveInv

\* A record is received: it opens, or the server was slow and the receiver
\* closes the carrier.
LEMMA ReceiveKeeps ==
    ASSUME SecureInv, NEW x \in Sides, Receive(x)
    PROVE  SecureInv'
<1>0. SecureTyped /\ Alive
  BY DEF SecureInv, Receive
<1>1. PICK m, e, r :
         /\ Opening(x, m, e, r)
         /\ m.seal = [key |-> rec[x].keys, epoch |-> e, counter |-> rec[x].recv] =>
              /\ side' = side
              /\ inbox' = IF m.type # "dummy" THEN [inbox EXCEPT ![x] = Append(@, m)] ELSE inbox
         /\ m.seal # [key |-> rec[x].keys, epoch |-> e, counter |-> rec[x].recv] =>
              /\ side' = [side EXCEPT ![x].pc = "failed", ![x].broken = TRUE]
              /\ inbox' = inbox
  BY ReceiveOpening, Zenon
<1>2. CASE m.seal = [key |-> rec[x].keys, epoch |-> e, counter |-> rec[x].recv]
  BY <1>0, <1>1, <1>2, OpeningKeeps
<1>3. CASE m.seal # [key |-> rec[x].keys, epoch |-> e, counter |-> rec[x].recv]
  <2>1. /\ rec'[x] = r /\ rec' \in [Sides -> RecordStates] /\ wire' \in [Sides -> Seq(Messages)]
        /\ \A y \in Sides \ {x} : rec'[y] = rec[y]
    BY <1>1, OpeningPlaces
  <2>2. /\ \A y \in Sides : \A k \in 1 .. Len(wire'[y]) :
              \E j \in 1 .. Len(wire[y]) : wire'[y][k] = wire[y][j]
        /\ slow
    <3>1. PICK k, f, s : k = m /\ f = e /\ s = r
      OBVIOUS
    <3>2. Opening(x, k, f, s) /\ k.seal # [key |-> rec[x].keys, epoch |-> f, counter |-> rec[x].recv]
      BY <1>1, <1>3, <3>1
    <3>. QED
      BY <1>0, <3>2, OpeningOpens, Zenon
  <2>3. UNCHANGED <<conf, sealed, slow>> /\ inbox' = inbox
    BY <1>1, <1>3 DEF Opening
  <2> DEFINE q == [side[x] EXCEPT !.pc = "failed", !.broken = TRUE]
  <2>4. side' = [side EXCEPT ![x] = q]
    BY <1>0, <1>1, <1>3, Zenon DEF SecureTyped
  <2>5. /\ q \in SideRecs /\ q.pc = "failed" /\ Identity(q, side[x])
        /\ q.selected = side[x].selected /\ q.done = side[x].done
        /\ q.negotiated = side[x].negotiated
    BY <1>0, ZenonT(30) DEF SecureTyped, SideRecs, Pcs, Identity
  <2> HIDE DEF q
  <2>6. SecureTyped'
    BY <1>0, <2>1, <2>3, <2>4, <2>5 DEF SecureTyped
  <2>7. \A y \in Sides : rec'[y].keys = rec[y].keys /\ rec'[y].send = rec[y].send
    BY <1>1, <2>1 DEF Opening
  <2>8. \A y \in Sides : \A k \in 1 .. Len(inbox'[y]) :
           \E j \in 1 .. Len(inbox[y]) : inbox'[y][k] = inbox[y][j]
    BY <2>3
  <2>. QED
    BY <2>2, <2>3, <2>4, <2>5, <2>6, <2>7, <2>8, GivesUp, Zenon
<1>. QED
  BY <1>2, <1>3

-----------------------------------------------------------------------------
(* The theorems.                                                           *)

\* Every step of the two sides keeps the invariant.
LEMMA SecureStep == SecureInv /\ [SecureNext]_secureVars => SecureInv'
<1>1. SUFFICES ASSUME SecureInv, [SecureNext]_secureVars PROVE SecureInv'
  OBVIOUS
<1>2. CASE ConnectClient
  BY <1>1, <1>2, ClientResponds, ClientVerifies, SMTT(30) DEF ConnectClient
<1>3. CASE AcceptServer
  BY <1>1, <1>3, HandshakeStarts, ServerVerifies DEF AcceptServer
<1>4. CASE startClientExtensionNegotiation
  <2>1. "client" \in Sides
    BY DEF Sides
  <2>. QED
    BY <1>1, <1>4, <2>1, ClientNegotiates, ClientRekeys, ClientAcknowledges, TimeoutKeeps, SMTT(30)
    DEF startClientExtensionNegotiation
<1>5. CASE startServerExtensionNegotiation
  <2>1. "server" \in Sides
    BY DEF Sides
  <2>. QED
    BY <1>1, <1>5, <2>1, ServerOffers, ServerAccepted, ServerRekeys, ServerAcknowledged, TimeoutKeeps, SMTT(30)
    DEF startServerExtensionNegotiation
<1>6. CASE \E x \in Sides : Receive(x) \/ runDummies(x)
  BY <1>1, <1>6, ReceiveKeeps, DummiesKeep, SMTT(30)
<1>7. CASE UNCHANGED secureVars
  <2>1. UNCHANGED <<conf, side, rec, wire, inbox, sealed, slow>>
    BY <1>7 DEF secureVars
  <2>2. Base' = Base /\ Rekeyed' = Rekeyed
    BY <2>1, SMTT(30) DEF Base, Rekeyed, transcript
  <2>3. SecureTyped' /\ KeysFollow' /\ SelectionHolds' /\ NoncesBehind' /\ RecordsAlwaysOpen'
    BY <1>1, <2>1, <2>2, ZenonT(30)
    DEF SecureInv, SecureTyped, KeysFollow, SelectionHolds, NoncesBehind, RecordsAlwaysOpen, Chosen
  <2>4. MessagesHold'
    <3>1. Lasting
      BY <2>1, <2>2, Zenon DEF Lasting, Chosen
    <3>2. \A x \in Sides : wire'[x] = wire[x] /\ inbox'[x] = inbox[x]
      BY <2>1, Zenon
    <3>. QED
      BY <1>1, <3>1, <3>2, MessagesLast, ZenonT(30) DEF SecureInv
  <2>5. (Alive => LiveInv)'
    <3>1. Standing' = Standing /\ CarriersFollow' = CarriersFollow /\ Boundary' = Boundary
      BY <2>1, <2>2, ZenonT(30) DEF Standing, CarriersFollow, Boundary
    <3>2. Handshaking' = Handshaking
      BY <2>1, ZenonT(30) DEF Handshaking, Challenge, Response, Confirm, transcript, Tag
    <3>3. \A x \in Sides : InStep(x) => InStep(x)'
      BY <2>1, InStepSame, Zenon
    <3>4. RecordsLineUp => RecordsLineUp'
      BY <2>1, <2>2, <3>3, ZenonT(60) DEF RecordsLineUp
    <3>5. Alive' = Alive
      BY <2>1 DEF Alive
    <3>. QED
      BY <1>1, <2>1, <3>1, <3>2, <3>4, <3>5 DEF SecureInv, LiveInv
  <2>. QED
    BY <2>3, <2>4, <2>5 DEF SecureInv
<1>. QED
  BY <1>1, <1>2, <1>3, <1>4, <1>5, <1>6, <1>7, SMTT(30) DEF SecureNext

\* The invariant of the handshake, the negotiation, the rekey and the records
\* in flight holds in every state of ConnectClient and AcceptServer.
THEOREM SecureInductive == SecureSpec => []SecureInv
BY SecureStarts, SecureStep, PTL DEF SecureSpec

\* An honest client and server agree on keys, features, device, credential
\* and negotiated capabilities, and forward secrecy the client requires is not
\* dropped; every record opens across the boundary of rekeyAfterNextSend and
\* the epochs unless the server timed out on the acknowledgement; and no
\* nonce of recordNonce seals two records.  For every epoch interval, number
\* of dummies, set of secrets and credential table.
THEOREM SessionSound == SecureSpec => []SessionIsSound
<1>1. SecureInv => SessionIsSound
  <2>1. SUFFICES ASSUME SecureInv PROVE SessionIsSound
    OBVIOUS
  <2>2. KeysFollow /\ SelectionHolds /\ NoncesBehind /\ RecordsAlwaysOpen
    BY <2>1 DEF SecureInv
  <2>3. \A k \in {Base, Rekeyed} : k[1] = Base[1] /\ k[2] = Base[2]
    BY KeysDiffer, SMTT(30) DEF Base, Rekeyed
  <2>4. PeersAgree
    <3>1. side["client"].keys # <<>> /\ side["server"].keys # <<>> =>
            /\ side["client"].keys[1] = side["server"].keys[1]
            /\ side["client"].keys[2] = side["server"].keys[2]
            /\ side["client"].features = side["server"].features
            /\ side["client"].device = side["server"].device
            /\ conf.credentials[side["server"].credential] = conf.secret
      BY <2>2, <2>3, SMTT(30) DEF KeysFollow
    <3>2. side["client"].done /\ conf.clientFS =>
            side["client"].keys = side["server"].keys /\ "fs" \in side["client"].selected
      BY <2>2, SMTT(30) DEF KeysFollow, SelectionHolds
    <3>3. side["client"].done /\ side["server"].done /\ side["server"].negotiated =>
            side["client"].negotiated /\ side["client"].selected = side["server"].selected
      BY <2>2 DEF SelectionHolds
    <3>. QED
      BY <3>1, <3>2, <3>3, SMTT(30) DEF PeersAgree
  <2>5. NoncesAreFresh
    BY <2>2 DEF NoncesBehind, NoncesAreFresh
  <2>. QED
    BY <2>2, <2>4, <2>5 DEF SessionIsSound
<1>. QED
  BY <1>1, SecureInductive, PTL
=============================================================================
