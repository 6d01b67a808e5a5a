--------------------------- MODULE SecureInvariant ---------------------------
(***************************************************************************)
(* The inductive invariant of the secure session (SecureSession), the      *)
(* lemmas on keys, nonces and records in flight it rests on, and the steps *)
(* of the handshake, of a plain send and of the dummies.  SecureProofs     *)
(* goes on with the negotiation, the rekey and the receiver, and with the  *)
(* theorems.                                                               *)
(***************************************************************************)
EXTENDS SecureSession, TLAPS

-----------------------------------------------------------------------------
(* Types.                                                                  *)

Feats   == {"aead", "device"}
Devices == {"device", NoSet}

Transcripts == (SUBSET Feats) \X (SUBSET Feats) \X Devices
SessionKeys == Secrets \X Transcripts
KeySet == {<<>>} \cup SessionKeys \cup {ForwardSecret(k) : k \in SessionKeys}
Proofs == {<<>>} \cup ({"response", "confirm"} \X Secrets \X Transcripts)

RawTypes == {"challenge", "response", "confirm"}
RecTypes == {"dummy", "offer", "accept", "ready", "ack"}

Seals    == [key : KeySet, epoch : Nat, counter : Nat]
Raws     == [type : RawTypes, caps : SUBSET Feats, proof : Proofs]
Recs     == [seal : Seals, type : RecTypes, id : Nat, caps : SUBSET Caps]
Messages == Raws \cup Recs

Pcs == {"start", "response", "confirm", "offer", "accept", "ready", "ack",
        "confirmation", "acknowledge", "up", "failed"}

SideRecs == [pc : Pcs, keys : KeySet, features : SUBSET Feats, device : Devices,
             credential : {"a", "b", NoSet}, done : BOOLEAN, negotiated : BOOLEAN,
             selected : SUBSET Caps, offer : SUBSET Caps, broken : BOOLEAN]

RecordStates == [keys : KeySet, send : Nat, recv : Nat, sendEpoch : Nat, recvEpoch : Nat,
                 ratchet : BOOLEAN, pending : BOOLEAN, dummies : Nat, paused : BOOLEAN]

SecureTyped ==
    /\ conf \in Configurations
    /\ side \in [Sides -> SideRecs]
    /\ rec \in [Sides -> RecordStates]
    /\ wire \in [Sides -> Seq(Messages)]
    /\ inbox \in [Sides -> Seq(Recs)]
    /\ sealed \in [nonces : SUBSET (Sides \X Seals), repeated : BOOLEAN]
    /\ slow \in BOOLEAN

-----------------------------------------------------------------------------
(* The invariant.                                                          *)

\* The keys the handshake derives, from what the client asked for, and the
\* keys of the forward-secret rekey.
Base == <<conf.secret, transcript(side["client"].features, side["client"].device)>>
Rekeyed == ForwardSecret(Base)

\* Both sides derive the same keys, the server first, and the server's
\* credential is the client's secret; the client rekeys after the server.
KeysFollow ==
    LET c == side["client"]  s == side["server"] IN
    /\ s.keys \in {<<>>, Base, Rekeyed} /\ c.keys \in {<<>>, Base, Rekeyed}
    /\ s.keys # <<>> => /\ s.features = c.features /\ s.device = c.device
                        /\ conf.credentials[s.credential] = conf.secret
    /\ c.keys # <<>> => s.keys # <<>>
    /\ c.keys = Rekeyed => s.keys = Rekeyed

\* The client is past its choice of capabilities, which is then final.
Chosen == side["client"].pc \in {"confirmation", "acknowledge", "up", "failed"}

\* What a record in flight to x, or decoded and not yet taken by x, says is
\* true of its sender, and stays true.
Says(x, m) ==
    LET c == side["client"]  s == side["server"] IN
    /\ m.type \in IF x = "client" THEN {"dummy", "offer", "ready"} ELSE {"dummy", "accept", "ack"}
    /\ m.type = "offer" => m.caps = Offer
    /\ m.type = "ready" => s.keys = Rekeyed
    /\ m.type = "accept" =>
         /\ Chosen /\ c.selected = m.caps
         /\ IF "fs" \in m.caps THEN conf.clientFS /\ conf.serverFS ELSE c.negotiated
    /\ m.type = "ack" => Chosen /\ c.keys = Rekeyed /\ c.negotiated

MessagesHold ==
    \A x \in Sides :
        /\ \A k \in 1 .. Len(wire[x]) : wire[x][k].type \in RecTypes => Says(x, wire[x][k])
        /\ \A k \in 1 .. Len(inbox[x]) : Says(x, inbox[x][k]) /\ inbox[x][k].type # "dummy"

\* The server has selected what the client did; forward secrecy, once chosen
\* or required by the client, is not dropped.
SelectionHolds ==
    LET c == side["client"]  s == side["server"] IN
    /\ s.pc \in {"ready", "ack"} =>
         Chosen /\ "fs" \in s.selected /\ s.selected = c.selected
    /\ s.negotiated => Chosen /\ c.negotiated /\ s.selected = c.selected
    /\ "fs" \in c.selected => conf.clientFS /\ conf.serverFS
    /\ c.pc \in {"confirmation", "acknowledge"} => "fs" \in c.selected
    /\ c.done /\ conf.clientFS => c.keys = Rekeyed /\ "fs" \in c.selected
    /\ c.done => Chosen

\* Where each side stands, by its keys, while neither has given up.
Standing ==
    LET c == side["client"]  s == side["server"] IN
    /\ \A x \in Sides : rec[x].keys = side[x].keys
    /\ c.pc \in {"start", "confirm", "offer", "confirmation", "acknowledge", "up"}
    /\ s.pc \in {"start", "response", "offer", "accept", "ready", "ack", "up"}
    /\ c.keys = <<>> <=> c.pc \in {"start", "confirm"}
    /\ s.keys = <<>> <=> s.pc \in {"start", "response"}
    /\ c.pc \in {"offer", "confirmation"} => c.keys = Base
    /\ c.pc = "acknowledge" => c.keys = Rekeyed
    /\ c.pc = "up" => c.done
    /\ s.pc \in {"offer", "accept", "ready"} => s.keys = Base
    /\ s.pc = "ack" => s.keys = Rekeyed
    /\ s.pc = "ready" => c.pc = "confirmation"
    /\ s.keys = Rekeyed /\ c.keys # Rekeyed => c.pc = "confirmation" /\ (~slow => s.pc = "ack")

\* The handshake, until the client has its keys: at most one message of it is
\* under way, and nothing but the server's first records follows it.
Challenge == [type |-> "challenge", caps |-> conf.serverFeatures, proof |-> <<>>]
Response  == LET c == side["client"] IN
    [type |-> "response", caps |-> c.features,
     proof |-> Tag("response", conf.secret, transcript(c.features, c.device))]
Confirm   == LET c == side["client"] IN
    [type |-> "confirm", caps |-> {},
     proof |-> Tag("confirm", conf.secret, transcript(c.features, c.device))]

Handshaking ==
    LET c == side["client"]  s == side["server"] IN
    /\ c.pc = "confirm" => c.device = IF "device" \in c.features THEN "device" ELSE NoSet
    /\ s.pc = "start" => c.pc = "start" /\ wire["client"] = <<>> /\ wire["server"] = <<>>
    /\ s.pc = "response" =>
         \/ c.pc = "start" /\ wire["client"] = <<Challenge>> /\ wire["server"] = <<>>
         \/ c.pc = "confirm" /\ wire["client"] = <<>> /\ wire["server"] = <<Response>>
    /\ c.keys = <<>> /\ s.keys # <<>> =>
         /\ c.pc = "confirm" /\ wire["client"] # <<>> /\ Head(wire["client"]) = Confirm
         /\ \A k \in 2 .. Len(wire["client"]) : wire["client"][k].type \in RecTypes
         /\ wire["server"] = <<>>
    /\ c.keys # <<>> =>
         \A x \in Sides : \A k \in 1 .. Len(wire[x]) : wire[x][k].type \in RecTypes

\* The carrier of a side: the server's rekey is armed just before its
\* confirmation, ratcheting starts with the rekey, and dummies are held back
\* while forward secrecy is negotiated.
CarriersFollow ==
    LET c == side["client"]  s == side["server"] IN
    /\ ~rec["client"].pending /\ (rec["server"].pending <=> s.pc = "ready")
    /\ c.pc \in {"offer", "confirmation", "acknowledge"} /\ conf.clientFS => rec["client"].paused
    /\ s.pc \in {"offer", "accept", "ready", "ack"} /\ conf.serverFS => rec["server"].paused
    /\ \A x \in Sides :
         /\ rec[x].ratchet <=> rec[x].keys = Rekeyed
         /\ ~rec[x].ratchet => rec[x].sendEpoch = 0 /\ rec[x].recvEpoch = 0
         /\ rec[x].keys = <<>> => rec[x].send = 0 /\ rec[x].recv = 0

\* A client that asks for forward secrecy has nothing in flight but its
\* acceptance until it has rekeyed, and the server's confirmation is the last
\* record before the server hears of that.
Boundary ==
    LET c == side["client"]  s == side["server"] IN
    /\ c.pc = "offer" /\ conf.clientFS => wire["server"] = <<>> /\ inbox["server"] = <<>>
    /\ c.pc = "confirmation" =>
         /\ wire["server"] = <<>> \/ (Len(wire["server"]) = 1 /\ inbox["server"] = <<>>)
         /\ s.pc \in {"ready", "ack"} => wire["server"] = <<>>
    /\ c.keys # Rekeyed /\ s.keys = Rekeyed /\ ~slow =>
         /\ \A k \in 1 .. Len(wire["client"]) :
               wire["client"][k].type = "ready" <=> k = Len(wire["client"])
         /\ wire["client"] # <<>> =>
               \A k \in 1 .. Len(inbox["client"]) : inbox["client"][k].type # "ready"

\* The records of w open one after the other from record counter recv and
\* epoch e on.
Rotated(ratchet, count, e) ==
    IF ratchet /\ count > 0 /\ count % EpochInterval = 0 THEN e + 1 ELSE e

EpochBefore(w, first, k, e) == IF k = first THEN e ELSE w[k - 1].seal.epoch

Chain(w, first, key, ratchet, recv, e) ==
    \A k \in first .. Len(w) :
        w[k].seal = [key |-> key, counter |-> recv + (k - first),
                     epoch |-> Rotated(ratchet, recv + (k - first), EpochBefore(w, first, k, e))]

LastEpoch(w, first, e) == IF Len(w) < first THEN e ELSE w[Len(w)].seal.epoch

\* Receiver x and its peer are in step: what is in flight to x takes x's
\* counter and epoch to its peer's.
InStep(x) ==
    LET r == rec[x]  p == rec[Peer(x)] IN
    /\ Chain(wire[x], 1, r.keys, r.ratchet, r.recv, r.recvEpoch)
    /\ p.send = r.recv + Len(wire[x])
    /\ p.sendEpoch = LastEpoch(wire[x], 1, r.recvEpoch)

RecordsLineUp ==
    LET c == rec["client"]  s == rec["server"] IN
    /\ c.keys = <<>> /\ s.keys # <<>> =>
         /\ Chain(wire["client"], 2, s.keys, FALSE, 0, 0)
         /\ s.send = Len(wire["client"]) - 1 /\ s.recv = 0
         /\ s.sendEpoch = LastEpoch(wire["client"], 2, 0)
    /\ c.keys # <<>> /\ c.keys = s.keys => \A x \in Sides : InStep(x)
    /\ c.keys = Base /\ s.keys = Rekeyed =>
         /\ Chain(wire["client"], 1, c.keys, FALSE, c.recv, 0)
         /\ s.send = 0 /\ s.recv = 0 /\ s.sendEpoch = 0 /\ s.recvEpoch = 0

\* A nonce used by x is of its current keys and an earlier record, or of keys
\* x has left.
NoncesBehind ==
    /\ ~sealed.repeated
    /\ \A e \in sealed.nonces :
         /\ rec[e[1]].keys # <<>> /\ e[2].key \in {Base, Rekeyed}
         /\ e[2].key = rec[e[1]].keys => e[2].counter < rec[e[1]].send
         /\ e[2].key = Rekeyed => rec[e[1]].keys = Rekeyed

LiveInv ==
    /\ Standing /\ Handshaking /\ CarriersFollow /\ Boundary
    /\ ~slow => RecordsLineUp

SecureInv ==
    /\ SecureTyped /\ KeysFollow /\ MessagesHold /\ SelectionHolds /\ NoncesBehind
    /\ RecordsAlwaysOpen
    /\ Alive => LiveInv

-----------------------------------------------------------------------------
(* Sequences.                                                              *)

\* A sequence is empty exactly when its length is zero.
LEMMA EmptySeq ==
    ASSUME NEW S
    PROVE  <<>> \in Seq(S) /\ Len(<<>>) = 0 /\ \A w \in Seq(S) : w # <<>> => Len(w) \in Nat \ {0}
  OBVIOUS

\* A length is a number, and a sequence is a function on 1 .. its length.
LEMMA LenProperties ==
    ASSUME NEW S, NEW w \in Seq(S)
    PROVE  Len(w) \in Nat /\ w \in [1 .. Len(w) -> S] /\ DOMAIN w = 1 .. Len(w)
  OBVIOUS

\* What Append leaves in place, and where it puts the new element.
LEMMA AppendProperties ==
    ASSUME NEW S, NEW w \in Seq(S), NEW e \in S
    PROVE  /\ Append(w, e) \in Seq(S) /\ Append(w, e) # <<>> /\ Len(Append(w, e)) = Len(w) + 1
           /\ \A i \in 1 .. Len(w) : Append(w, e)[i] = w[i]
           /\ Append(w, e)[Len(w) + 1] = e
  OBVIOUS

-----------------------------------------------------------------------------
(* Keys, records and chains.                                               *)

\* The keys before and after the rekey are told apart, and share the secret
\* and the transcript.
LEMMA KeysDiffer ==
    ASSUME NEW a, NEW b
    PROVE  /\ <<a, b>> # <<>> /\ ForwardSecret(<<a, b>>) # <<>> /\ ForwardSecret(<<a, b>>) # <<a, b>>
           /\ ForwardSecret(<<a, b>>)[1] = a /\ ForwardSecret(<<a, b>>)[2] = b
<1> DEFINE s == <<a, b>>
<1>1. s \in Seq({a, b, "fs"}) /\ Len(s) = 2 /\ s[1] = a /\ s[2] = b
  OBVIOUS
<1>2. SUFFICES s # <<>> /\ Append(s, "fs") # <<>> /\ Append(s, "fs") # s
               /\ Append(s, "fs")[1] = a /\ Append(s, "fs")[2] = b
  BY DEF ForwardSecret
<1> HIDE DEF s
<1>3. PICK S, z : s \in Seq(S) /\ z \in S /\ z = "fs"
  BY <1>1
<1>4. Len(Append(s, z)) = Len(s) + 1 /\ \A i \in 1 .. Len(s) : Append(s, z)[i] = s[i]
  BY <1>3, AppendProperties
<1>5. Len(Append(s, "fs")) = 3 /\ Append(s, "fs")[1] = a /\ Append(s, "fs")[2] = b
  BY <1>1, <1>3, <1>4
<1>. QED
  BY <1>1, <1>5

\* An element appended to a chain extends it when it is sealed with the next
\* counter and epoch.
LEMMA ChainAppend ==
    ASSUME NEW w \in Seq(Messages), NEW m \in Messages, NEW first \in {1, 2}, NEW key,
           NEW ratchet \in BOOLEAN, NEW recv \in Nat, NEW e \in Nat,
           first <= Len(w) + 1,
           Chain(w, first, key, ratchet, recv, e),
           m.seal = [key |-> key, counter |-> recv + (Len(w) + 1 - first),
                     epoch |-> Rotated(ratchet, recv + (Len(w) + 1 - first),
                                       LastEpoch(w, first, e))]
    PROVE  /\ Chain(Append(w, m), first, key, ratchet, recv, e)
           /\ LastEpoch(Append(w, m), first, e) = m.seal.epoch
<1> DEFINE u == Append(w, m)
<1>1. u \in Seq(Messages) /\ Len(u) = Len(w) + 1 /\ u[Len(u)] = m
      /\ \A k \in 1 .. Len(w) : u[k] = w[k]
  OBVIOUS
<1>2. SUFFICES Chain(u, first, key, ratchet, recv, e) /\ LastEpoch(u, first, e) = m.seal.epoch
  OBVIOUS
<1> HIDE DEF u
<1>3. LastEpoch(u, first, e) = m.seal.epoch
  BY <1>1 DEF LastEpoch
<1>4. SUFFICES ASSUME NEW k \in first .. Len(u)
               PROVE  u[k].seal = [key |-> key, counter |-> recv + (k - first),
                                   epoch |-> Rotated(ratchet, recv + (k - first),
                                       EpochBefore(u, first, k, e))]
  BY <1>3 DEF Chain
<1>5. CASE k <= Len(w)
  <2>1. u[k] = w[k] /\ (k # first => u[k - 1] = w[k - 1])
    <3>1. k \in 1 .. Len(w) /\ (k # first => k - 1 \in 1 .. Len(w))
      BY <1>1, <1>5
    <3>. QED
      BY <1>1, <3>1
  <2>2. k \in first .. Len(w)
    BY <1>5
  <2>3. EpochBefore(u, first, k, e) = EpochBefore(w, first, k, e)
    BY <2>1 DEF EpochBefore
  <2>. QED
    BY <2>1, <2>2, <2>3, SMTT(30) DEF Chain
<1>6. CASE k = Len(w) + 1
  <2>1. u[k] = m
    BY <1>1, <1>6
  <2>2. LastEpoch(w, first, e) = EpochBefore(u, first, k, e)
    BY <1>1, <1>6 DEF LastEpoch, EpochBefore
  <2>. QED
    BY <2>1, <2>2, <1>6
<1>. QED
  BY <1>1, <1>5, <1>6

\* The first element of a chain taken away, the rest is a chain from there.
LEMMA ChainTail ==
    ASSUME NEW w \in Seq(Messages), w # <<>>, NEW key,
           NEW ratchet \in BOOLEAN, NEW recv \in Nat, NEW e \in Nat,
           Chain(w, 1, key, ratchet, recv, e)
    PROVE  /\ Head(w).seal = [key |-> key, counter |-> recv, epoch |-> Rotated(ratchet, recv, e)]
           /\ Chain(Tail(w), 1, key, ratchet, recv + 1, Rotated(ratchet, recv, e))
           /\ LastEpoch(Tail(w), 1, Rotated(ratchet, recv, e)) = LastEpoch(w, 1, e)
<1> DEFINE u == Tail(w)
<1>1. u \in Seq(Messages) /\ Len(u) = Len(w) - 1 /\ Len(w) \in Nat \ {0} /\ Head(w) = w[1]
      /\ \A k \in 1 .. Len(u) : u[k] = w[k + 1]
  OBVIOUS
<1>2. w[1].seal = [key |-> key, counter |-> recv, epoch |-> Rotated(ratchet, recv, e)]
  BY <1>1 DEF Chain, EpochBefore
<1>3. SUFFICES /\ Chain(u, 1, key, ratchet, recv + 1, Rotated(ratchet, recv, e))
               /\ LastEpoch(u, 1, Rotated(ratchet, recv, e)) = LastEpoch(w, 1, e)
  BY <1>1, <1>2
<1> HIDE DEF u
<1>a. w[1].seal.epoch = Rotated(ratchet, recv, e)
  BY <1>2
<1>4. LastEpoch(u, 1, Rotated(ratchet, recv, e)) = LastEpoch(w, 1, e)
  BY <1>1, <1>a DEF LastEpoch
<1>5. SUFFICES ASSUME NEW k \in 1 .. Len(u)
               PROVE  u[k].seal = [key |-> key, counter |-> recv + 1 + (k - 1),
                                   epoch |-> Rotated(ratchet, recv + 1 + (k - 1),
                                       EpochBefore(u, 1, k, Rotated(ratchet, recv, e)))]
  BY <1>4 DEF Chain
<1>6. k + 1 \in 1 .. Len(w) /\ u[k] = w[k + 1] /\ (k # 1 => u[k - 1] = w[k])
  BY <1>1
<1>7. w[k + 1].seal = [key |-> key, counter |-> recv + (k + 1 - 1),
                       epoch |-> Rotated(ratchet, recv + (k + 1 - 1), EpochBefore(w, 1, k + 1, e))]
  BY <1>6 DEF Chain
<1>8. k + 1 - 1 = k /\ recv + (k + 1 - 1) = recv + 1 + (k - 1)
  OBVIOUS
<1>9. EpochBefore(w, 1, k + 1, e) = EpochBefore(u, 1, k, Rotated(ratchet, recv, e))
  BY <1>6, <1>8, <1>a DEF EpochBefore
<1>. QED
  BY <1>6, <1>7, <1>8, <1>9

\* What follows the confirm is a chain once the confirm is taken.
LEMMA ChainShift ==
    ASSUME NEW w \in Seq(Messages), w # <<>>, NEW key, Chain(w, 2, key, FALSE, 0, 0)
    PROVE  /\ Chain(Tail(w), 1, key, FALSE, 0, 0)
           /\ LastEpoch(Tail(w), 1, 0) = LastEpoch(w, 2, 0)
<1> DEFINE u == Tail(w)
<1>1. u \in Seq(Messages) /\ Len(u) = Len(w) - 1 /\ Len(w) \in Nat \ {0}
      /\ \A k \in 1 .. Len(u) : u[k] = w[k + 1]
  OBVIOUS
<1>2. SUFFICES Chain(u, 1, key, FALSE, 0, 0) /\ LastEpoch(u, 1, 0) = LastEpoch(w, 2, 0)
  BY Zenon
<1> HIDE DEF u
<1>3. LastEpoch(u, 1, 0) = LastEpoch(w, 2, 0)
  BY <1>1 DEF LastEpoch
<1>4. SUFFICES ASSUME NEW k \in 1 .. Len(u)
               PROVE  u[k].seal = [key |-> key, counter |-> 0 + (k - 1),
                                   epoch |-> Rotated(FALSE, 0 + (k - 1),
                                       EpochBefore(u, 1, k, 0))]
  BY <1>3, Zenon DEF Chain
<1>5. k + 1 \in 2 .. Len(w) /\ u[k] = w[k + 1] /\ (k # 1 => u[k - 1] = w[k])
  BY <1>1
<1>6. PICK j \in 2 .. Len(w) : j = k + 1
  BY <1>5
<1>a. w[j].seal = [key |-> key, counter |-> 0 + (j - 2),
                   epoch |-> Rotated(FALSE, 0 + (j - 2), EpochBefore(w, 2, j, 0))]
  BY <1>6, Zenon DEF Chain
<1>7. 0 + (j - 2) = 0 + (k - 1) /\ w[j] = u[k] /\ EpochBefore(w, 2, j, 0) = EpochBefore(u, 1, k, 0)
  BY <1>5, <1>6 DEF EpochBefore
<1>. QED
  BY <1>a, <1>7, Zenon

\* The keys of the session and of the rekey, now and after a step.
LEMMA SessionKeysDiffer ==
    /\ Base # <<>> /\ Rekeyed # <<>> /\ Rekeyed # Base
    /\ Base' # <<>> /\ Rekeyed' # <<>> /\ Rekeyed' # Base'
BY KeysDiffer DEF Base, Rekeyed

\* The sides' keys are typed.
LEMMA SessionKeysTyped ==
    ASSUME SecureTyped
    PROVE  Base \in KeySet /\ Rekeyed \in KeySet /\ conf.secret \in Secrets
           /\ transcript(side["client"].features, side["client"].device) \in Transcripts
<1>1. conf.secret \in Secrets /\ conf.serverFeatures \in SUBSET Feats
  BY DEF SecureTyped, Configurations, Feats
<1>2. side["client"].features \in SUBSET Feats /\ side["client"].device \in Devices
  BY DEF SecureTyped, SideRecs, Sides
<1>3. transcript(side["client"].features, side["client"].device) \in Transcripts
  BY <1>1, <1>2 DEF transcript, Transcripts
<1>4. Base \in SessionKeys
  BY <1>1, <1>3 DEF Base, SessionKeys
<1>. QED
  BY <1>1, <1>3, <1>4 DEF KeySet, Rekeyed

\* The session's keys change only with what the client asked for.
LEMMA BaseSame ==
    ASSUME conf' = conf, side'["client"].features = side["client"].features,
           side'["client"].device = side["client"].device
    PROVE  Base' = Base /\ Rekeyed' = Rekeyed
BY DEF Base, Rekeyed, transcript

-----------------------------------------------------------------------------
(* What the steps that touch only part of the state preserve.              *)

\* A side that keeps its identity, and one that changes only its place.
Identity(q, p) ==
    q.keys = p.keys /\ q.features = p.features /\ q.device = p.device /\ q.credential = p.credential
Same(q, p) ==
    /\ Identity(q, p) /\ q.selected = p.selected /\ q.negotiated = p.negotiated
    /\ q.done = p.done /\ q.broken = p.broken

\* Nothing but the handshake and the rekey changes an identity.
LEMMA KeysSame ==
    ASSUME KeysFollow, conf' = conf, \A x \in Sides : Identity(side'[x], side[x])
    PROVE  KeysFollow' /\ Base' = Base /\ Rekeyed' = Rekeyed
<1>1. Identity(side'["client"], side["client"]) /\ Identity(side'["server"], side["server"])
  BY DEF Sides
<1>2. Base' = Base /\ Rekeyed' = Rekeyed
  BY <1>1, BaseSame DEF Identity
<1>. QED
  BY <1>1, <1>2 DEF KeysFollow, Identity

\* What messages say of their senders outlives a step.
Lasting ==
    /\ conf' = conf
    /\ side["server"].keys = Rekeyed => side'["server"].keys = Rekeyed'
    /\ Chosen => /\ Chosen' /\ side'["client"].selected = side["client"].selected
                 /\ side["client"].negotiated => side'["client"].negotiated
                 /\ side["client"].keys = Rekeyed => side'["client"].keys = Rekeyed'

\* What a record says stays true.
LEMMA SaysLasts ==
    ASSUME Lasting, NEW x, NEW m, Says(x, m)
    PROVE  Says(x, m)'
<1>1. Offer' = Offer
  BY DEF Lasting, Offer, Parameters
<1>. QED
  BY <1>1 DEF Lasting, Says

\* A message in flight after a step was in flight before or is true when it
\* is sent; what is decoded was decoded or in flight before.
LEMMA MessagesLast ==
    ASSUME MessagesHold, Lasting,
           \A x \in Sides : \A k \in 1 .. Len(wire'[x]) :
              \/ \E j \in 1 .. Len(wire[x]) : wire'[x][k] = wire[x][j]
              \/ wire'[x][k].type \in RecTypes => Says(x, wire[x][k])',
           \A x \in Sides : \A k \in 1 .. Len(inbox'[x]) :
              \/ \E j \in 1 .. Len(inbox[x]) : inbox'[x][k] = inbox[x][j]
              \/ \E j \in 1 .. Len(wire[x]) :
                    /\ inbox'[x][k] = wire[x][j]
                    /\ wire[x][j].type \in RecTypes /\ wire[x][j].type # "dummy"
    PROVE  MessagesHold'
<1>1. ASSUME NEW x \in Sides, NEW k \in 1 .. Len(wire'[x]), wire'[x][k].type \in RecTypes
      PROVE  Says(x, wire[x][k])'
  <2>1. CASE \E j \in 1 .. Len(wire[x]) : wire'[x][k] = wire[x][j]
    <3>1. PICK j \in 1 .. Len(wire[x]) : wire'[x][k] = wire[x][j]
      BY <2>1
    <3>2. PICK m : m = wire[x][j]
      OBVIOUS
    <3>3. Says(x, m)
      BY <1>1, <3>1, <3>2 DEF MessagesHold
    <3>4. Says(x, m)'
      BY <3>3, SaysLasts
    <3>. QED
      BY <3>1, <3>2, <3>4 DEF Says
  <2>. QED
    BY <2>1, <1>1
<1>2. ASSUME NEW x \in Sides, NEW k \in 1 .. Len(inbox'[x])
      PROVE  Says(x, inbox[x][k])' /\ inbox'[x][k].type # "dummy"
  <2>1. PICK m : m = inbox'[x][k]
    OBVIOUS
  <2>2. Says(x, m) /\ m.type # "dummy"
    BY <2>1 DEF MessagesHold
  <2>3. Says(x, m)'
    BY <2>2, SaysLasts
  <2>. QED
    BY <2>1, <2>2, <2>3 DEF Says
<1>. QED
  BY <1>1, <1>2 DEF MessagesHold

\* Nonces stay behind when nothing is sealed: a side keeps its place or takes
\* keys it has sealed nothing under.
LEMMA NoncesKept ==
    ASSUME SecureTyped, NoncesBehind, sealed' = sealed,
           sealed.nonces = {} \/ (Base' = Base /\ Rekeyed' = Rekeyed),
           \A x \in Sides :
              \/ rec'[x].keys = rec[x].keys /\ rec'[x].send = rec[x].send
              \/ rec[x].keys = <<>>
              \/ rec[x].keys = Base /\ rec'[x].keys = Rekeyed
    PROVE  NoncesBehind'
<1>1. CASE sealed.nonces = {}
  BY <1>1 DEF NoncesBehind
<1>2. CASE Base' = Base /\ Rekeyed' = Rekeyed
  <2>1. ASSUME NEW e \in sealed.nonces
        PROVE  /\ rec'[e[1]].keys # <<>> /\ e[2].key \in {Base, Rekeyed}
               /\ e[2].key = rec'[e[1]].keys => e[2].counter < rec'[e[1]].send
               /\ e[2].key = Rekeyed => rec'[e[1]].keys = Rekeyed
    <3>1. e[1] \in Sides
      BY DEF SecureTyped
    <3>2. /\ rec[e[1]].keys # <<>> /\ e[2].key \in {Base, Rekeyed}
          /\ e[2].key = rec[e[1]].keys => e[2].counter < rec[e[1]].send
          /\ e[2].key = Rekeyed => rec[e[1]].keys = Rekeyed
      BY DEF NoncesBehind
    <3>. QED
      BY <3>1, <3>2, SessionKeysDiffer
  <2>. QED
    BY <1>2, <2>1 DEF NoncesBehind
<1>. QED
  BY <1>1, <1>2

\* A record is sealed with a counter its keys have not used.
LEMMA NoncesSent ==
    ASSUME SecureTyped, NoncesBehind, NEW x \in Sides, rec[x].keys \in {Base, Rekeyed},
           sealed' = [nonces |-> sealed.nonces \cup {<<x, Seal(x)>>}, repeated |-> sealed.repeated \/ <<x, Seal(x)>> \in sealed.nonces],
           Base' = Base, Rekeyed' = Rekeyed,
           \A y \in Sides \ {x} : rec'[y].keys = rec[y].keys /\ rec'[y].send = rec[y].send,
           \/ rec'[x].keys = rec[x].keys /\ rec'[x].send = rec[x].send + 1
           \/ rec[x].keys = Base /\ rec'[x].keys = Rekeyed
    PROVE  NoncesBehind'
<1> DEFINE n == <<x, Seal(x)>>
<1>1. Seal(x).key = rec[x].keys /\ Seal(x).counter = rec[x].send /\ rec[x].send \in Nat
  BY DEF Seal, SecureTyped, RecordStates
<1>2. n[1] = x /\ n[2].key = rec[x].keys /\ n[2].counter = rec[x].send
  BY <1>1
<1>3. sealed'.nonces = sealed.nonces \cup {n} /\ sealed'.repeated = (sealed.repeated \/ n \in sealed.nonces)
  OBVIOUS
<1> HIDE DEF n
<1>4. n \notin sealed.nonces
  BY <1>1, <1>2 DEF NoncesBehind
<1>5. ~sealed'.repeated
  BY <1>3, <1>4 DEF NoncesBehind
<1>6. ASSUME NEW e \in sealed'.nonces
      PROVE  /\ rec'[e[1]].keys # <<>> /\ e[2].key \in {Base, Rekeyed}
             /\ e[2].key = rec'[e[1]].keys => e[2].counter < rec'[e[1]].send
             /\ e[2].key = Rekeyed => rec'[e[1]].keys = Rekeyed
  <2>1. CASE e = n
    BY <2>1, <1>1, <1>2, SessionKeysDiffer
  <2>2. CASE e \in sealed.nonces
    <3>1. e[1] \in Sides /\ e[2].counter \in Nat
      BY <2>2 DEF SecureTyped, Seals
    <3>2. /\ rec[e[1]].keys # <<>> /\ e[2].key \in {Base, Rekeyed}
          /\ e[2].key = rec[e[1]].keys => e[2].counter < rec[e[1]].send
          /\ e[2].key = Rekeyed => rec[e[1]].keys = Rekeyed
      BY <2>2 DEF NoncesBehind
    <3>. QED
      BY <3>1, <3>2, <1>1, SessionKeysDiffer
  <2>. QED
    BY <1>3, <2>1, <2>2
<1>. QED
  BY <1>5, <1>6 DEF NoncesBehind

-----------------------------------------------------------------------------
(* The handshake.                                                          *)

\* The program starts in the invariant.
LEMMA SecureStarts == SecureInit => SecureInv
<1> SUFFICES ASSUME SecureInit PROVE SecureInv
  OBVIOUS
<1>1. NewSide \in SideRecs /\ NewSide.pc = "start" /\ NewSide.keys = <<>> /\ ~NewSide.done
      /\ ~NewSide.negotiated /\ NewSide.selected = {} /\ ~NewSide.broken
  BY DEF NewSide, SideRecs, Pcs, KeySet, Devices, NoSet
<1>2. NewRecords \in RecordStates /\ NewRecords.keys = <<>> /\ ~NewRecords.pending
      /\ ~NewRecords.ratchet /\ NewRecords.sendEpoch = 0 /\ NewRecords.recvEpoch = 0
      /\ NewRecords.send = 0 /\ NewRecords.recv = 0
  BY DEF NewRecords, RecordStates, KeySet
<1>3. \A x \in Sides : side[x] = NewSide /\ rec[x] = NewRecords /\ wire[x] = <<>> /\ inbox[x] = <<>>
  BY DEF SecureInit
<1>4. sealed.nonces = {} /\ ~sealed.repeated /\ ~slow
  BY DEF SecureInit
<1>5. SecureTyped
  <2>1. side \in [Sides -> SideRecs] /\ rec \in [Sides -> RecordStates]
    BY <1>1, <1>2 DEF SecureInit
  <2>2. <<>> \in Seq(Messages) /\ <<>> \in Seq(Recs)
    OBVIOUS
  <2>3. wire \in [Sides -> Seq(Messages)] /\ inbox \in [Sides -> Seq(Recs)]
    BY <2>2 DEF SecureInit
  <2>4. sealed \in [nonces : SUBSET (Sides \X Seals), repeated : BOOLEAN]
    BY DEF SecureInit
  <2>. QED
    BY <2>1, <2>3, <2>4, Zenon DEF SecureInit, SecureTyped
<1>6. KeysFollow
  BY <1>1, <1>3, SessionKeysDiffer DEF KeysFollow, Sides
<1>7. MessagesHold
  BY <1>3 DEF MessagesHold
<1>8. SelectionHolds
  BY <1>1, <1>3 DEF SelectionHolds, Sides
<1>9. NoncesBehind
  BY <1>4 DEF NoncesBehind
<1>10. RecordsAlwaysOpen
  BY <1>1, <1>3 DEF RecordsAlwaysOpen
<1>11. Standing
  BY <1>1, <1>2, <1>3, SessionKeysDiffer DEF Standing, Sides
<1>12. Handshaking
  BY <1>1, <1>3 DEF Handshaking, Sides
<1>13. CarriersFollow
  BY <1>1, <1>2, <1>3, SessionKeysDiffer DEF CarriersFollow, Sides
<1>14. Boundary
  BY <1>1, <1>3, SessionKeysDiffer DEF Boundary, Sides
<1>15. RecordsLineUp
  BY <1>2, <1>3, SessionKeysDiffer, Zenon DEF RecordsLineUp, Sides
<1>. QED
  BY <1>5, <1>6, <1>7, <1>8, <1>9, <1>10, <1>11, <1>12, <1>13, <1>14, <1>15 DEF SecureInv, LiveInv

\* The server sends its challenge.
LEMMA HandshakeStarts ==
    ASSUME SecureInv, NewServerHandshake
    PROVE  SecureInv'
<1> USE DEF Sides
<1> DEFINE q == [side["server"] EXCEPT !.pc = "response"]
<1> DEFINE m == [type |-> "challenge", caps |-> conf.serverFeatures, proof |-> <<>>]
<1>0. SecureTyped /\ KeysFollow /\ MessagesHold /\ SelectionHolds /\ NoncesBehind /\ RecordsAlwaysOpen
      /\ side["server"].pc = "start"
  BY DEF SecureInv, NewServerHandshake
<1>1. q \in SideRecs /\ q.pc = "response" /\ Same(q, side["server"])
  BY <1>0, ZenonT(30) DEF SecureTyped, SideRecs, Pcs, Same, Identity
<1>2. side' = [side EXCEPT !["server"] = q] /\ wire' = [wire EXCEPT !["client"] = Append(@, m)]
      /\ UNCHANGED <<conf, rec, inbox, sealed, slow>>
  BY DEF NewServerHandshake, RawSend, Peer
<1>3. m \in Messages /\ m.type = "challenge" /\ m = Challenge
  BY <1>0 DEF SecureTyped, Configurations, Messages, Raws, RawTypes, Feats, Proofs, Challenge
<1>a. Challenge' = Challenge
  BY <1>2 DEF Challenge
<1> HIDE DEF q, m
<1>4. side'["server"] = q /\ side'["client"] = side["client"] /\ wire'["server"] = wire["server"]
      /\ wire'["client"] = Append(wire["client"], m)
  BY <1>0, <1>2 DEF SecureTyped
<1>5. SecureTyped'
  BY <1>0, <1>1, <1>2, <1>3 DEF SecureTyped
<1>6. KeysFollow' /\ Base' = Base /\ Rekeyed' = Rekeyed
  BY <1>0, <1>1, <1>2, <1>4, KeysSame DEF Same, Identity
<1>7. MessagesHold'
  <2>1. Lasting
    BY <1>1, <1>2, <1>4, <1>6 DEF Lasting, Chosen, Same, Identity
  <2>2. \A k \in 1 .. Len(wire'["client"]) :
           \/ \E j \in 1 .. Len(wire["client"]) : wire'["client"][k] = wire["client"][j]
           \/ wire'["client"][k].type \notin RecTypes
    <3>1. wire["client"] \in Seq(Messages) /\ m.type \notin RecTypes
      BY <1>0, <1>3 DEF SecureTyped, RecTypes
    <3>. QED
      BY <3>1, <1>3, <1>4
  <2>. QED
    BY <1>0, <1>2, <1>4, <2>1, <2>2, MessagesLast
<1>8. SelectionHolds'
  BY <1>0, <1>1, <1>2, <1>4, <1>6 DEF SelectionHolds, Chosen, Same, Identity
<1>9. NoncesBehind'
  BY <1>0, <1>2, <1>6, NoncesKept
<1>10. RecordsAlwaysOpen'
  BY <1>0, <1>1, <1>2, <1>4 DEF RecordsAlwaysOpen, Same
<1>11. ASSUME Alive' PROVE LiveInv'
  <2>1. Alive /\ LiveInv
    BY <1>0, <1>1, <1>4, <1>11 DEF Alive, SecureInv
  <2>2. side["client"].pc = "start" /\ wire["client"] = <<>> /\ wire["server"] = <<>>
        /\ side["client"].keys = <<>> /\ side["server"].keys = <<>>
    BY <1>0, <2>1 DEF LiveInv, Handshaking, Standing
  <2>3. wire'["client"] = <<Challenge>>
    BY <1>3, <1>4, <2>2
  <2>4. Standing'
    BY <1>0, <1>1, <1>2, <1>4, <1>6, <2>1, <2>2, SessionKeysDiffer, SMTT(30) DEF Standing, LiveInv, Same, Identity
  <2>5. Handshaking'
    BY <1>1, <1>4, <1>a, <2>2, <2>3 DEF Handshaking, Same, Identity
  <2>6. CarriersFollow'
    BY <1>0, <1>1, <1>2, <1>4, <1>6, <2>1 DEF CarriersFollow, LiveInv, Same, Identity
  <2>7. Boundary'
    BY <1>1, <1>2, <1>4, <1>6, <2>2, SessionKeysDiffer, SMTT(30) DEF Boundary, Same, Identity
  <2>8. RecordsLineUp'
    BY <1>2, <1>4, <1>6, <2>1, <2>2, SessionKeysDiffer, Zenon DEF RecordsLineUp, LiveInv, Standing
  <2>. QED
    BY <2>4, <2>5, <2>6, <2>7, <2>8 DEF LiveInv
<1>. QED
  BY <1>5, <1>6, <1>7, <1>8, <1>9, <1>10, <1>11 DEF SecureInv

\* Taking the first message away leaves messages that were there.
LEMMA TailWithin ==
    ASSUME NEW S, NEW w \in Seq(S), w # <<>>
    PROVE  /\ Tail(w) \in Seq(S) /\ Head(w) \in S /\ Head(w) = w[1] /\ Len(w) \in Nat \ {0}
           /\ Len(Tail(w)) = Len(w) - 1
           /\ \A k \in 1 .. Len(Tail(w)) : k + 1 \in 1 .. Len(w) /\ Tail(w)[k] = w[k + 1]
           /\ \A k \in 1 .. Len(Tail(w)) : \E j \in 1 .. Len(w) : Tail(w)[k] = w[j]
           /\ Len(w) = 1 => Tail(w) = <<>>
<1>1. /\ Tail(w) \in Seq(S) /\ Head(w) \in S /\ Head(w) = w[1] /\ Len(w) \in Nat \ {0}
      /\ Len(Tail(w)) = Len(w) - 1
  OBVIOUS
<1>2. \A k \in 1 .. Len(Tail(w)) : k + 1 \in 1 .. Len(w) /\ Tail(w)[k] = w[k + 1]
  BY <1>1
<1>3. Len(w) = 1 => Tail(w) = <<>>
  <2>1. Tail(w) # <<>> => Len(Tail(w)) # 0
    BY <1>1, EmptySeq
  <2>. QED
    BY <1>1, <2>1
<1>. QED
  BY <1>1, <1>2, <1>3

\* A side gives up: the other's conclusions stand.
LEMMA GivesUp ==
    ASSUME SecureInv, SecureTyped', NEW x \in Sides, NEW q \in SideRecs,
           side' = [side EXCEPT ![x] = q], q.pc = "failed",
           Identity(q, side[x]), q.selected = side[x].selected, q.done = side[x].done,
           q.negotiated = side[x].negotiated, q.broken => side[x].broken \/ slow,
           conf' = conf, sealed' = sealed, slow' = slow,
           \A y \in Sides : \A k \in 1 .. Len(wire'[y]) :
              \/ \E j \in 1 .. Len(wire[y]) : wire'[y][k] = wire[y][j]
              \/ wire'[y][k].type \notin RecTypes,
           \A y \in Sides : \A k \in 1 .. Len(inbox'[y]) :
              \E j \in 1 .. Len(inbox[y]) : inbox'[y][k] = inbox[y][j],
           \A y \in Sides : \/ rec'[y].keys = rec[y].keys /\ rec'[y].send = rec[y].send
                            \/ rec[y].keys = <<>>
    PROVE  SecureInv'
<1>0. SecureTyped /\ KeysFollow /\ MessagesHold /\ SelectionHolds /\ NoncesBehind /\ RecordsAlwaysOpen
  BY DEF SecureInv
<1>1. side'[x] = q /\ \A y \in Sides \ {x} : side'[y] = side[y]
  BY <1>0 DEF SecureTyped
<1>2. KeysFollow' /\ Base' = Base /\ Rekeyed' = Rekeyed
  BY <1>0, <1>1, KeysSame DEF Identity
<1>3. \A y \in Sides : /\ Identity(side'[y], side[y]) /\ side'[y].selected = side[y].selected
                       /\ side'[y].done = side[y].done /\ side'[y].negotiated = side[y].negotiated
                       /\ side'[y].pc = side[y].pc \/ side'[y].pc = "failed"
                       /\ side'[y].broken => side[y].broken \/ slow
  BY <1>1 DEF Identity
<1>4. Lasting
  BY <1>2, <1>3 DEF Lasting, Chosen, Identity, Sides
<1>5. MessagesHold'
  BY <1>0, <1>4, MessagesLast, Zenon
<1>6. SelectionHolds'
  BY <1>0, <1>2, <1>3 DEF SelectionHolds, Chosen, Identity, Sides
<1>7. NoncesBehind'
  BY <1>0, <1>2, NoncesKept
<1>8. RecordsAlwaysOpen'
  BY <1>0, <1>3 DEF RecordsAlwaysOpen
<1>9. ~Alive'
  BY <1>1 DEF Alive
<1>. QED
  BY <1>2, <1>5, <1>6, <1>7, <1>8, <1>9 DEF SecureInv

\* The client answers the challenge, or gives up on the server's features.
LEMMA ClientResponds ==
    ASSUME SecureInv, RespondToChallenge
    PROVE  SecureInv'
<1> USE DEF Sides
<1> DEFINE offered == Head(wire["client"]).caps
           wanted  == conf.clientFeatures \ ({"device"} \ offered)
           device  == IF "device" \in wanted THEN "device" ELSE NoSet
           q == [side["client"] EXCEPT !.pc = "confirm", !.features = wanted, !.device = device]
           f == [side["client"] EXCEPT !.pc = "failed"]
           m == [type |-> "response", caps |-> wanted,
                 proof |-> Tag("response", conf.secret, transcript(wanted, device))]
<1>0. SecureTyped /\ KeysFollow /\ MessagesHold /\ SelectionHolds /\ NoncesBehind /\ RecordsAlwaysOpen
      /\ Alive /\ LiveInv
  BY DEF SecureInv, RespondToChallenge, Raw
<1>1. side["client"].pc = "start" /\ wire["client"] # <<>> /\ Head(wire["client"]).type = "challenge"
      /\ UNCHANGED <<conf, rec, inbox, sealed, slow>>
  BY DEF RespondToChallenge, Raw
<1>2. side["client"].keys = <<>> /\ side["server"].keys = <<>> /\ side["server"].pc = "response"
      /\ wire["client"] = <<Challenge>> /\ wire["server"] = <<>>
      /\ rec["client"].keys = <<>> /\ rec["server"].keys = <<>>
  BY <1>0, <1>1 DEF LiveInv, Standing, Handshaking
<1>3. wire["client"] \in Seq(Messages) /\ Tail(wire["client"]) = <<>>
  <2>1. Len(wire["client"]) = 1
    BY <1>2
  <2>2. wire["client"] \in Seq(Messages)
    BY <1>0 DEF SecureTyped
  <2>. QED
    BY <1>1, <2>1, <2>2, TailWithin
<1>4. CASE wanted \subseteq offered
  <2>1. side' = [side EXCEPT !["client"] = q]
        /\ wire' = [wire EXCEPT !["client"] = Tail(@), !["server"] = Append(@, m)]
    BY <1>4, Zenon DEF RespondToChallenge
  <2>2. wanted \in SUBSET Feats /\ device \in Devices /\ conf.secret \in Secrets
        /\ conf.serverFeatures \in SUBSET Feats
    BY <1>0 DEF SecureTyped, Configurations, Feats, Devices
  <2>a. device = IF "device" \in wanted THEN "device" ELSE NoSet
    OBVIOUS
  <2> HIDE DEF offered, wanted, device
  <2>3. q \in SideRecs /\ q.pc = "confirm" /\ q.features = wanted /\ q.device = device
        /\ q.keys = <<>> /\ q.done = side["client"].done /\ q.broken = side["client"].broken
        /\ q.selected = side["client"].selected /\ q.negotiated = side["client"].negotiated
    <3>1. side["client"] \in SideRecs
      BY <1>0 DEF SecureTyped, Sides
    <3>2. PICK c \in SideRecs : c = side["client"]
      BY <3>1
    <3>a. q = [c EXCEPT !.pc = "confirm", !.features = wanted, !.device = device]
      BY <3>2
    <3>. HIDE DEF q
    <3>3. q = [pc |-> "confirm", keys |-> c.keys, features |-> wanted, device |-> device,
               credential |-> c.credential, done |-> c.done, negotiated |-> c.negotiated,
               selected |-> c.selected, offer |-> c.offer, broken |-> c.broken]
      BY <3>a, Zenon DEF SideRecs
    <3>4. /\ c.keys \in KeySet /\ c.credential \in {"a", "b", NoSet} /\ c.done \in BOOLEAN
          /\ c.negotiated \in BOOLEAN /\ c.selected \in SUBSET Caps
          /\ c.offer \in SUBSET Caps /\ c.broken \in BOOLEAN
      BY DEF SideRecs
    <3>5. q \in SideRecs
      BY <2>2, <3>3, <3>4 DEF SideRecs, Pcs
    <3>. QED
      BY <1>2, <3>2, <3>3, <3>5
  <2>4. transcript(wanted, device) \in Transcripts
    BY <2>2 DEF transcript, Transcripts
  <2>5. m \in Messages /\ m.type = "response"
    <3>1. Tag("response", conf.secret, transcript(wanted, device)) \in Proofs
      BY <2>2, <2>4 DEF Tag, Proofs
    <3>. QED
      BY <2>2, <3>1 DEF Messages, Raws, RawTypes
  <2>6. m = [type |-> "response", caps |-> q.features,
             proof |-> Tag("response", conf.secret, transcript(q.features, q.device))]
    BY <2>3
  <2>7. q.device = IF "device" \in q.features THEN "device" ELSE NoSet
    BY <2>3, <2>a
  <2> HIDE DEF q, m
  <2>8. side'["client"] = q /\ side'["server"] = side["server"]
        /\ wire'["client"] = <<>> /\ wire'["server"] = <<m>>
    BY <1>0, <1>2, <1>3, <2>1 DEF SecureTyped
  <2>9. m = Response'
    BY <1>1, <2>6, <2>8 DEF Response, transcript
  <2>10. SecureTyped'
    <3>1. <<>> \in Seq(Messages) /\ <<m>> \in Seq(Messages)
      BY <2>5
    <3>2. wire' \in [Sides -> Seq(Messages)]
      BY <1>0, <2>1, <2>8, <3>1 DEF SecureTyped
    <3>. QED
      BY <1>0, <1>1, <2>1, <2>3, <3>2, Zenon DEF SecureTyped
  <2>11. KeysFollow'
    BY <1>2, <2>3, <2>8, SessionKeysDiffer DEF KeysFollow
  <2>12. Lasting
    BY <1>1, <1>2, SessionKeysDiffer DEF Lasting, Chosen
  <2>13. MessagesHold'
    <3>1. m.type \notin RecTypes
      BY <2>5 DEF RecTypes
    <3>2. \A k \in 1 .. Len(wire'["server"]) : wire'["server"][k].type \notin RecTypes
      BY <2>8, <3>1
    <3>. QED
      BY <1>0, <1>1, <2>8, <2>12, <3>2, MessagesLast
  <2>14. SelectionHolds'
    BY <1>0, <1>1, <1>2, <2>3, <2>8 DEF SelectionHolds, Chosen
  <2>15. NoncesBehind'
    <3>1. sealed.nonces = {}
      BY <1>0, <1>2 DEF NoncesBehind, SecureTyped
    <3>. QED
      BY <1>0, <1>1, <3>1, NoncesKept
  <2>16. RecordsAlwaysOpen'
    BY <1>0, <1>1, <2>3, <2>8, SMTT(30) DEF RecordsAlwaysOpen
  <2>17. Standing'
    BY <1>0, <1>1, <1>2, <2>3, <2>8, SessionKeysDiffer, SMTT(30) DEF LiveInv, Standing
  <2>18. Handshaking'
    BY <1>1, <1>2, <2>3, <2>7, <2>8, <2>9 DEF Handshaking
  <2>19. CarriersFollow'
    BY <1>0, <1>1, <1>2, <2>3, <2>8, SessionKeysDiffer DEF LiveInv, CarriersFollow
  <2>20. Boundary'
    BY <1>1, <1>2, <2>3, <2>8, SessionKeysDiffer DEF Boundary
  <2>21. RecordsLineUp'
    BY <1>1, <1>2, SessionKeysDiffer, Zenon DEF RecordsLineUp
  <2>. QED
    BY <2>10, <2>11, <2>13, <2>14, <2>15, <2>16, <2>17, <2>18, <2>19, <2>20, <2>21, SMTT(30) DEF SecureInv, LiveInv
<1>5. CASE ~(wanted \subseteq offered)
  <2>1. side' = [side EXCEPT !["client"] = f] /\ wire' = [wire EXCEPT !["client"] = Tail(@)]
    BY <1>5 DEF RespondToChallenge, Took
  <2>2. f \in SideRecs /\ f.pc = "failed" /\ Same(f, side["client"])
    BY <1>0, ZenonT(30) DEF SecureTyped, SideRecs, Pcs, Same, Identity
  <2> HIDE DEF f, wanted, offered
  <2>3. wire'["client"] = <<>> /\ wire'["server"] = <<>>
    BY <1>0, <1>2, <1>3, <2>1 DEF SecureTyped
  <2>4. SecureTyped'
    <3>1. wire' \in [Sides -> Seq(Messages)]
      <4>1. Tail(wire["client"]) \in Seq(Messages)
        BY <1>1, <1>3, TailWithin
      <4>. QED
        BY <1>0, <2>1, <4>1 DEF SecureTyped
    <3>. QED
      BY <1>0, <1>1, <2>1, <2>2, <3>1 DEF SecureTyped
  <2>5. \A y \in Sides : \A k \in 1 .. Len(wire'[y]) : \E j \in 1 .. Len(wire[y]) : wire'[y][k] = wire[y][j]
    BY <2>3
  <2>6. Identity(f, side["client"]) /\ f.selected = side["client"].selected /\ f.done = side["client"].done
        /\ f.negotiated = side["client"].negotiated /\ f.broken = side["client"].broken
    BY <2>2 DEF Same
  <2>7. inbox' = inbox /\ rec' = rec
    BY <1>1
  <2>. QED
    BY <1>1, <2>1, <2>2, <2>4, <2>5, <2>6, <2>7, GivesUp, Zenon
<1>. QED
  BY <1>4, <1>5

\* The server checks the response: only the client's own secret can have
\* produced its tag, so the server derives the client's keys.
LEMMA ServerVerifies ==
    ASSUME SecureInv, NEW expired \in BOOLEAN, VerifyResponse(expired)
    PROVE  SecureInv'
<1> USE DEF Sides
<1> DEFINE m == Head(wire["server"])
           device == IF "device" \in m.caps THEN "device" ELSE NoSet
           t == transcript(m.caps, device)
           matches == {i \in {"a", "b"} : /\ conf.credentials[i] # NoSet
                                          /\ m.proof = Tag("response", conf.credentials[i], t)}
           c == side["client"]
           f == [side["server"] EXCEPT !.pc = "failed"]
<1>0. SecureTyped /\ KeysFollow /\ MessagesHold /\ SelectionHolds /\ NoncesBehind /\ RecordsAlwaysOpen
      /\ Alive /\ LiveInv
  BY DEF SecureInv, VerifyResponse, Raw
<1>1. side["server"].pc = "response" /\ wire["server"] # <<>> /\ UNCHANGED <<conf, inbox, sealed, slow>>
  BY DEF VerifyResponse, Raw
<1>2. c.pc = "confirm" /\ wire["client"] = <<>> /\ wire["server"] = <<Response>>
      /\ c.keys = <<>> /\ side["server"].keys = <<>>
      /\ rec["client"].keys = <<>> /\ rec["server"].keys = <<>>
      /\ c.device = IF "device" \in c.features THEN "device" ELSE NoSet
  BY <1>0, <1>1 DEF LiveInv, Standing, Handshaking
<1>3. wire["server"] \in Seq(Messages) /\ Tail(wire["server"]) = <<>>
  <2>1. Len(wire["server"]) = 1
    BY <1>2
  <2>2. wire["server"] \in Seq(Messages)
    BY <1>0 DEF SecureTyped
  <2>. QED
    BY <1>1, <2>1, <2>2, TailWithin
<1>4. m = Response /\ m.caps = c.features /\ device = c.device
      /\ m.proof = Tag("response", conf.secret, transcript(c.features, c.device))
  BY <1>2 DEF Response
<1>5. t = transcript(c.features, c.device) /\ <<conf.secret, t>> = Base
  BY <1>4 DEF Base
<1>6. f \in SideRecs /\ f.pc = "failed" /\ Identity(f, side["server"]) /\ f.selected = side["server"].selected
      /\ f.done = side["server"].done /\ f.negotiated = side["server"].negotiated
      /\ f.broken = side["server"].broken
  BY <1>0, Zenon DEF SecureTyped, SideRecs, Pcs, Identity
<1>7. \A i \in matches : conf.credentials[i] = conf.secret /\ i \in {"a", "b"}
  BY <1>4, <1>5 DEF Tag
<1>8. CASE expired \/ ~(m.caps \subseteq conf.serverFeatures) \/ Cardinality(matches) # 1
  <2>1. side' = [side EXCEPT !["server"] = f] /\ wire' = [wire EXCEPT !["server"] = Tail(@)] /\ rec' = rec
    BY <1>8 DEF VerifyResponse, Took
  <2> HIDE DEF f, m, device, t, matches, c
  <2>2. wire'["client"] = <<>> /\ wire'["server"] = <<>>
    BY <1>0, <1>2, <1>3, <2>1 DEF SecureTyped
  <2>3. SecureTyped'
    <3>1. wire' \in [Sides -> Seq(Messages)]
      <4>1. Tail(wire["server"]) \in Seq(Messages)
        BY <1>1, <1>3, TailWithin
      <4>. QED
        BY <1>0, <2>1, <4>1 DEF SecureTyped
    <3>. QED
      BY <1>0, <1>1, <1>6, <2>1, <3>1 DEF SecureTyped
  <2>4. \A y \in Sides : \A k \in 1 .. Len(wire'[y]) : \E j \in 1 .. Len(wire[y]) : wire'[y][k] = wire[y][j]
    BY <2>2
  <2>. QED
    BY <1>1, <1>6, <2>1, <2>3, <2>4, GivesUp, Zenon
<1>9. CASE ~(expired \/ ~(m.caps \subseteq conf.serverFeatures) \/ Cardinality(matches) # 1)
  <2>1. PICK i \in matches :
           /\ Started("server", <<conf.credentials[i], t>>, m.caps, device, i)
           /\ wire' = [Took("server") EXCEPT !["client"] =
                Append(@, [type |-> "confirm", caps |-> {}, proof |-> Tag("confirm", conf.credentials[i], t)])]
    BY <1>9, Zenon DEF VerifyResponse
  <2>2. i \in {"a", "b"} /\ conf.credentials[i] = conf.secret
    BY <1>7
  <2>3. Started("server", Base, c.features, c.device, i)
    BY <1>4, <1>5, <2>1, <2>2
  <2>4. [type |-> "confirm", caps |-> {}, proof |-> Tag("confirm", conf.credentials[i], t)] = Confirm
    BY <1>5, <2>2 DEF Confirm
  <2>5. wire' = [Took("server") EXCEPT !["client"] = Append(@, Confirm)]
    BY <2>1, <2>4, Zenon
  <2> HIDE DEF m, device, t, matches
  <2>6. wire'["client"] = <<Confirm>> /\ wire'["server"] = <<>>
    <3>1. wire'["client"] = Append(wire["client"], Confirm) /\ wire'["server"] = Tail(wire["server"])
      BY <1>0, <2>5 DEF SecureTyped, Took
    <3>. QED
      BY <1>2, <1>3, <3>1
  <2>7. Confirm \in Messages /\ Confirm.type = "confirm"
    <3>1. Tag("confirm", conf.secret, transcript(c.features, c.device)) \in Proofs
      BY <1>0, SessionKeysTyped DEF Tag, Proofs
    <3>. QED
      BY <3>1 DEF Confirm, Messages, Raws, RawTypes
  <2>8. wire' \in [Sides -> Seq(Messages)]
    <3>1. <<>> \in Seq(Messages) /\ <<Confirm>> \in Seq(Messages)
      BY <2>7
    <3>. QED
      BY <1>0, <2>5, <2>6, <3>1 DEF SecureTyped, Took
  <2> DEFINE r == [rec["server"] EXCEPT !.keys = Base, !.paused = conf.serverFS]
  <2>9. rec' = [rec EXCEPT !["server"] = r]
    BY <1>0, <2>3, Zenon DEF Started, SecureTyped
  <2>10. r \in RecordStates /\ r.keys = Base /\ r.paused = conf.serverFS
         /\ r.send = rec["server"].send /\ r.recv = rec["server"].recv
         /\ r.sendEpoch = rec["server"].sendEpoch /\ r.recvEpoch = rec["server"].recvEpoch
         /\ r.ratchet = rec["server"].ratchet /\ r.pending = rec["server"].pending
    <3>1. Base \in KeySet /\ conf.serverFS \in BOOLEAN
      BY <1>0, SessionKeysTyped DEF SecureTyped, Configurations
    <3>. QED
      BY <1>0, <3>1, Zenon DEF SecureTyped, RecordStates
  <2> HIDE DEF r
  <2>11. rec'["server"] = r /\ rec'["client"] = rec["client"] /\ rec' \in [Sides -> RecordStates]
    BY <1>0, <2>9, <2>10 DEF SecureTyped
  <2>12. CASE "aead" \notin c.features
    <3>1. side' = [side EXCEPT !["server"] = f]
      BY <2>3, <2>12 DEF Started
    <3>2. SecureTyped'
      BY <1>0, <1>1, <1>6, <2>8, <2>11, <3>1 DEF SecureTyped
    <3>3. \A y \in Sides : \A k \in 1 .. Len(wire'[y]) : wire'[y][k].type \notin RecTypes
      BY <2>6, <2>7 DEF RecTypes
    <3>4. \A y \in Sides : \A k \in 1 .. Len(inbox'[y]) : \E j \in 1 .. Len(inbox[y]) : inbox'[y][k] = inbox[y][j]
      BY <1>1
    <3>5. \A y \in Sides : rec'[y] = rec[y] \/ rec[y].keys = <<>>
      BY <1>2, <2>11
    <3> HIDE DEF f
    <3>. QED
      BY <1>1, <1>6, <3>1, <3>2, <3>3, <3>4, <3>5, GivesUp, Zenon
  <2>13. CASE "aead" \in c.features
    <3> DEFINE q == [side["server"] EXCEPT !.pc = IF "server" \in conf.extensions THEN "offer" ELSE "up",
                         !.done = "server" \notin conf.extensions, !.keys = Base,
                         !.features = c.features, !.device = c.device, !.credential = i]
    <3>1. side' = [side EXCEPT !["server"] = q]
      BY <2>3, <2>13 DEF Started
    <3>2. q \in SideRecs /\ q.pc = (IF "server" \in conf.extensions THEN "offer" ELSE "up")
          /\ q.keys = Base /\ q.features = c.features /\ q.device = c.device /\ q.credential = i
          /\ q.negotiated = side["server"].negotiated /\ q.selected = side["server"].selected
          /\ q.broken = side["server"].broken
      <4>1. Base \in KeySet /\ c.features \in SUBSET Feats /\ c.device \in Devices
            /\ side["server"] \in SideRecs
        BY <1>0, SessionKeysTyped DEF SecureTyped, SideRecs
      <4> HIDE DEF c
      <4>. QED
        BY <2>2, <4>1, ZenonT(30) DEF SideRecs, Pcs
    <3> HIDE DEF q, f
    <3>3. side'["server"] = q /\ side'["client"] = c
      BY <1>0, <3>1 DEF SecureTyped
    <3>4. Base' = Base /\ Rekeyed' = Rekeyed
      BY <1>1, <3>3, BaseSame
    <3>5. SecureTyped'
      BY <1>0, <1>1, <2>8, <2>11, <3>1, <3>2 DEF SecureTyped
    <3>6. KeysFollow'
      BY <1>1, <1>2, <2>2, <3>2, <3>3, <3>4, SessionKeysDiffer, SMTT(30) DEF KeysFollow
    <3>7. Lasting
      BY <1>1, <1>2, <3>3, <3>4, SessionKeysDiffer, SMTT(30) DEF Lasting, Chosen
    <3>8. MessagesHold'
      <4>1. \A y \in Sides : \A k \in 1 .. Len(wire'[y]) : wire'[y][k].type \notin RecTypes
        BY <2>6, <2>7 DEF RecTypes
      <4>. QED
        BY <1>0, <1>1, <3>7, <4>1, MessagesLast, SMTT(30)
    <3>9. SelectionHolds'
      BY <1>0, <1>1, <1>2, <3>2, <3>3, <3>4 DEF SelectionHolds, Chosen
    <3>10. NoncesBehind'
      BY <1>0, <1>1, <1>2, <2>11, <3>4, NoncesKept, SMTT(30)
    <3>11. RecordsAlwaysOpen'
      BY <1>0, <1>1, <3>2, <3>3, SMTT(30) DEF RecordsAlwaysOpen
    <3>12. Standing'
      BY <1>0, <1>2, <2>10, <2>11, <3>2, <3>3, <3>4, SessionKeysDiffer, SMTT(30) DEF LiveInv, Standing
    <3>13. Handshaking'
      <4>1. Confirm' = Confirm
        BY <1>1, <3>3, SMTT(30) DEF Confirm, transcript
      <4>. QED
        BY <1>2, <2>6, <3>2, <3>3, <4>1, SMTT(30) DEF Handshaking
    <3>14. CarriersFollow'
      <4>1. conf.serverFS => "server" \in conf.extensions
        BY <1>0 DEF SecureTyped, Configurations
      <4>2. ~rec["server"].ratchet /\ ~rec["server"].pending
            /\ rec["server"].sendEpoch = 0 /\ rec["server"].recvEpoch = 0
        BY <1>0, <1>1, <1>2, SessionKeysDiffer DEF LiveInv, CarriersFollow
      <4>. QED
        BY <1>0, <1>1, <1>2, <2>10, <2>11, <3>2, <3>3, <3>4, <4>2, SessionKeysDiffer, SMTT(60)
        DEF LiveInv, CarriersFollow
    <3>15. Boundary'
      BY <1>2, <2>6, <3>2, <3>3, <3>4, SessionKeysDiffer DEF Boundary
    <3>16. RecordsLineUp'
      <4>1. Len(wire'["client"]) = 1
        BY <2>6
      <4>2. rec["server"].send = 0 /\ rec["server"].recv = 0 /\ rec["server"].sendEpoch = 0
        BY <1>0, <1>2, SessionKeysDiffer DEF LiveInv, CarriersFollow
      <4>3. LastEpoch(wire'["client"], 2, 0) = 0
        BY <4>1 DEF LastEpoch
      <4>. QED
        BY <1>2, <2>10, <2>11, <3>4, <4>1, <4>2, <4>3, SessionKeysDiffer, SMTT(30) DEF RecordsLineUp, Chain
    <3>. QED
      BY <3>5, <3>6, <3>8, <3>9, <3>10, <3>11, <3>12, <3>13, <3>14, <3>15, <3>16, SMTT(30) DEF SecureInv, LiveInv
  <2>. QED
    BY <2>12, <2>13
<1>. QED
  BY <1>8, <1>9

\* The client checks the confirm, which an honest server always gets right,
\* and takes up the records that followed it.
LEMMA ClientVerifies ==
    ASSUME SecureInv, VerifyConfirm
    PROVE  SecureInv'
<1> USE DEF Sides
<1> DEFINE c == side["client"]  w == wire["client"]
           f == [c EXCEPT !.pc = "failed"]
           q == [c EXCEPT !.pc = IF "client" \in conf.extensions THEN "offer" ELSE "up",
                          !.done = "client" \notin conf.extensions, !.keys = Base,
                          !.features = c.features, !.device = c.device, !.credential = NoSet]
           r == [rec["client"] EXCEPT !.keys = Base, !.paused = conf.clientFS]
<1>0. SecureTyped /\ KeysFollow /\ MessagesHold /\ SelectionHolds /\ NoncesBehind /\ RecordsAlwaysOpen
      /\ Alive /\ LiveInv
  BY DEF SecureInv, VerifyConfirm, Raw
<1>1. c.pc = "confirm" /\ w # <<>> /\ UNCHANGED <<conf, inbox, sealed, slow>>
      /\ wire' = [wire EXCEPT !["client"] = Tail(@)]
  BY DEF VerifyConfirm, Raw, Took
<1>2. c.keys = <<>> /\ side["server"].keys = Base /\ wire["server"] = <<>>
      /\ rec["client"].keys = <<>> /\ rec["server"].keys = Base
  BY <1>0, <1>1, SessionKeysDiffer DEF LiveInv, Standing, Handshaking, KeysFollow
<1>a. Head(w) = Confirm /\ \A k \in 2 .. Len(w) : w[k].type \in RecTypes
  BY <1>0, <1>1, <1>2, SessionKeysDiffer DEF LiveInv, Handshaking
<1>3. Head(w).proof = Tag("confirm", conf.secret, transcript(c.features, c.device))
  BY <1>a DEF Confirm
<1>4. Started("client", Base, c.features, c.device, NoSet)
  BY <1>3 DEF VerifyConfirm, Base
<1>5. /\ Tail(w) \in Seq(Messages) /\ Len(w) \in Nat \ {0} /\ Len(Tail(w)) = Len(w) - 1
      /\ \A k \in 1 .. Len(Tail(w)) : k + 1 \in 1 .. Len(w) /\ Tail(w)[k] = w[k + 1]
      /\ \A k \in 1 .. Len(Tail(w)) : \E j \in 1 .. Len(w) : Tail(w)[k] = w[j]
  <2>1. w \in Seq(Messages)
    BY <1>0 DEF SecureTyped
  <2>. QED
    BY <1>1, <2>1, TailWithin
<1>6. wire'["client"] = Tail(w) /\ wire'["server"] = <<>> /\ wire' \in [Sides -> Seq(Messages)]
  BY <1>0, <1>1, <1>2, <1>5 DEF SecureTyped
<1>b. \A k \in 1 .. Len(wire'["server"]) : FALSE
  BY <1>6
<1>7. rec' = [rec EXCEPT !["client"] = r]
  BY <1>0, <1>4, Zenon DEF Started, SecureTyped
<1>8. r \in RecordStates /\ r.keys = Base /\ r.paused = conf.clientFS
      /\ r.send = rec["client"].send /\ r.recv = rec["client"].recv
      /\ r.sendEpoch = rec["client"].sendEpoch /\ r.recvEpoch = rec["client"].recvEpoch
      /\ r.ratchet = rec["client"].ratchet /\ r.pending = rec["client"].pending
  <2>1. Base \in KeySet /\ conf.clientFS \in BOOLEAN
    BY <1>0, SessionKeysTyped DEF SecureTyped, Configurations
  <2>. QED
    BY <1>0, <2>1, Zenon DEF SecureTyped, RecordStates
<1> HIDE DEF r
<1>9. rec'["client"] = r /\ rec'["server"] = rec["server"] /\ rec' \in [Sides -> RecordStates]
  BY <1>0, <1>7, <1>8, SMTT(30) DEF SecureTyped
<1>10. CASE "aead" \notin c.features
  <2>1. side' = [side EXCEPT !["client"] = f]
    BY <1>4, <1>10 DEF Started
  <2>2. f \in SideRecs /\ f.pc = "failed" /\ Identity(f, c) /\ f.selected = c.selected
        /\ f.done = c.done /\ f.negotiated = c.negotiated /\ f.broken = c.broken
    BY <1>0, ZenonT(30) DEF SecureTyped, SideRecs, Pcs, Identity
  <2> HIDE DEF f
  <2>3. SecureTyped'
    BY <1>0, <1>1, <1>6, <1>9, <2>1, <2>2 DEF SecureTyped
  <2>4. \A y \in Sides : \A k \in 1 .. Len(wire'[y]) : \E j \in 1 .. Len(wire[y]) : wire'[y][k] = wire[y][j]
    <3>1. \A k \in 1 .. Len(wire'["client"]) : \E j \in 1 .. Len(wire["client"]) : wire'["client"][k] = wire["client"][j]
      BY <1>5, <1>6
    <3>. QED
      BY <1>b, <3>1
  <2>5. \A y \in Sides : \A k \in 1 .. Len(inbox'[y]) : \E j \in 1 .. Len(inbox[y]) : inbox'[y][k] = inbox[y][j]
    BY <1>1
  <2>6. \A y \in Sides : rec'[y] = rec[y] \/ rec[y].keys = <<>>
    BY <1>2, <1>9
  <2>. QED
    BY <1>1, <2>1, <2>2, <2>3, <2>4, <2>5, <2>6, GivesUp, Zenon
<1>11. CASE "aead" \in c.features
  <2>1. side' = [side EXCEPT !["client"] = q]
    BY <1>4, <1>11 DEF Started
  <2>2. q \in SideRecs /\ q.pc = (IF "client" \in conf.extensions THEN "offer" ELSE "up")
        /\ (q.pc = "up" => q.done) /\ (q.done => "client" \notin conf.extensions)
        /\ q.keys = Base /\ q.features = c.features /\ q.device = c.device
        /\ q.negotiated = c.negotiated /\ q.selected = c.selected /\ q.broken = c.broken
    <3>1. Base \in KeySet /\ c \in SideRecs
      BY <1>0, SessionKeysTyped DEF SecureTyped
    <3> HIDE DEF c
    <3>. QED
      BY <3>1, Zenon DEF SideRecs, Pcs
  <2> HIDE DEF q
  <2>3. side'["client"] = q /\ side'["server"] = side["server"]
    BY <1>0, <2>1 DEF SecureTyped
  <2>4. Base' = Base /\ Rekeyed' = Rekeyed
    BY <1>1, <2>2, <2>3, BaseSame
  <2>5. SecureTyped'
    BY <1>0, <1>1, <1>6, <1>9, <2>1, <2>2, SMTT(30) DEF SecureTyped
  <2>6. KeysFollow'
    BY <1>0, <1>1, <1>2, <2>2, <2>3, <2>4, SessionKeysDiffer, SMTT(30) DEF KeysFollow
  <2>7. Lasting
    BY <1>1, <1>2, <2>3, <2>4, SessionKeysDiffer, SMTT(30) DEF Lasting, Chosen
  <2>8. MessagesHold'
    BY <1>0, <1>1, <1>5, <1>6, <2>7, MessagesLast, SMTT(30)
  <2>9. SelectionHolds'
    <3>1. conf.clientFS => "client" \in conf.extensions
      BY <1>0 DEF SecureTyped, Configurations
    <3>. QED
      BY <1>0, <1>1, <2>2, <2>3, <2>4, <3>1 DEF SelectionHolds, Chosen
  <2>10. NoncesBehind'
    BY <1>0, <1>1, <1>2, <1>9, <2>4, NoncesKept, SMTT(30)
  <2>11. RecordsAlwaysOpen'
    BY <1>0, <1>1, <2>2, <2>3, SMTT(30) DEF RecordsAlwaysOpen
  <2>12. Standing'
    BY <1>0, <1>1, <1>2, <1>8, <1>9, <2>2, <2>3, <2>4, SessionKeysDiffer, SMTT(30) DEF LiveInv, Standing
  <2>13. Handshaking'
    <3>1. \A k \in 1 .. Len(wire'["client"]) : wire'["client"][k].type \in RecTypes
      BY <1>a, <1>5, <1>6
    <3>2. \A x \in Sides : \A k \in 1 .. Len(wire'[x]) : wire'[x][k].type \in RecTypes
      BY <1>b, <3>1
    <3>3. q.keys # <<>> /\ q.pc \notin {"start", "confirm"} /\ side["server"].pc \notin {"start", "response"}
      BY <1>0, <1>2, <2>2, SessionKeysDiffer, SMTT(30) DEF LiveInv, Standing
    <3>. QED
      BY <2>3, <3>2, <3>3 DEF Handshaking
  <2>14. CarriersFollow'
    <3>1. ~rec["client"].ratchet /\ ~rec["client"].pending
          /\ rec["client"].sendEpoch = 0 /\ rec["client"].recvEpoch = 0
      BY <1>0, <1>1, <1>2, SessionKeysDiffer DEF LiveInv, CarriersFollow
    <3>. QED
      BY <1>0, <1>1, <1>2, <1>8, <1>9, <2>2, <2>3, <2>4, <3>1, SessionKeysDiffer, SMTT(30)
      DEF LiveInv, CarriersFollow
  <2>15. Boundary'
    <3>1. inbox["server"] = <<>>
      <4>1. inbox["server"] \in Seq(Recs)
        BY <1>0, SMTT(30) DEF SecureTyped
      <4>2. \A k \in 1 .. Len(inbox["server"]) : FALSE
        BY <1>0, <1>1, SMTT(30) DEF MessagesHold, Says, Chosen
      <4>. QED
        BY <4>1, <4>2
    <3>. QED
      BY <1>1, <1>2, <1>6, <2>2, <2>3, <2>4, <3>1, SessionKeysDiffer, SMTT(30) DEF Boundary
  <2>16. ~slow => RecordsLineUp'
    <3> SUFFICES ASSUME ~slow PROVE RecordsLineUp'
      OBVIOUS
    <3>1. /\ Chain(w, 2, Base, FALSE, 0, 0) /\ rec["server"].send = Len(w) - 1 /\ rec["server"].recv = 0
          /\ rec["server"].sendEpoch = LastEpoch(w, 2, 0)
      BY <1>0, <1>2, SessionKeysDiffer, Zenon DEF LiveInv, RecordsLineUp
    <3>2. Chain(Tail(w), 1, Base, FALSE, 0, 0) /\ LastEpoch(Tail(w), 1, 0) = LastEpoch(w, 2, 0)
      <4>1. w \in Seq(Messages)
        BY <1>0 DEF SecureTyped
      <4>. QED
        BY <1>1, <3>1, <4>1, ChainShift, ZenonT(30)
    <3>3. /\ ~r.ratchet /\ ~rec["server"].ratchet /\ r.send = 0 /\ r.recv = 0
          /\ r.sendEpoch = 0 /\ r.recvEpoch = 0
          /\ rec["server"].sendEpoch = 0 /\ rec["server"].recvEpoch = 0
      BY <1>0, <1>2, <1>8, SessionKeysDiffer DEF LiveInv, CarriersFollow
    <3>a. Chain(Tail(w), 1, r.keys, r.ratchet, r.recv, r.recvEpoch)
      <4>1. Chain(Tail(w), 1, r.keys, FALSE, r.recv, r.recvEpoch)
        BY <1>8, <3>2, <3>3, Zenon
      <4>2. \A n, e : Rotated(r.ratchet, n, e) = Rotated(FALSE, n, e)
        BY <3>3 DEF Rotated
      <4>. QED
        BY <4>1, <4>2, Zenon DEF Chain
    <3>b. rec["server"].send = r.recv + Len(Tail(w)) /\ rec["server"].sendEpoch = LastEpoch(Tail(w), 1, r.recvEpoch)
      BY <1>5, <3>1, <3>2, <3>3
    <3>4. InStep("client")'
      BY <1>6, <1>9, <3>a, <3>b, SMTT(30) DEF InStep, Peer
    <3>5. InStep("server")'
      BY <1>6, <1>8, <1>9, <3>1, <3>3, SMTT(30) DEF InStep, Peer, Chain, LastEpoch
    <3>. QED
      BY <1>2, <1>8, <1>9, <2>4, <3>4, <3>5, SessionKeysDiffer, Zenon DEF RecordsLineUp
  <2>. QED
    BY <1>1, <2>5, <2>6, <2>8, <2>9, <2>10, <2>11, <2>12, <2>13, <2>14, <2>15, <2>16 DEF SecureInv, LiveInv
<1>. QED
  BY <1>10, <1>11

-----------------------------------------------------------------------------
(* Sending.                                                                *)

\* What is sealed is typed, and what sealing does to a carrier whose rekey is
\* not armed.
LEMMA SentPlain ==
    ASSUME SecureTyped, NEW x \in Sides
    PROVE  /\ Seal(x) \in Seals /\ Seal(x).key = rec[x].keys /\ Seal(x).counter = rec[x].send
           /\ Seal(x).epoch = Rotated(rec[x].ratchet, rec[x].send, rec[x].sendEpoch)
           /\ ~rec[x].pending =>
                /\ Sent(x) \in RecordStates /\ Sent(x).keys = rec[x].keys
                /\ Sent(x).send = rec[x].send + 1 /\ Sent(x).sendEpoch = Seal(x).epoch
                /\ Sent(x).recv = rec[x].recv /\ Sent(x).recvEpoch = rec[x].recvEpoch
                /\ Sent(x).ratchet = rec[x].ratchet /\ Sent(x).pending = FALSE
                /\ Sent(x).paused = rec[x].paused /\ Sent(x).dummies = rec[x].dummies
<1>1. PICK r \in RecordStates : r = rec[x]
  BY DEF SecureTyped
<1>2. PICK e : e = RotatedKey(r, r.send, r.sendEpoch)
  OBVIOUS
<1>3. e \in Nat /\ e = Rotated(r.ratchet, r.send, r.sendEpoch)
  BY <1>2 DEF RotatedKey, Rotated, RecordStates
<1>4. Seal(x) = [key |-> r.keys, epoch |-> e, counter |-> r.send]
  BY <1>1, <1>2 DEF Seal
<1>5. Seal(x) \in Seals /\ Seal(x).key = r.keys /\ Seal(x).counter = r.send /\ Seal(x).epoch = e
  BY <1>3, <1>4 DEF Seals, RecordStates
<1>6. ASSUME ~rec[x].pending
      PROVE  /\ Sent(x) \in RecordStates /\ Sent(x).keys = r.keys
             /\ Sent(x).send = r.send + 1 /\ Sent(x).sendEpoch = e
             /\ Sent(x).recv = r.recv /\ Sent(x).recvEpoch = r.recvEpoch
             /\ Sent(x).ratchet = r.ratchet /\ Sent(x).pending = FALSE
             /\ Sent(x).paused = r.paused /\ Sent(x).dummies = r.dummies
  <2>0. PICK n \in Nat : n = r.send + 1
    BY DEF RecordStates
  <2> DEFINE s == [r EXCEPT !.sendEpoch = e, !.send = n]
  <2>1. s \in RecordStates /\ s.keys = r.keys /\ s.send = n /\ s.sendEpoch = e
        /\ s.recv = r.recv /\ s.recvEpoch = r.recvEpoch /\ s.ratchet = r.ratchet
        /\ s.pending = r.pending /\ s.paused = r.paused /\ s.dummies = r.dummies
    <3>1. e \in Nat
      BY <1>3
    <3>. QED
      BY <3>1, Zenon DEF RecordStates
  <2>2. ~r.pending /\ r.pending \in BOOLEAN
    BY <1>1, <1>6 DEF RecordStates
  <2>3. Sent(x) = IF s.pending THEN rekey(s) ELSE s
    BY <1>1, <1>5, <2>0 DEF Sent
  <2> HIDE DEF s
  <2>4. s.pending = FALSE
    BY <2>1, <2>2
  <2>. QED
    BY <2>0, <2>1, <2>3, <2>4
<1>. QED
  BY <1>1, <1>3, <1>5, <1>6, Zenon

\* A record sent while no rekey is armed; the sender's other state may change
\* but not its place among the records.
PlainSend(x, m, r) ==
    /\ m \in Recs /\ m.seal = Seal(x) /\ wire' = [wire EXCEPT ![Peer(x)] = Append(@, m)]
    /\ sealed' = [nonces |-> sealed.nonces \cup {<<x, Seal(x)>>}, repeated |-> sealed.repeated \/ <<x, Seal(x)>> \in sealed.nonces]
    /\ rec' = [rec EXCEPT ![x] = r] /\ r \in RecordStates /\ r.keys = rec[x].keys
    /\ r.send = rec[x].send + 1 /\ r.sendEpoch = Seal(x).epoch
    /\ r.recv = rec[x].recv /\ r.recvEpoch = rec[x].recvEpoch
    /\ r.ratchet = rec[x].ratchet /\ r.pending = FALSE
    /\ conf' = conf /\ slow' = slow /\ \A y \in Sides : Identity(side'[y], side[y])
    /\ rec[x].keys # <<>>

\* Where a plain send puts the record.
LEMMA SendPlaces ==
    ASSUME SecureTyped, NEW x \in Sides, NEW m, NEW r, PlainSend(x, m, r)
    PROVE  /\ Peer(x) \in Sides /\ Peer(x) # x
           /\ rec'[x] = r /\ rec'[Peer(x)] = rec[Peer(x)] /\ rec' \in [Sides -> RecordStates]
           /\ wire'[Peer(x)] = Append(wire[Peer(x)], m) /\ wire'[x] = wire[x]
           /\ wire' \in [Sides -> Seq(Messages)] /\ m \in Messages /\ m.type \in RecTypes
           /\ sealed' \in [nonces : SUBSET (Sides \X Seals), repeated : BOOLEAN]
           /\ \A y \in Sides : y = x \/ y = Peer(x)
<1>1. Peer(x) \in Sides /\ Peer(x) # x /\ \A y \in Sides : y = x \/ y = Peer(x)
  BY DEF Peer, Sides
<1>2. rec'[x] = r /\ rec'[Peer(x)] = rec[Peer(x)] /\ rec' \in [Sides -> RecordStates]
  BY <1>1 DEF PlainSend, SecureTyped
<1>3. m \in Messages /\ m.type \in RecTypes
  BY DEF PlainSend, Messages, Recs
<1>4. Append(wire[Peer(x)], m) \in Seq(Messages)
  BY <1>1, <1>3, SMTT(30) DEF SecureTyped
<1>w. wire' = [wire EXCEPT ![Peer(x)] = Append(wire[Peer(x)], m)] /\ wire \in [Sides -> Seq(Messages)]
  BY Zenon DEF PlainSend, SecureTyped
<1>5. wire'[Peer(x)] = Append(wire[Peer(x)], m) /\ wire'[x] = wire[x] /\ wire' \in [Sides -> Seq(Messages)]
  BY <1>1, <1>4, <1>w, SMTT(30)
<1>6. sealed' \in [nonces : SUBSET (Sides \X Seals), repeated : BOOLEAN]
  <2>1. <<x, Seal(x)>> \in Sides \X Seals
    BY SentPlain, Zenon
  <2>2. sealed.nonces \in SUBSET (Sides \X Seals) /\ sealed.repeated \in BOOLEAN
    BY DEF SecureTyped
  <2>. QED
    BY <2>1, <2>2, SMTT(30) DEF PlainSend
<1>. QED
  BY <1>1, <1>2, <1>3, <1>5, <1>6

\* The nonce is fresh and the keys are as they were.
LEMMA SendKeeps ==
    ASSUME SecureInv, Alive, NEW x \in Sides, NEW m, NEW r, PlainSend(x, m, r)
    PROVE  KeysFollow' /\ Base' = Base /\ Rekeyed' = Rekeyed /\ NoncesBehind'
<1>1. SecureTyped /\ KeysFollow /\ NoncesBehind /\ Standing
  BY DEF SecureInv, LiveInv
<1>2. KeysFollow' /\ Base' = Base /\ Rekeyed' = Rekeyed
  BY <1>1, KeysSame, SMTT(30) DEF PlainSend
<1>3. rec[x].keys \in {Base, Rekeyed}
  BY <1>1 DEF KeysFollow, Standing, Sides, PlainSend
<1>4. \A y \in Sides \ {x} : rec'[y].keys = rec[y].keys /\ rec'[y].send = rec[y].send
  BY <1>1, SendPlaces, Zenon
<1>5. rec'[x].keys = rec[x].keys /\ rec'[x].send = rec[x].send + 1
  BY <1>1, SendPlaces, ZenonT(30) DEF PlainSend
<1>6. sealed' = [nonces |-> sealed.nonces \cup {<<x, Seal(x)>>}, repeated |-> sealed.repeated \/ <<x, Seal(x)>> \in sealed.nonces]
  BY Zenon DEF PlainSend
<1>. QED
  BY <1>1, <1>2, <1>3, <1>4, <1>5, <1>6, NoncesSent

\* What is in flight and decoded still holds if the new record does.
LEMMA SendSays ==
    ASSUME SecureInv, NEW x \in Sides, NEW m, NEW r, PlainSend(x, m, r), Lasting,
           Says(Peer(x), m)',
           \A y \in Sides : \A k \in 1 .. Len(inbox'[y]) :
              \E j \in 1 .. Len(inbox[y]) : inbox'[y][k] = inbox[y][j]
    PROVE  MessagesHold'
<1>1. SecureTyped /\ MessagesHold
  BY DEF SecureInv
<1>2. PICK p \in Sides : p = Peer(x) /\ p # x
  BY <1>1, SendPlaces, SMTT(30)
<1>3. wire'[p] = Append(wire[p], m) /\ wire'[x] = wire[x] /\ wire[p] \in Seq(Messages) /\ m \in Messages
      /\ \A y \in Sides : y = x \/ y = p
  BY <1>1, <1>2, SendPlaces, SMTT(30) DEF SecureTyped
<1>4. ASSUME NEW k \in 1 .. Len(wire'[p])
      PROVE  \/ \E j \in 1 .. Len(wire[p]) : wire'[p][k] = wire[p][j]
             \/ Says(p, wire[p][k])'
  <2>1. Len(wire[p]) \in Nat /\ Len(wire'[p]) = Len(wire[p]) + 1
    BY <1>3
  <2>2. CASE k \in 1 .. Len(wire[p])
    BY <1>3, <2>2
  <2>3. CASE k = Len(wire[p]) + 1
    <3>1. wire'[p][k] = m
      BY <1>3, <2>3
    <3>2. Says(p, m)'
      BY <1>2
    <3>. QED
      BY <3>1, <3>2 DEF Says
  <2>. QED
    BY <2>1, <2>2, <2>3
<1>5. ASSUME NEW y \in Sides, NEW k \in 1 .. Len(wire'[y])
      PROVE  \/ \E j \in 1 .. Len(wire[y]) : wire'[y][k] = wire[y][j]
             \/ wire'[y][k].type \in RecTypes => Says(y, wire[y][k])'
  BY <1>3, <1>4
<1>. QED
  BY <1>1, <1>5, MessagesLast

\* Seal, field by field.
LEMMA SealIs ==
    ASSUME NEW x
    PROVE  Seal(x) = [key |-> rec[x].keys, counter |-> rec[x].send,
                      epoch |-> Rotated(rec[x].ratchet, rec[x].send, rec[x].sendEpoch)]
BY DEF Seal, RotatedKey, Rotated

\* The new record is the one the receiver expects after those in flight.
LEMMA SendLinesUp ==
    ASSUME SecureInv, Alive, ~slow, NEW x \in Sides, NEW m, NEW r, PlainSend(x, m, r),
           ~(rec["client"].keys = Base /\ rec["server"].keys = Rekeyed)
    PROVE  RecordsLineUp'
<1>0. SecureTyped /\ KeysFollow /\ LiveInv /\ Base' = Base /\ Rekeyed' = Rekeyed
  BY SendKeeps DEF SecureInv
<1>1. PICK p \in Sides : p = Peer(x) /\ p # x
  BY <1>0, SendPlaces
<1>2. /\ rec'[x] = r /\ rec'[p] = rec[p] /\ wire'[p] = Append(wire[p], m) /\ wire'[x] = wire[x]
      /\ m \in Messages /\ wire[p] \in Seq(Messages) /\ \A y \in Sides : y = x \/ y = p
  BY <1>0, <1>1, SendPlaces, SMTT(30) DEF SecureTyped
<1>3. /\ r.keys = rec[x].keys /\ r.send = rec[x].send + 1 /\ r.sendEpoch = m.seal.epoch
      /\ r.recv = rec[x].recv /\ r.recvEpoch = rec[x].recvEpoch /\ r.ratchet = rec[x].ratchet
      /\ rec[x].keys # <<>>
  BY SMTT(30) DEF PlainSend
<1>4. m.seal = [key |-> rec[x].keys, counter |-> rec[x].send,
                epoch |-> Rotated(rec[x].ratchet, rec[x].send, rec[x].sendEpoch)]
  BY SealIs DEF PlainSend
<1>5. \A y \in Sides : rec[y] \in RecordStates
  BY <1>0, SMTT(30) DEF SecureTyped
<1>6. rec["client"].keys \in {<<>>, Base, Rekeyed} /\ rec["server"].keys \in {<<>>, Base, Rekeyed}
      /\ (rec["client"].keys # <<>> => rec["server"].keys # <<>>)
      /\ (rec["client"].keys = Rekeyed => rec["server"].keys = Rekeyed)
      /\ (rec["server"].keys = Rekeyed => rec["client"].keys # <<>>)
  BY <1>0, SessionKeysDiffer, SMTT(30) DEF LiveInv, Standing, KeysFollow, Sides
<1>7. CASE rec["client"].keys = <<>>
  <2>1. x = "server" /\ p = "client"
    BY <1>1, <1>3, <1>7 DEF Sides
  <2>2. rec["server"].keys = Base /\ rec["server"].ratchet = FALSE
    <3>1. rec["server"].keys = Base
      BY <1>3, <1>6, <1>7, <2>1, SMTT(30)
    <3>2. ~rec["server"].ratchet /\ rec["server"].ratchet \in BOOLEAN
      BY <1>0, <1>5, <3>1, SessionKeysDiffer, SMTT(30) DEF LiveInv, CarriersFollow, Sides, RecordStates
    <3>. QED
      BY <3>1, <3>2
  <2>3. /\ Chain(wire["client"], 2, Base, FALSE, 0, 0)
        /\ rec["server"].send = Len(wire["client"]) - 1 /\ rec["server"].recv = 0
        /\ rec["server"].sendEpoch = LastEpoch(wire["client"], 2, 0)
    BY <1>0, <1>7, <2>2, SessionKeysDiffer, ZenonT(30) DEF LiveInv, RecordsLineUp
  <2>4. wire["client"] # <<>> /\ Len(wire["client"]) \in Nat \ {0}
    <3>1. wire["client"] # <<>>
      BY <1>0, <1>7, <2>2, SessionKeysDiffer DEF LiveInv, Handshaking, Standing, Sides
    <3>. QED
      BY <1>2, <2>1, <3>1
  <2>5. m.seal = [key |-> Base, counter |-> 0 + (Len(wire["client"]) + 1 - 2),
                  epoch |-> Rotated(FALSE, 0 + (Len(wire["client"]) + 1 - 2),
                                    LastEpoch(wire["client"], 2, 0))]
    <3>1. rec["server"].send = 0 + (Len(wire["client"]) + 1 - 2)
      BY <2>3, <2>4
    <3>. QED
      BY <1>4, <2>1, <2>2, <2>3, <3>1, Zenon
  <2>6. /\ Chain(Append(wire["client"], m), 2, Base, FALSE, 0, 0)
        /\ LastEpoch(Append(wire["client"], m), 2, 0) = m.seal.epoch
    <3>1. wire["client"] \in Seq(Messages) /\ 2 <= Len(wire["client"]) + 1 /\ m \in Messages
          /\ 2 \in {1, 2} /\ FALSE \in BOOLEAN /\ 0 \in Nat
      BY <1>2, <2>1, <2>4
    <3>2. Chain(wire["client"], 2, Base, FALSE, 0, 0)
      BY <2>3, Zenon
    <3>. QED
      BY <2>5, <3>1, <3>2, ChainAppend, ZenonT(30)
  <2>7. Len(Append(wire["client"], m)) = Len(wire["client"]) + 1
    BY <1>2, <2>1
  <2>8. rec'["client"].keys = <<>> /\ rec'["server"].keys = Base /\ rec'["server"].recv = 0
        /\ rec'["server"].send = Len(wire'["client"]) - 1
        /\ rec'["server"].sendEpoch = LastEpoch(wire'["client"], 2, 0)
    <3>1. rec'["server"] = r /\ rec'["client"] = rec["client"] /\ wire'["client"] = Append(wire["client"], m)
      BY <1>2, <2>1
    <3>2. r.keys = Base /\ r.recv = 0 /\ r.sendEpoch = m.seal.epoch /\ r.send = rec["server"].send + 1
      BY <1>3, <2>1, <2>2, <2>3, SMTT(30)
    <3>3. r.send = Len(Append(wire["client"], m)) - 1
      BY <2>3, <2>4, <2>7, <3>2, SMTT(30)
    <3>. QED
      BY <1>7, <2>6, <3>1, <3>2, <3>3
  <2>. QED
    BY <1>0, <1>2, <2>1, <2>6, <2>8, SessionKeysDiffer, Zenon DEF RecordsLineUp
<1>8. CASE rec["client"].keys # <<>>
  <2>1. rec["client"].keys = rec["server"].keys
    BY <1>6, <1>8
  <2>2. InStep(x) /\ InStep(p)
    BY <1>0, <1>8, <2>1 DEF LiveInv, RecordsLineUp
  <2>3. Peer(p) = x
    BY <1>1, SMTT(30) DEF Peer, Sides
  <2>4. /\ Chain(wire[p], 1, rec[p].keys, rec[p].ratchet, rec[p].recv, rec[p].recvEpoch)
        /\ rec[x].send = rec[p].recv + Len(wire[p])
        /\ rec[x].sendEpoch = LastEpoch(wire[p], 1, rec[p].recvEpoch)
    BY <2>2, <2>3 DEF InStep
  <2>5. rec[x].keys = rec[p].keys /\ rec[x].ratchet = rec[p].ratchet
    <3>1. rec[x].keys = rec[p].keys
      BY <1>1, <2>1, SMTT(30) DEF Sides
    <3>2. rec[x].ratchet \in BOOLEAN /\ rec[p].ratchet \in BOOLEAN /\ (rec[x].ratchet <=> rec[p].ratchet)
      BY <1>0, <1>5, <3>1, SMTT(30) DEF LiveInv, CarriersFollow, RecordStates
    <3>. QED
      BY <3>1, <3>2
  <2>6. rec[p].recv \in Nat /\ rec[p].recvEpoch \in Nat /\ rec[p].ratchet \in BOOLEAN /\ Len(wire[p]) \in Nat
    BY <1>2, <1>5, SMTT(30) DEF RecordStates
  <2>7. m.seal = [key |-> rec[p].keys, counter |-> rec[p].recv + (Len(wire[p]) + 1 - 1),
                  epoch |-> Rotated(rec[p].ratchet, rec[p].recv + (Len(wire[p]) + 1 - 1),
                                    LastEpoch(wire[p], 1, rec[p].recvEpoch))]
    <3>1. rec[x].send = rec[p].recv + (Len(wire[p]) + 1 - 1)
      BY <2>4, <2>6
    <3>. QED
      BY <1>4, <2>4, <2>5, <3>1, SMTT(30)
  <2>8. /\ Chain(Append(wire[p], m), 1, rec[p].keys, rec[p].ratchet, rec[p].recv, rec[p].recvEpoch)
        /\ LastEpoch(Append(wire[p], m), 1, rec[p].recvEpoch) = m.seal.epoch
    <3>1. 1 <= Len(wire[p]) + 1 /\ 1 \in {1, 2} /\ m \in Messages /\ wire[p] \in Seq(Messages)
      BY <1>2, <2>6, SMTT(30)
    <3>2. Chain(wire[p], 1, rec[p].keys, rec[p].ratchet, rec[p].recv, rec[p].recvEpoch)
      BY <2>4
    <3>3. PICK w, key, t, n, e : w = wire[p] /\ key = rec[p].keys /\ t = rec[p].ratchet
                                /\ n = rec[p].recv /\ e = rec[p].recvEpoch
      OBVIOUS
    <3>4. /\ w \in Seq(Messages) /\ m \in Messages /\ 1 \in {1, 2} /\ t \in BOOLEAN /\ n \in Nat /\ e \in Nat
          /\ 1 <= Len(w) + 1 /\ Chain(w, 1, key, t, n, e)
      BY <2>6, <3>1, <3>2, <3>3, SMTT(30)
    <3>5. m.seal = [key |-> key, counter |-> n + (Len(w) + 1 - 1),
                    epoch |-> Rotated(t, n + (Len(w) + 1 - 1), LastEpoch(w, 1, e))]
      BY <2>7, <3>3, SMTT(30)
    <3>6. Chain(Append(w, m), 1, key, t, n, e) /\ LastEpoch(Append(w, m), 1, e) = m.seal.epoch
      BY <3>4, <3>5, ChainAppend, SMTT(20)
    <3>. QED
      BY <3>3, <3>6, SMTT(30)
  <2>9. r.send = rec[p].recv + Len(Append(wire[p], m))
    <3>1. Len(Append(wire[p], m)) = Len(wire[p]) + 1
      BY <1>2, SMTT(30)
    <3>. QED
      BY <1>3, <2>4, <2>6, <3>1, SMTT(30)
  <2>10. InStep(p)'
    BY <1>2, <1>3, <2>3, <2>8, <2>9, SMTT(30) DEF InStep
  <2>11. InStep(x)'
    BY <1>1, <1>2, <1>3, <2>2, ZenonT(30) DEF InStep
  <2>12. \A y \in Sides : InStep(y)'
    BY <1>2, <2>10, <2>11, ZenonT(30)
  <2>13. rec'["client"].keys = rec["client"].keys /\ rec'["server"].keys = rec["server"].keys
    BY <1>1, <1>2, <1>3 DEF Sides
  <2>. QED
    BY <1>0, <1>8, <2>1, <2>12, <2>13, SessionKeysDiffer, Zenon DEF RecordsLineUp
<1>. QED
  BY <1>7, <1>8

\* The handshake is over on the sender's side, and the record follows it.
LEMMA SendHandshakes ==
    ASSUME SecureInv, Alive, NEW x \in Sides, NEW m, NEW r, PlainSend(x, m, r),
           side["client"].keys = <<>> => side'["client"].pc = side["client"].pc,
           side'["client"].pc = "confirm" => side["client"].pc = "confirm",
           side'["server"].pc \notin {"start", "response"}
    PROVE  Handshaking'
<1>0. SecureTyped /\ Handshaking /\ Standing
  BY DEF SecureInv, LiveInv
<1>1. PICK p \in Sides : p = Peer(x) /\ p # x
  BY <1>0, SendPlaces, SMTT(30)
<1>2. /\ wire'[p] = Append(wire[p], m) /\ wire'[x] = wire[x] /\ m.type \in RecTypes
      /\ m \in Messages /\ wire[p] \in Seq(Messages) /\ \A y \in Sides : y = x \/ y = p
  BY <1>0, <1>1, SendPlaces, SMTT(30) DEF SecureTyped
<1>3. /\ Identity(side'["client"], side["client"]) /\ Identity(side'["server"], side["server"])
      /\ rec[x].keys # <<>> /\ conf' = conf
  BY SMTT(30) DEF PlainSend, Sides
<1>4. Confirm' = Confirm
  BY <1>3, SMTT(30) DEF Confirm, transcript, Identity
<1>5. CASE side["client"].keys = <<>>
  <2>1. x = "server" /\ p = "client" /\ side["server"].keys # <<>>
    BY <1>0, <1>1, <1>3, <1>5, SMTT(30) DEF Standing, Sides
  <2>2. /\ side["client"].pc = "confirm" /\ wire["client"] # <<>> /\ Head(wire["client"]) = Confirm
        /\ \A k \in 2 .. Len(wire["client"]) : wire["client"][k].type \in RecTypes
        /\ wire["server"] = <<>>
    BY <1>0, <1>5, <2>1, SMTT(30) DEF Handshaking
  <2>3. /\ Append(wire["client"], m) # <<>> /\ Head(Append(wire["client"], m)) = Head(wire["client"])
        /\ \A k \in 2 .. Len(Append(wire["client"], m)) : Append(wire["client"], m)[k].type \in RecTypes
    BY <1>2, <2>1, <2>2, SMTT(30)
  <2>. QED
    BY <1>0, <1>2, <1>3, <1>4, <1>5, <2>1, <2>2, <2>3, SMTT(30) DEF Handshaking, Identity
<1>6. CASE side["client"].keys # <<>>
  <2>1. \A k \in 1 .. Len(wire[p]) : wire[p][k].type \in RecTypes
    BY <1>0, <1>6, SMTT(30) DEF Handshaking
  <2>2. \A k \in 1 .. Len(wire'[p]) : wire'[p][k].type \in RecTypes
    BY <1>2, <2>1, SMTT(30)
  <2>3. \A k \in 1 .. Len(wire'[x]) : wire'[x][k].type \in RecTypes
    BY <1>0, <1>2, <1>6, SMTT(30) DEF Handshaking
  <2>4. \A y \in Sides : \A k \in 1 .. Len(wire'[y]) : wire'[y][k].type \in RecTypes
    BY <1>2, <2>2, <2>3, SMTT(30)
  <2>5. side["client"].pc # "confirm"
    BY <1>0, <1>6 DEF Standing
  <2>. QED
    BY <1>3, <1>6, <2>4, <2>5, SMTT(30) DEF Handshaking, Identity
<1>. QED
  BY <1>5, <1>6

\* A record of these fields is well formed, and what the configurations allow.
LEMMA RecordTyped ==
    ASSUME SecureTyped, NEW x \in Sides, NEW type \in RecTypes, NEW id \in Nat, NEW caps \in SUBSET Caps,
           NEW m, m = [seal |-> Seal(x), type |-> type, id |-> id, caps |-> caps]
    PROVE  m \in Recs /\ m.seal = Seal(x) /\ m.type = type /\ m.caps = caps
<1>1. Seal(x) \in Seals
  BY SentPlain, ZenonT(30)
<1>. QED
  BY <1>1, SMTT(30) DEF Recs

\* What each side offers, requests and requires, by its configuration.
LEMMA OffersTyped ==
    ASSUME SecureTyped
    PROVE  /\ Offer \in SUBSET Caps /\ RequestedSet \in SUBSET Caps
           /\ "fs" \in Offer <=> conf.serverFS
           /\ "fs" \in RequestedSet <=> conf.clientFS
           /\ Required # {} <=> conf.clientFS
           /\ Required \subseteq RequestedSet
           /\ conf.clientFS \in BOOLEAN /\ conf.serverFS \in BOOLEAN
<1>1. /\ conf.offer \in {{}, {"udp", "datagrams"}} /\ conf.request \in {{}, {"udp"}, {"udp", "datagrams"}}
      /\ conf.clientFS \in BOOLEAN /\ conf.serverFS \in BOOLEAN
  BY DEF SecureTyped, Configurations
<1>2. /\ conf.offer \in SUBSET Caps /\ "fs" \notin conf.offer
      /\ conf.request \in SUBSET Caps /\ "fs" \notin conf.request /\ "fs" \in Caps
  BY <1>1 DEF Caps
<1>. QED
  BY <1>1, <1>2 DEF Offer, RequestedSet, Required, Parameters

\* The server offers its capabilities.
LEMMA ServerOffers ==
    ASSUME SecureInv, NegotiateServerExtensions
    PROVE  SecureInv'
<1> USE DEF Sides
<1>0. SecureTyped /\ KeysFollow /\ MessagesHold /\ SelectionHolds /\ NoncesBehind /\ RecordsAlwaysOpen
      /\ Alive /\ LiveInv
  BY DEF SecureInv, NegotiateServerExtensions, Waits
<1>1. side["server"].pc = "offer" /\ UNCHANGED <<conf, inbox, slow>>
  BY DEF NegotiateServerExtensions, Waits
<1>2. PICK m : m = [seal |-> Seal("server"), type |-> "offer", id |-> 1, caps |-> Offer]
  BY Zenon
<1>3. m \in Recs /\ m.seal = Seal("server") /\ m.type = "offer" /\ m.caps = Offer
  <2>1. "offer" \in RecTypes /\ 1 \in Nat /\ Offer \in SUBSET Caps
    BY <1>0, OffersTyped DEF RecTypes
  <2>. QED
    BY <1>0, <1>2, <2>1, RecordTyped
<1>4. side["server"].keys = Base /\ rec["server"].keys = Base /\ ~rec["server"].pending
  BY <1>0, <1>1 DEF LiveInv, Standing, CarriersFollow
<1>5. PICK r : r = Sent("server")
  BY SMTT(30)
<1>6. r \in RecordStates /\ r.keys = rec["server"].keys /\ r.send = rec["server"].send + 1
      /\ r.sendEpoch = Seal("server").epoch /\ r.recv = rec["server"].recv
      /\ r.recvEpoch = rec["server"].recvEpoch /\ r.ratchet = rec["server"].ratchet
      /\ r.pending = FALSE /\ r.paused = rec["server"].paused
  BY <1>0, <1>4, <1>5, SentPlain, Zenon
<1> DEFINE q == [side["server"] EXCEPT !.pc = "accept"]
<1>7. q \in SideRecs /\ q.pc = "accept" /\ Same(q, side["server"]) /\ side' = [side EXCEPT !["server"] = q]
  BY <1>0, ZenonT(30) DEF SecureTyped, SideRecs, Pcs, Same, Identity, NegotiateServerExtensions
<1> HIDE DEF q
<1>8. side'["server"] = q /\ side'["client"] = side["client"] /\ side' \in [Sides -> SideRecs]
  BY <1>0, <1>7 DEF SecureTyped
<1>9. PlainSend("server", m, r)
  <2>1. wire' = [wire EXCEPT ![Peer("server")] = Append(@, m)]
        /\ sealed' = [nonces |-> sealed.nonces \cup {<<"server", Seal("server")>>}, repeated |-> sealed.repeated \/ <<"server", Seal("server")>> \in sealed.nonces]
        /\ rec' = [rec EXCEPT !["server"] = r]
    BY <1>2, <1>5 DEF NegotiateServerExtensions, Send
  <2>2. \A y \in Sides : Identity(side'[y], side[y])
    BY <1>7, <1>8 DEF Same, Identity
  <2>. QED
    BY <1>1, <1>3, <1>4, <1>6, <2>1, <2>2, SessionKeysDiffer, SMTT(30) DEF PlainSend
<1>10. /\ rec'["server"] = r /\ rec'["client"] = rec["client"] /\ rec' \in [Sides -> RecordStates]
       /\ wire'["client"] = Append(wire["client"], m) /\ wire'["server"] = wire["server"]
       /\ wire' \in [Sides -> Seq(Messages)]
       /\ sealed' \in [nonces : SUBSET (Sides \X Seals), repeated : BOOLEAN]
  <2>1. Peer("server") = "client"
    BY DEF Peer
  <2>. QED
    BY <1>0, <1>9, <2>1, SendPlaces
<1>11. KeysFollow' /\ Base' = Base /\ Rekeyed' = Rekeyed /\ NoncesBehind'
  BY <1>0, <1>9, SendKeeps
<1>12. SecureTyped'
  BY <1>0, <1>1, <1>8, <1>10, SMTT(30) DEF SecureTyped
<1>13. Lasting
  BY <1>1, <1>7, <1>8, <1>11, SMTT(30) DEF Lasting, Chosen, Same, Identity
<1>14. MessagesHold'
  <2>1. Says("client", m)'
    <3>1. Offer' = Offer
      BY <1>1, SMTT(30) DEF Offer, Parameters
    <3>. QED
      BY <1>3, <3>1 DEF Says
  <2>2. Peer("server") = "client"
    BY DEF Peer
  <2>. QED
    BY <1>1, <1>9, <1>13, <2>1, <2>2, SendSays, SMTT(30)
<1>15. SelectionHolds'
  BY <1>0, <1>1, <1>7, <1>8, <1>11, SMTT(30) DEF SelectionHolds, Chosen, Same, Identity
<1>16. RecordsAlwaysOpen'
  BY <1>0, <1>1, <1>7, <1>8, SMTT(30) DEF RecordsAlwaysOpen, Same
<1>17. Standing'
  BY <1>0, <1>1, <1>4, <1>6, <1>7, <1>8, <1>10, <1>11, SessionKeysDiffer, SMTT(60)
  DEF LiveInv, Standing, Same, Identity
<1>18. Handshaking'
  BY <1>0, <1>7, <1>8, <1>9, SendHandshakes
<1>19. CarriersFollow'
  <2>1. ~rec["server"].ratchet /\ rec["server"].sendEpoch = 0
    BY <1>0, <1>4, SessionKeysDiffer, SMTT(30) DEF LiveInv, CarriersFollow
  <2>2. r.sendEpoch = 0
    BY <1>0, <1>6, <2>1, SentPlain, SMTT(30) DEF Rotated
  <2>. QED
    BY <1>0, <1>1, <1>4, <1>6, <1>7, <1>8, <1>10, <1>11, <2>1, <2>2, SessionKeysDiffer, SMTT(30)
    DEF LiveInv, CarriersFollow, Same, Identity
<1>20. Boundary'
  BY <1>0, <1>1, <1>4, <1>7, <1>8, <1>10, <1>11, SessionKeysDiffer, SMTT(30) DEF LiveInv, Boundary, Same, Identity
<1>21. ~slow => RecordsLineUp'
  BY <1>0, <1>4, <1>9, SessionKeysDiffer, SendLinesUp
<1>. QED
  BY <1>1, <1>11, <1>12, <1>14, <1>15, <1>16, <1>17, <1>18, <1>19, <1>20, <1>21 DEF SecureInv, LiveInv

-----------------------------------------------------------------------------
(* Dummies.                                                                *)

\* A dummy is never sent while a rekey is under way: the cover transport is
\* paused on both sides.
LEMMA DummyAllowed ==
    ASSUME SecureInv, Alive, NEW x \in Sides, rec[x].keys # <<>>, ~rec[x].paused
    PROVE  /\ ~rec[x].pending
           /\ x = "client" => /\ side["client"].pc # "confirmation"
                              /\ ~(side["client"].pc = "offer" /\ conf.clientFS)
           /\ rec["client"].keys # Rekeyed /\ rec["server"].keys = Rekeyed => slow
<1>0. SelectionHolds /\ Standing /\ CarriersFollow
  BY DEF SecureInv, LiveInv
<1>1. side["server"].pc \in {"ready", "ack"} => rec["server"].paused
  BY <1>0 DEF SelectionHolds, CarriersFollow
<1>2. side["client"].pc = "confirmation" => rec["client"].paused
  BY <1>0 DEF SelectionHolds, CarriersFollow
<1>. QED
  BY <1>0, <1>1, <1>2 DEF Standing, CarriersFollow, Sides

\* The cover transport sends a dummy.
LEMMA DummiesKeep ==
    ASSUME SecureInv, NEW x \in Sides, runDummies(x)
    PROVE  SecureInv'
<1> USE DEF Sides
<1>0. SecureTyped /\ KeysFollow /\ MessagesHold /\ SelectionHolds /\ NoncesBehind /\ RecordsAlwaysOpen
      /\ Alive /\ LiveInv
  BY DEF SecureInv, runDummies
<1>1. rec[x].keys # <<>> /\ ~rec[x].paused /\ UNCHANGED <<conf, side, inbox, slow>>
  BY DEF runDummies
<1>2. PICK m : m = [seal |-> Seal(x), type |-> "dummy", id |-> 0, caps |-> {}]
  BY Zenon
<1>3. m \in Recs /\ m.seal = Seal(x) /\ m.type = "dummy"
  <2>1. "dummy" \in RecTypes /\ 0 \in Nat /\ {} \in SUBSET Caps
    BY DEF RecTypes
  <2>. QED
    BY <1>0, <1>2, <2>1, RecordTyped
<1>4. /\ ~rec[x].pending
      /\ x = "client" => /\ side["client"].pc # "confirmation"
                         /\ ~(side["client"].pc = "offer" /\ conf.clientFS)
      /\ rec["client"].keys # Rekeyed /\ rec["server"].keys = Rekeyed => slow
  BY <1>0, <1>1, DummyAllowed
<1>5. PICK u : u = Sent(x)
  OBVIOUS
<1>a. u \in RecordStates /\ u.keys = rec[x].keys /\ u.send = rec[x].send + 1
      /\ u.sendEpoch = Seal(x).epoch /\ u.recv = rec[x].recv
      /\ u.recvEpoch = rec[x].recvEpoch /\ u.ratchet = rec[x].ratchet
      /\ u.pending = FALSE /\ u.paused = rec[x].paused
  BY <1>0, <1>4, <1>5, SentPlain, Zenon
<1>b. PICK r : r = [u EXCEPT !.dummies = @ + 1]
  BY Zenon
<1>c. r \in RecordStates /\ r.keys = u.keys /\ r.send = u.send /\ r.sendEpoch = u.sendEpoch
      /\ r.recv = u.recv /\ r.recvEpoch = u.recvEpoch /\ r.ratchet = u.ratchet
      /\ r.pending = u.pending /\ r.paused = u.paused
  BY <1>a, <1>b DEF RecordStates
<1>6. r \in RecordStates /\ r.keys = rec[x].keys /\ r.send = rec[x].send + 1
      /\ r.sendEpoch = Seal(x).epoch /\ r.recv = rec[x].recv
      /\ r.recvEpoch = rec[x].recvEpoch /\ r.ratchet = rec[x].ratchet
      /\ r.pending = FALSE /\ r.paused = rec[x].paused
  BY <1>a, <1>c
<1>9. PlainSend(x, m, r)
  <2>1. wire' = [wire EXCEPT ![Peer(x)] = Append(@, m)]
        /\ sealed' = [nonces |-> sealed.nonces \cup {<<x, Seal(x)>>}, repeated |-> sealed.repeated \/ <<x, Seal(x)>> \in sealed.nonces]
        /\ rec' = [rec EXCEPT ![x] = r]
    BY <1>2, <1>5, <1>b DEF runDummies, Send
  <2>2. \A y \in Sides : Identity(side'[y], side[y])
    BY <1>1 DEF Identity
  <2>. QED
    BY <1>1, <1>3, <1>6, <2>1, <2>2 DEF PlainSend
<1>7. PICK p \in Sides : p = Peer(x) /\ p # x
  BY <1>0, <1>9, SendPlaces
<1>10. /\ rec'[x] = r /\ rec'[p] = rec[p] /\ rec' \in [Sides -> RecordStates]
       /\ wire'[p] = Append(wire[p], m) /\ wire'[x] = wire[x]
       /\ wire' \in [Sides -> Seq(Messages)]
       /\ sealed' \in [nonces : SUBSET (Sides \X Seals), repeated : BOOLEAN]
  BY <1>0, <1>7, <1>9, SendPlaces
<1>11. KeysFollow' /\ Base' = Base /\ Rekeyed' = Rekeyed /\ NoncesBehind'
  BY <1>0, <1>9, SendKeeps
<1>12. SecureTyped'
  BY <1>0, <1>1, <1>10 DEF SecureTyped
<1>13. Lasting
  BY <1>1, <1>11 DEF Lasting, Chosen
<1>14. MessagesHold'
  <2>1. Says(Peer(x), m)'
    BY <1>3 DEF Says
  <2>. QED
    BY <1>1, <1>9, <1>13, <2>1, SendSays
<1>15. SelectionHolds'
  BY <1>0, <1>1, <1>11 DEF SelectionHolds, Chosen
<1>16. RecordsAlwaysOpen'
  BY <1>0, <1>1 DEF RecordsAlwaysOpen
<1>d. \A y \in Sides : /\ rec'[y].keys = rec[y].keys /\ rec'[y].ratchet = rec[y].ratchet
                       /\ rec'[y].paused = rec[y].paused /\ rec'[y].recv = rec[y].recv
                       /\ rec'[y].recvEpoch = rec[y].recvEpoch
                       /\ ~rec[y].pending => ~rec'[y].pending
                       /\ rec[y].pending => rec'[y].pending
                       /\ rec[y].keys = <<>> => rec'[y] = rec[y]
                       /\ ~rec[y].ratchet /\ rec[y].sendEpoch = 0 => rec'[y].sendEpoch = 0
  <2>1. ~rec[x].ratchet /\ rec[x].sendEpoch = 0 => r.sendEpoch = 0
    BY <1>0, <1>6, SentPlain DEF Rotated
  <2>. QED
    BY <1>1, <1>4, <1>6, <1>7, <1>10, <2>1
<1>17. Standing'
  BY <1>0, <1>1, <1>11, <1>d DEF LiveInv, Standing
<1>18. Handshaking'
  <2>1. side["server"].pc \notin {"start", "response"}
    BY <1>0, <1>1 DEF LiveInv, Standing, KeysFollow
  <2>. QED
    BY <1>0, <1>1, <1>9, <2>1, SendHandshakes
<1>19. CarriersFollow'
  BY <1>0, <1>1, <1>11, <1>d DEF LiveInv, CarriersFollow
<1>20. Boundary'
  <2>1. wire'["server"] = wire["server"] \/ x = "client"
    BY <1>7, <1>10
  <2>2. ~(side["client"].keys # Rekeyed /\ side["server"].keys = Rekeyed /\ ~slow)
    BY <1>0, <1>4 DEF LiveInv, Standing
  <2>. QED
    BY <1>0, <1>1, <1>4, <1>11, <2>1, <2>2 DEF LiveInv, Boundary
<1>21. ~slow => RecordsLineUp'
  BY <1>0, <1>4, <1>9, SessionKeysDiffer, SendLinesUp
<1>. QED
  BY <1>1, <1>11, <1>12, <1>14, <1>15, <1>16, <1>17, <1>18, <1>19, <1>20, <1>21, SMTT(30) DEF SecureInv, LiveInv
=============================================================================
