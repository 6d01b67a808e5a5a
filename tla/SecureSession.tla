--------------------------- MODULE SecureSession ---------------------------
(***************************************************************************)
(* How a client and a server turn a carrier into an authenticated session: *)
(* the challenge, response and confirm of ConnectClient and AcceptServer,  *)
(* the negotiation of extensions over the encrypted carrier, and the       *)
(* forward-secret rekey, whose record boundary both sides must cross at    *)
(* the same record while each side's mux goes on reading and its cover     *)
(* transport may send dummies.  Keys, tags and transcripts are symbolic:   *)
(* equal terms are equal bytes.  The carrier is reliable and in order.     *)
(***************************************************************************)
EXTENDS Integers, Sequences, FiniteSets

CONSTANTS
    Secrets,        \* root secrets that exist
    Credentials,    \* the server's credential tables, from an ID to a secret
    EpochInterval,  \* recordKeyEpochInterval
    MaxDummies      \* bound: dummies each side's cover transport sends

\* recordKeyEpochInterval is a positive constant.
ASSUME SecureBounds == EpochInterval \in Nat \ {0} /\ MaxDummies \in Nat

Sides == {"client", "server"}
Peer(x) == IF x = "client" THEN "server" ELSE "client"
Caps  == {"udp", "datagrams", "fs"}
NoSet == "none"

VARIABLES
    conf,     \* both configurations, fixed at the start
    side,     \* per side: where its negotiation stands and what it concluded
    rec,      \* per side: the encryptedCarrier
    wire,     \* per receiving side: what the carrier still has to deliver
    inbox,    \* per side: extension messages its mux has decoded
    sealed,   \* history: the nonces used, and whether one was used twice
    slow      \* history: the server gave up waiting after it had switched keys

secureVars == <<conf, side, rec, wire, inbox, sealed, slow>>

NewRecords == [keys |-> <<>>, send |-> 0, recv |-> 0, sendEpoch |-> 0, recvEpoch |-> 0,
               ratchet |-> FALSE, pending |-> FALSE, dummies |-> 0, paused |-> FALSE]

NewSide == [pc |-> "start", keys |-> <<>>, features |-> {}, device |-> NoSet,
            credential |-> NoSet, done |-> FALSE, negotiated |-> FALSE,
            selected |-> {}, offer |-> {}, broken |-> FALSE]

\* prepareForwardSecrecy: enabling it needs extension parameters, adds the
\* capability to them and, on the client, to what is required.
Parameters(fs, caps) == caps \cup (IF fs THEN {"fs"} ELSE {})

Configurations ==
    {c \in [secret : Secrets, credentials : Credentials,
            clientFeatures : {{"aead"}, {"aead", "device"}},
            serverFeatures : {{"device"}, {"aead"}, {"aead", "device"}},
            request : {{}, {"udp"}, {"udp", "datagrams"}}, clientFS : BOOLEAN,
            offer : {{}, {"udp", "datagrams"}}, serverFS : BOOLEAN, extensions : SUBSET Sides] :
        (c.clientFS => "client" \in c.extensions) /\ (c.serverFS => "server" \in c.extensions)}

SecureInit ==
    /\ conf \in Configurations
    /\ side = [x \in Sides |-> NewSide] /\ rec = [x \in Sides |-> NewRecords]
    /\ wire = [x \in Sides |-> <<>>] /\ inbox = [x \in Sides |-> <<>>]
    /\ sealed = [nonces |-> {}, repeated |-> FALSE] /\ slow = FALSE

\* A side that gives up closes the carrier on both ends.
Alive == \A x \in Sides : side[x].pc # "failed"


---------------------------------------------------------------------------
(* encryptedCarrier. *)

\* The epoch's key is derived anew after every EpochInterval records.
RotatedKey(r, count, epoch) ==
    IF r.ratchet /\ count > 0 /\ count % EpochInterval = 0 THEN epoch + 1 ELSE epoch

\* applyRekeyLocked: both directions restart, and ratcheting begins.
applyRekey(r, keys) ==
    [r EXCEPT !.keys = keys, !.send = 0, !.recv = 0, !.sendEpoch = 0, !.recvEpoch = 0,
              !.ratchet = TRUE, !.pending = FALSE]

ForwardSecret(keys) == Append(keys, "fs")

\* The client rekeys at once, the server arms the rekey for its next record.
rekey(r) == applyRekey(r, ForwardSecret(r.keys))

\* Mutant of rekeyAfterNextSend: the server switches before its confirmation.
rekeyBeforeNextSend(r) == rekey(r)

rekeyAfterNextSend(r) == [r EXCEPT !.pending = TRUE]

\* Send: seal under the current key, then switch if a rekey is armed.
Seal(x) == LET r == rec[x] IN
    [key |-> r.keys, epoch |-> RotatedKey(r, r.send, r.sendEpoch), counter |-> r.send]

Sent(x) == LET r == [rec[x] EXCEPT !.sendEpoch = Seal(x).epoch, !.send = @ + 1] IN
    IF r.pending THEN rekey(r) ELSE r

Send(x, type, id, caps) ==
    /\ wire' = [wire EXCEPT ![Peer(x)] =
                  Append(@, [seal |-> Seal(x), type |-> type, id |-> id, caps |-> caps])]
    /\ sealed' = [nonces |-> sealed.nonces \cup {<<x, Seal(x)>>}, repeated |-> sealed.repeated \/ <<x, Seal(x)>> \in sealed.nonces]

\* Receive, called by the mux's read loop: the next record must open under the
\* current receive key, epoch and counter, or the carrier is closed.
Receive(x) ==
    /\ Alive /\ rec[x].keys # <<>> /\ wire[x] # <<>>
    /\ LET r == rec[x]  m == Head(wire[x])
           epoch == RotatedKey(r, r.recv, r.recvEpoch)
           opens == m.seal = [key |-> r.keys, epoch |-> epoch, counter |-> r.recv] IN
       /\ rec' = [rec EXCEPT ![x].recv = @ + 1, ![x].recvEpoch = epoch]
       /\ side' = IF opens THEN side
                  ELSE [side EXCEPT ![x].pc = "failed", ![x].broken = TRUE]
       /\ inbox' = IF opens /\ m.type # "dummy" THEN [inbox EXCEPT ![x] = Append(@, m)]
                                               ELSE inbox
       /\ wire' = [wire EXCEPT ![x] = Tail(@)]
    /\ UNCHANGED <<conf, sealed, slow>>

\* The cover transport's runDummies, unless PauseDummies holds it back.
runDummies(x) ==
    /\ Alive /\ rec[x].keys # <<>> /\ ~rec[x].paused /\ rec[x].dummies < MaxDummies
    /\ Send(x, "dummy", 0, {})
    /\ rec' = [rec EXCEPT ![x] = [Sent(x) EXCEPT !.dummies = @ + 1]]
    /\ UNCHANGED <<conf, side, inbox, slow>>

---------------------------------------------------------------------------
(* The handshake: raw messages on the carrier. *)

RawSend(x, type, caps, proof) ==
    wire' = [wire EXCEPT ![Peer(x)] =
               Append(@, [type |-> type, caps |-> caps, proof |-> proof])]
Raw(x, type) == Alive /\ rec[x].keys = <<>> /\ wire[x] # <<>> /\ Head(wire[x]).type = type
Took(x)      == [wire EXCEPT ![x] = Tail(@)]

transcript(requested, device) == <<conf.serverFeatures, requested, device>>
Tag(label, secret, t)  == <<label, secret, t>>

\* startAuthenticated: cell encryption is required; with forward secrecy
\* enabled the dummies wait for the end of the negotiation.
Started(x, keys, features, device, credential) ==
    /\ side' = [side EXCEPT ![x] =
          IF "aead" \in features
          THEN [@ EXCEPT !.pc = IF x \in conf.extensions THEN "offer" ELSE "up",
                         !.done = x \notin conf.extensions, !.keys = keys,
                         !.features = features, !.device = device, !.credential = credential]
          ELSE [@ EXCEPT !.pc = "failed"]]
    /\ rec' = [rec EXCEPT ![x].keys = keys,
                  ![x].paused = IF x = "client" THEN conf.clientFS ELSE conf.serverFS]

NewServerHandshake ==
    /\ side["server"].pc = "start"
    /\ side' = [side EXCEPT !["server"].pc = "response"]
    /\ RawSend("server", "challenge", conf.serverFeatures, <<>>)
    /\ UNCHANGED <<conf, rec, inbox, sealed, slow>>

\* A device identity the server does not support is left out of the request;
\* any other unsupported feature ends the attempt.
RespondToChallenge ==
    LET offered == Head(wire["client"]).caps
        wanted == conf.clientFeatures \ ({"device"} \ offered)
        device == IF "device" \in wanted THEN "device" ELSE NoSet IN
    /\ side["client"].pc = "start" /\ Raw("client", "challenge")
    /\ IF wanted \subseteq offered
       THEN /\ side' = [side EXCEPT !["client"].pc = "confirm",
                            !["client"].features = wanted, !["client"].device = device]
            /\ wire' = [wire EXCEPT !["client"] = Tail(@),
                  !["server"] = Append(@, [type |-> "response", caps |-> wanted,
                      proof |-> Tag("response", conf.secret, transcript(wanted, device))])]
       ELSE side' = [side EXCEPT !["client"].pc = "failed"] /\ wire' = Took("client")
    /\ UNCHANGED <<conf, rec, inbox, sealed, slow>>

\* Exactly one credential must have produced the tag; the challenge may have
\* expired meanwhile.  The confirm leaves before encryption starts.
VerifyResponse(expired) ==
    LET m == Head(wire["server"])
        device == IF "device" \in m.caps THEN "device" ELSE NoSet
        t == transcript(m.caps, device)
        matches == {i \in {"a", "b"} : /\ conf.credentials[i] # NoSet
                                       /\ m.proof = Tag("response", conf.credentials[i], t)} IN
    /\ side["server"].pc = "response" /\ Raw("server", "response")
    /\ IF expired \/ ~(m.caps \subseteq conf.serverFeatures) \/ Cardinality(matches) # 1
       THEN side' = [side EXCEPT !["server"].pc = "failed"] /\ wire' = Took("server")
            /\ UNCHANGED rec
       ELSE \E i \in matches :
              LET secret == conf.credentials[i] IN
              /\ Started("server", <<secret, t>>, m.caps, device, i)
              /\ wire' = [Took("server") EXCEPT !["client"] =
                    Append(@, [type |-> "confirm", caps |-> {}, proof |-> Tag("confirm", secret, t)])]
    /\ UNCHANGED <<conf, inbox, sealed, slow>>

VerifyConfirm ==
    LET c == side["client"]  t == transcript(c.features, c.device) IN
    /\ c.pc = "confirm" /\ Raw("client", "confirm")
    /\ IF Head(wire["client"]).proof = Tag("confirm", conf.secret, t)
       THEN Started("client", <<conf.secret, t>>, c.features, c.device, NoSet)
       ELSE side' = [side EXCEPT !["client"].pc = "failed"] /\ UNCHANGED rec
    /\ wire' = Took("client")
    /\ UNCHANGED <<conf, inbox, sealed, slow>>

---------------------------------------------------------------------------
(* Extensions. *)

Offer    == Parameters(conf.serverFS, conf.offer)
RequestedSet  == Parameters(conf.clientFS, conf.request)
Required == Parameters(conf.clientFS, {})
Waits(x, pc) == Alive /\ side[x].pc = pc
Message(x, type, id) == /\ inbox[x] # <<>>
                        /\ Head(inbox[x]).type = type /\ Head(inbox[x]).id = id

\* extensions.complete, and the deferred ResumeDummies.
Completed(x, r, ok, caps) ==
    /\ side' = [side EXCEPT ![x].pc = "up", ![x].done = TRUE, ![x].negotiated = ok,
                            ![x].selected = caps]
    /\ rec' = [rec EXCEPT ![x] = [r EXCEPT !.paused = FALSE]]

NegotiateServerExtensions ==
    /\ Waits("server", "offer")
    /\ Send("server", "offer", 1, Offer)
    /\ side' = [side EXCEPT !["server"].pc = "accept"]
    /\ rec' = [rec EXCEPT !["server"] = Sent("server")]
    /\ UNCHANGED <<conf, inbox, slow>>

\* selectExtensionParameters: the common capabilities, datagrams only with UDP.
selectExtensionParameters(offer) ==
    LET both == offer \cap RequestedSet IN
    IF "udp" \in both THEN both ELSE both \ {"datagrams"}

negotiateClientExtensions ==
    /\ Waits("client", "offer") /\ Message("client", "offer", 1)
    /\ LET caps == selectExtensionParameters(Head(inbox["client"]).caps) IN
       IF Required \subseteq caps
       THEN /\ Send("client", "accept", 2, caps)
            /\ IF "fs" \in caps
               THEN /\ side' = [side EXCEPT !["client"].pc = "confirmation",
                                            !["client"].selected = caps]
                    /\ rec' = [rec EXCEPT !["client"] = Sent("client")]
               ELSE Completed("client", Sent("client"), TRUE, caps)
       ELSE /\ side' = [side EXCEPT !["client"].pc = "failed"]
            /\ UNCHANGED <<rec, wire, sealed>>
    /\ inbox' = [inbox EXCEPT !["client"] = Tail(@)]
    /\ UNCHANGED <<conf, slow>>

\* ValidateExtensionAccept; with forward secrecy the rekey is armed first.
AcceptReceived ==
    /\ Waits("server", "accept") /\ Message("server", "accept", 2)
    /\ LET caps == Head(inbox["server"]).caps IN
       IF "fs" \in caps
       THEN /\ side' = [side EXCEPT !["server"].pc = "ready", !["server"].selected = caps]
            /\ rec' = [rec EXCEPT !["server"] = rekeyAfterNextSend(@)]
       ELSE Completed("server", rec["server"], TRUE, caps)
    /\ inbox' = [inbox EXCEPT !["server"] = Tail(@)]
    /\ UNCHANGED <<conf, wire, sealed, slow>>

\* The confirmation is the last record of the old keys.
applyServerForwardSecrecy ==
    /\ Waits("server", "ready")
    /\ Send("server", "ready", 3, {})
    /\ side' = [side EXCEPT !["server"].pc = "ack", !["server"].keys = ForwardSecret(@)]
    /\ rec' = [rec EXCEPT !["server"] = Sent("server")]
    /\ UNCHANGED <<conf, inbox, slow>>

\* The client checks the confirmation and rekeys; the acknowledgement is the
\* first record under the new keys.
applyClientForwardSecrecy ==
    /\ Waits("client", "confirmation") /\ Message("client", "ready", 3)
    /\ side' = [side EXCEPT !["client"].pc = "acknowledge", !["client"].keys = ForwardSecret(@)]
    /\ rec' = [rec EXCEPT !["client"] = rekey(@)]
    /\ inbox' = [inbox EXCEPT !["client"] = Tail(@)]
    /\ UNCHANGED <<conf, wire, sealed, slow>>

Acknowledge ==
    /\ Waits("client", "acknowledge")
    /\ Send("client", "ack", 4, {})
    /\ Completed("client", Sent("client"), TRUE, side["client"].selected)
    /\ UNCHANGED <<conf, inbox, slow>>

AckReceived ==
    /\ Waits("server", "ack") /\ Message("server", "ack", 4)
    /\ Completed("server", rec["server"], TRUE, side["server"].selected)
    /\ inbox' = [inbox EXCEPT !["server"] = Tail(@)]
    /\ UNCHANGED <<conf, wire, sealed, slow>>

\* ExtensionTimeout while waiting: without required extensions, and on the
\* server always, the session goes on as one without extensions.
ExtensionTimeout(x) ==
    /\ Waits(x, side[x].pc) /\ side[x].pc \in {"offer", "confirmation", "accept", "ack"}
    /\ x = "server" => side[x].pc # "offer"
    /\ IF x = "client" /\ Required # {}
       THEN side' = [side EXCEPT ![x].pc = "failed"] /\ UNCHANGED rec
       ELSE Completed(x, rec[x], FALSE, {})
    /\ slow' = (slow \/ side[x].pc = "ack")
    /\ UNCHANGED <<conf, wire, inbox, sealed>>

---------------------------------------------------------------------------
ConnectClient == RespondToChallenge \/ VerifyConfirm

AcceptServer == NewServerHandshake \/ \E expired \in BOOLEAN : VerifyResponse(expired)

startClientExtensionNegotiation ==
    \/ negotiateClientExtensions \/ applyClientForwardSecrecy \/ Acknowledge
    \/ ExtensionTimeout("client")

startServerExtensionNegotiation ==
    \/ NegotiateServerExtensions \/ AcceptReceived
    \/ applyServerForwardSecrecy \/ AckReceived
    \/ ExtensionTimeout("server")

SecureNext ==
    \/ ConnectClient \/ AcceptServer
    \/ startClientExtensionNegotiation \/ startServerExtensionNegotiation
    \/ \E x \in Sides : Receive(x) \/ runDummies(x)

SecureSpec == SecureInit /\ [][SecureNext]_secureVars

---------------------------------------------------------------------------
\* No record of an honest peer fails to open: both sides cross the boundary of
\* rekeyAfterNextSend at the same record and ratchet in step.  The exception is
\* a server that stops waiting for the acknowledgement after it has switched:
\* its next record may overtake the client's rekey.
RecordsAlwaysOpen == (\E x \in Sides : side[x].broken) => slow

\* When both sides have a session they agree on keys and features, the
\* server's credential is the client's secret, and forward secrecy was not
\* dropped by one of them; what the server negotiated is what the client did.
PeersAgree ==
    LET c == side["client"]  s == side["server"] IN
    /\ c.keys # <<>> /\ s.keys # <<>> =>
         /\ c.keys[1] = s.keys[1] /\ c.keys[2] = s.keys[2]
         /\ c.features = s.features /\ c.device = s.device
         /\ conf.credentials[s.credential] = conf.secret
    /\ c.done /\ conf.clientFS => c.keys = s.keys /\ "fs" \in c.selected
    /\ c.done /\ s.done /\ s.negotiated => c.negotiated /\ c.selected = s.selected

\* No key, epoch and counter of one direction ever seal two records, across
\* the rekey and every epoch (recordNonce would repeat a nonce).
NoncesAreFresh ==
    ~sealed.repeated

\* An honest pair agrees on what it negotiated and loses no record to it.
SessionIsSound == RecordsAlwaysOpen /\ PeersAgree /\ NoncesAreFresh
=============================================================================
