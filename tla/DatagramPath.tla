--------------------------- MODULE DatagramPath ---------------------------
(***************************************************************************)
(* One direction of a UDP association, from WriteDatagram on one side to   *)
(* ReadDatagram on the other.  A record takes the fast lane (a sealed      *)
(* datagram of the session's DatagramMux, which the network may lose,      *)
(* repeat or reorder) or, when the fast lane refuses it, the reliable lane *)
(* (the association's stream).  Two windows reject what was already seen:  *)
(* the mux's, per key, and the association's, over both lanes.  A rekey of *)
(* the session resets the mux's counter and window on each side.           *)
(***************************************************************************)
EXTENDS Integers, Sequences

CONSTANTS
    Window,        \* datagramReplayWindow and len(udpAssociationReplay.slots): 1024
    EndpointQueue, \* datagramReceiveQueue
    RecordQueue,   \* udpAssociationReceiveQueue
    MaxSend,       \* bound: records written
    MaxRekeys      \* bound: rekeys of the session

ASSUME PathBounds ==
    /\ Window \in Nat \ {0}
    /\ EndpointQueue \in Nat /\ RecordQueue \in Nat
    /\ MaxSend \in Nat /\ MaxRekeys \in Nat

Ids    == 1 .. MaxSend
NoRecord   == 0       \* nothing read yet
Closed == -1      \* a close record in the queue
Broken == -2      \* an error in the queue

VARIABLES
    writer,    \* the writing side: next record ID, mux key and counter, closed
    network,   \* sealed datagrams ever sent; each may arrive any number of times
    stream,    \* the reliable lane, in order
    reader,    \* the reading side's mux: key, window, endpoint queue
    assoc,     \* the reading side's association: window, record queue, loops
    got,       \* history: how often each record reached ReadDatagram's caller
    wrapped     \* history: the (key, counter) pairs a datagram was sealed under

pathVars == <<writer, network, stream, reader, assoc, got, wrapped>>

EmptyWindow == [highest |-> 0, slots |-> [k \in 0 .. Window - 1 |-> 0]]

PathInit ==
    /\ writer = [id |-> 0, key |-> 0, counter |-> 0, closed |-> FALSE]
    /\ network = {} /\ stream = <<>>
    /\ reader = [key |-> 0, window |-> EmptyWindow, queue |-> <<>>, open |-> TRUE]
    /\ assoc = [window |-> EmptyWindow, records |-> <<>>, reliable |-> "read",
                pending |-> NoRecord, aborted |-> FALSE, failed |-> "no"]
    /\ got = [i \in Ids |-> 0]
    /\ wrapped = {}

---------------------------------------------------------------------------
(* The replay windows: a counter is refused once it is Window behind the   *)
(* highest, or when its slot holds it.                                     *)

TooOld(w, c) == w.highest >= c /\ w.highest - c >= Window
Remembered(w, c)  == w.slots[c % Window] = c

Accepts(w, c) == ~TooOld(w, c) /\ ~Remembered(w, c)

\* Mutant of Accept: a late counter pulls the window's upper end back.
AcceptPullsBack(w, c) == [highest |-> c, slots |-> [w.slots EXCEPT ![c % Window] = c]]

Accept(w, c) == [highest |-> IF c > w.highest THEN c ELSE w.highest,
                 slots |-> [w.slots EXCEPT ![c % Window] = c]]

AcceptsRecord(c) == Accepts(assoc.window, c)
AcceptRecord(c)  == Accept(assoc.window, c)

---------------------------------------------------------------------------
(* WriteDatagram and writeRecord. *)

\* DatagramMux.send: the next counter seals the record under the current key;
\* SendDatagram may fail, and then the counter is spent all the same.
send(ok) ==
    LET c == writer.counter + 1 IN
    /\ writer' = [writer EXCEPT !.id = @ + 1, !.counter = c]
    /\ wrapped' = wrapped \cup {<<writer.key, c, writer.id + 1>>}
    /\ network' = IF ok THEN network \cup {[key |-> writer.key, counter |-> c,
                                            id |-> writer.id + 1]} ELSE network

\* A record small enough for the fast lane goes there; an error of the fast
\* lane, or a larger record, puts the same packet ID on the stream.
writeRecord(fast, ok) ==
    /\ writer.id < MaxSend /\ ~writer.closed
    /\ IF fast THEN send(ok)
               ELSE /\ writer' = [writer EXCEPT !.id = @ + 1]
                    /\ UNCHANGED <<wrapped, network>>
    /\ stream' = IF fast /\ ok THEN stream ELSE Append(stream, [id |-> writer.id + 1, close |-> FALSE])
    /\ UNCHANGED <<reader, assoc, got>>

\* Close: a close record (which takes an ID too), then the end of the stream.
CloseWriter ==
    /\ ~writer.closed
    /\ writer' = [writer EXCEPT !.id = @ + 1, !.closed = TRUE]
    /\ stream' = Append(stream, [id |-> writer.id + 1, close |-> TRUE])
    /\ UNCHANGED <<network, reader, assoc, got, wrapped>>

---------------------------------------------------------------------------
(* DatagramMux.rekey on either side, and its receive loop. *)

\* Key, prefix, counter and window change together, under both locks.
rekeyWriter ==
    /\ writer.key < MaxRekeys
    /\ writer' = [writer EXCEPT !.key = @ + 1, !.counter = 0]
    /\ UNCHANGED <<network, stream, reader, assoc, got, wrapped>>

rekeyReader ==
    /\ reader.key < MaxRekeys
    /\ reader' = [reader EXCEPT !.key = @ + 1, !.window = EmptyWindow]
    /\ UNCHANGED <<writer, network, stream, assoc, got, wrapped>>

\* The endpoint's queue takes a record, or drops it.
Queued(queue, id) == IF reader.open /\ Len(queue) < EndpointQueue THEN Append(queue, id) ELSE queue

\* A datagram of another key fails to open; one the window accepts goes to
\* the endpoint's queue, or is dropped when the endpoint is gone or full.
receiveLoop(d) ==
    /\ d \in network /\ d.key = reader.key
    /\ Accepts(reader.window, d.counter)
    /\ reader' = [reader EXCEPT !.window = Accept(@, d.counter),
                     !.queue = Queued(@, d.id)]
    /\ UNCHANGED <<writer, network, stream, assoc, got, wrapped>>

---------------------------------------------------------------------------
(* The association's two loops feed one bounded queue. *)

\* The fast loop drops what the window refuses and what finds the queue full.
readFastLoop ==
    /\ reader.queue # <<>> /\ reader.open /\ ~assoc.aborted
    /\ LET id == Head(reader.queue) IN
       assoc' = IF ~AcceptsRecord(id) THEN assoc
                ELSE [assoc EXCEPT !.window = AcceptRecord(id),
                         !.records = IF Len(@) < RecordQueue THEN Append(@, id) ELSE @]
    /\ reader' = [reader EXCEPT !.queue = Tail(@)]
    /\ UNCHANGED <<writer, network, stream, got, wrapped>>

\* The reliable loop: a record the window refuses is an error of the
\* association, where the fast loop would have dropped it.
readRecordLocked ==
    /\ assoc.reliable = "read" /\ stream # <<>>
    /\ LET r == Head(stream) IN
       assoc' = IF AcceptsRecord(r.id)
                THEN [assoc EXCEPT !.window = AcceptRecord(r.id), !.reliable = "put",
                                   !.pending = IF r.close THEN Closed ELSE r.id]
                ELSE [assoc EXCEPT !.pending = Broken, !.reliable = "put",
                                   !.failed = IF TooOld(assoc.window, r.id) THEN "stale" ELSE "seen"]
    /\ stream' = Tail(stream)
    /\ UNCHANGED <<writer, network, reader, got, wrapped>>

\* It waits for room in the queue, and ends after an error or a close.
readReliableLoop ==
    /\ assoc.reliable = "put"
    /\ \/ /\ Len(assoc.records) < RecordQueue
          /\ assoc' = [assoc EXCEPT !.records = Append(@, assoc.pending), !.pending = NoRecord,
                          !.reliable = IF assoc.pending \in {Closed, Broken} THEN "done"
                                                                               ELSE "read"]
       \/ assoc.aborted /\ assoc' = [assoc EXCEPT !.pending = NoRecord, !.reliable = "done"]
    /\ UNCHANGED <<writer, network, stream, reader, got, wrapped>>

---------------------------------------------------------------------------
\* DatagramEndpoint.Close: the endpoint leaves the mux's table.
CloseEndpoint == reader' = [reader EXCEPT !.open = FALSE, !.queue = <<>>]

\* ReadDatagram returns the next record; the relay that called it aborts the
\* association on a close or an error.
ReadDatagram ==
    /\ assoc.records # <<>>
    /\ LET r == Head(assoc.records) IN
       IF r \in Ids
       THEN /\ got' = [got EXCEPT ![r] = @ + 1]
            /\ assoc' = [assoc EXCEPT !.records = Tail(@)]
            /\ UNCHANGED reader
       ELSE /\ assoc' = [assoc EXCEPT !.records = Tail(@), !.aborted = TRUE]
            /\ CloseEndpoint
            /\ UNCHANGED got
    /\ UNCHANGED <<writer, network, stream, wrapped>>

\* The relay ends for a reason of its own: Abort cancels, closes the endpoint
\* and the stream.
AbortAssociation ==
    /\ ~assoc.aborted
    /\ assoc' = [assoc EXCEPT !.aborted = TRUE]
    /\ CloseEndpoint
    /\ UNCHANGED <<writer, network, stream, got, wrapped>>

PathNext ==
    \/ \E fast, ok \in BOOLEAN : writeRecord(fast, ok)
    \/ CloseWriter \/ rekeyWriter \/ rekeyReader
    \/ \E d \in network : receiveLoop(d)
    \/ readFastLoop \/ readRecordLocked \/ readReliableLoop
    \/ ReadDatagram \/ AbortAssociation

PathSpec == PathInit /\ [][PathNext]_pathVars

---------------------------------------------------------------------------
\* Whatever the network repeats and whenever either side rekeys, a record
\* reaches the relay at most once (DatagramMux and UDPAssociation replay), and
\* no (key, counter) pair ever seals two records (DatagramMux.send, rekey).
DeliveredOnce ==
    /\ \A i \in Ids : got[i] <= 1
    /\ \A a, b \in wrapped : a[1] = b[1] /\ a[2] = b[2] => a = b

\* The reliable lane never loses the association to a record that was already
\* delivered: readRecordLocked refuses a record only when Window newer ones
\* have overtaken it on the fast lane.
FailsOnlyWhenOvertaken ==
    /\ assoc.failed # "seen"
    /\ assoc.failed = "stale" => assoc.window.highest > Window

\* Both lanes together deliver a record once and lose the association to none
\* they delivered.
DatagramsAreSound == DeliveredOnce /\ FailsOnlyWhenOvertaken
=============================================================================
