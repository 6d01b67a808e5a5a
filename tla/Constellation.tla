--------------------------- MODULE Constellation ---------------------------
(***************************************************************************)
(* Admission of carriers to constellations.  The server side is the Hub    *)
(* (constellation/hub.go) with its TicketRegistry (continuity/ticket.go),  *)
(* one Controller per constellation (constellation/controller.go) and one  *)
(* handler per authenticated session (control.go Admit, app/server.go).    *)
(* The client side is ClientControl and the pool manager of the desktop    *)
(* client (control.go, app/client_constellation.go).                       *)
(*                                                                         *)
(* A session is one authenticated carrier; it names its lease (LeaseID,    *)
(* LeaseKey) as well.  A ticket is its number with the record the registry *)
(* keeps for it.  One client runs at a time, so every principal is equal.  *)
(***************************************************************************)
EXTENDS Integers, SequencesExt

CONSTANTS
    MaxSessions,        \* bound: carriers the client connects
    MaxTime,            \* bound: the clock
    MaxConstellations, MaxLeases, MaxTickets,
    TTL,                \* TicketConfig.TTL
    InactiveTTL,        \* HubConfig.InactiveTTL
    Target              \* MaxParallelCarriers

ASSUME HubAssumption ==
    /\ {MaxSessions, MaxConstellations, MaxLeases, MaxTickets, TTL, InactiveTTL, Target}
         \subseteq Nat \ {0}
    /\ MaxTime \in Nat
    /\ InactiveTTL >= TTL

Sessions == 1 .. MaxSessions
None == 0

VARIABLES
    now,      \* the clock Hub and TicketRegistry read
    closed,   \* Hub.closed
    tickets,  \* TicketRegistry.tickets
    issued,   \* how many tickets were generated
    records,  \* records[c]: h.records of constellation c
    ctrl,     \* ctrl[c]: its Controller
    h,        \* h[i]: the server's handler of session i and its Attachment
    alive,    \* the sessions whose server Mux lives
    response, \* response[i]: the ticket on its way to the client
    client    \* the client's ClientControl and pool

server == <<closed, tickets, issued, records, ctrl>>
vars == <<now, server, h, alive, response, client>>

NoTicket == [n |-> 0, con |-> None, expires |-> 0]
NoHandler == [pc |-> "none", kind |-> "none", con |-> None, current |-> NoTicket,
              next |-> NoTicket, committed |-> FALSE]
NoController == [order |-> <<>>, primary |-> None, closed |-> FALSE]

\* Constellation c is the c-th the client created.
Constellations == Sessions

Init ==
    /\ now = 0 /\ closed = FALSE
    /\ tickets = {} /\ issued = 0
    /\ records = [c \in Constellations |-> [present |-> FALSE, lastSeen |-> 0]]
    /\ ctrl = [c \in Constellations |-> NoController]
    /\ h = [i \in Sessions |-> NoHandler]
    /\ alive = {}
    /\ response = [i \in Sessions |-> NoTicket]
    /\ client = [con |-> None, ticket |-> NoTicket, waits |-> None, pool |-> {},
                 connects |-> 0, creates |-> 0, took |-> {}]
-----------------------------------------------------------------------------
\* Controller: every lease is active, since the Hub only adds and fails them.

Leases(c) == ToSet(ctrl[c].order)

\* Add and addLocked.
Added(k, i) ==
    [k EXCEPT !.order = Append(@, i), !.primary = IF @ = None THEN i ELSE @]

\* removeAndClose; the next primary is the oldest lease left.
Failed(k, i) ==
    LET rest == Remove(k.order, i)
    IN  [k EXCEPT !.order = rest,
                  !.primary = IF @ # i THEN @ ELSE IF rest = <<>> THEN None ELSE Head(rest)]

Stopped == [order |-> <<>>, primary |-> None, closed |-> TRUE]
-----------------------------------------------------------------------------
\* TicketRegistry.

Current(set) == {t \in set : now < t.expires}
NewTicket(c) == [n |-> issued + 1, con |-> c, expires |-> now + TTL]

Rotated(set, t, next) == (set \ {t}) \cup {next}

\* RollbackRotate: only while the successor is unused and the ticket unexpired.
RolledBack(set, t, next) ==
    IF next \in set /\ t \notin set /\ now < t.expires THEN (set \ {next}) \cup {t} ELSE set
-----------------------------------------------------------------------------
\* The client.

\* The handler of a new session, with the request the client sent on it.
Request(kind, c, t) ==
    [NoHandler EXCEPT !.pc = "receive", !.kind = kind, !.con = c, !.current = t]

\* Desktop start-up: a session is authenticated and CREATE sent on it.
CreateBegin ==
    LET i == client.connects + 1 IN
    /\ client.con = None /\ client.waits = None /\ i \in Sessions
    /\ client' = [client EXCEPT !.connects = i, !.waits = i, !.creates = @ + 1]
    /\ alive' = alive \cup {i}
    /\ h' = [h EXCEPT ![i] = Request("create", client.creates + 1, NoTicket)]
    /\ UNCHANGED <<now, server, response>>

\* maintainPool's addRoute: connect and send ATTACH with the current ticket.
AttachBegin ==
    LET i == client.connects + 1 IN
    /\ client.con # None /\ client.waits = None /\ i \in Sessions
    /\ Cardinality(client.pool) < Target
    /\ client' = [client EXCEPT !.connects = i, !.waits = i]
    /\ alive' = alive \cup {i}
    /\ h' = [h EXCEPT ![i] = Request("attach", client.con, client.ticket)]
    /\ UNCHANGED <<now, server, response>>

\* LEASE_ISSUE or LEASE_ACCEPT: the ticket is replaced, the route added.
TakeResponse ==
    LET i == client.waits IN
    /\ i # None /\ response[i] # NoTicket
    /\ client' = [client EXCEPT !.con = h[i].con, !.ticket = response[i],
                                !.waits = None, !.pool = @ \cup {i}, !.took = @ \cup {i}]
    /\ response' = [response EXCEPT ![i] = NoTicket]
    /\ UNCHANGED <<now, server, h, alive>>

\* The exchange fails, on a lost carrier or after the control timeout; the
\* client closes the session and keeps its ticket.
ExchangeFails ==
    LET i == client.waits IN
    /\ i # None
    /\ client' = [client EXCEPT !.waits = None]
    /\ response' = [response EXCEPT ![i] = NoTicket]
    /\ UNCHANGED <<now, server, h, alive>>

\* A route's carrier is lost at the client, or rotateExpired closes it, and it
\* leaves the pool (watchRoute).
RouteEnds(i) ==
    /\ i \in client.pool
    /\ client' = [client EXCEPT !.pool = @ \ {i}]
    /\ UNCHANGED <<now, server, h, alive, response>>

\* The pool stayed empty for the migration window: the runtime ends.
Terminate ==
    /\ client.con # None /\ client.pool = {} /\ client.waits = None
    /\ client' = [client EXCEPT !.con = None, !.ticket = NoTicket]
    /\ UNCHANGED <<now, server, h, alive, response>>

\* The server loses an admitted session; a loss before is a failed step of Admit.
MuxLost(i) ==
    /\ i \in alive /\ h[i].pc = "admitted"
    /\ alive' = alive \ {i}
    /\ UNCHANGED <<now, server, h, response, client>>

Tick ==
    /\ now < MaxTime
    /\ now' = now + 1
    /\ UNCHANGED <<server, h, alive, response, client>>
-----------------------------------------------------------------------------
\* The server's handler of session i.

\* The handler has returned; what remains of it is whether it committed.
Returned(x) == [NoHandler EXCEPT !.pc = "done", !.con = x.con, !.committed = x.committed]

\* Admit returns an error: the handler closes the Mux.
Refuse(i) ==
    /\ h' = [h EXCEPT ![i] = Returned(@)]
    /\ alive' = alive \ {i}

\* The session ends, or the control timeout passes, before a request came.
ReceiveFails(i) ==
    /\ h[i].pc = "receive"
    /\ Refuse(i)
    /\ UNCHANGED <<now, server, response, client>>

\* Mutation: a constellation with live leases may be dropped.
StaleAnyLease(c) == records[c].present /\ now - records[c].lastSeen >= InactiveTTL

\* What cleanup drops: nothing attached for InactiveTTL.
Stale(c) ==
    /\ records[c].present /\ Leases(c) = {}
    /\ now - records[c].lastSeen >= InactiveTTL

\* The request is received; cleanup runs under a lock of its own.
Cleanup(i) ==
    /\ h[i].pc = "receive"
    /\ IF closed THEN UNCHANGED <<records, ctrl>>
       ELSE /\ records' = [c \in Constellations |->
                             [records[c] EXCEPT !.present = @ /\ ~Stale(c)]]
            /\ ctrl' = [c \in Constellations |-> IF Stale(c) THEN Stopped ELSE ctrl[c]]
    /\ h' = [h EXCEPT ![i].pc = "admit"]
    /\ UNCHANGED <<now, closed, tickets, issued, alive, response, client>>

Present == {c \in Constellations : records[c].present}

\* create: a controller with this session as primary, and a first ticket.
Create(i) ==
    LET c == h[i].con
        t == NewTicket(c)
        live == Current(tickets)
        fits == ~closed /\ Cardinality(Present) < MaxConstellations
    IN  /\ h[i].pc = "admit" /\ h[i].kind = "create"
        /\ \/ /\ fits /\ Cardinality(live) < MaxTickets
              /\ tickets' = live \cup {t}
              /\ issued' = issued + 1
              /\ records' = [records EXCEPT ![c] = [present |-> TRUE, lastSeen |-> now]]
              /\ ctrl' = [ctrl EXCEPT ![c] = Added(NoController, i)]
              /\ h' = [h EXCEPT ![i].pc = "send", ![i].next = t]
              /\ UNCHANGED alive
           \/ /\ fits /\ Cardinality(live) >= MaxTickets
              /\ tickets' = live
              /\ Refuse(i)
              /\ UNCHANGED <<issued, records, ctrl>>
           \/ /\ ~fits
              /\ Refuse(i)
              /\ UNCHANGED <<tickets, issued, records, ctrl>>
        /\ UNCHANGED <<now, closed, response, client>>

\* attach: the lease is added, then the ticket rotated; a refused ticket fails
\* the lease again.
Attach(i) ==
    LET c == h[i].con
        t == NewTicket(c)
        live == Current(tickets)
        fits == ~closed /\ records[c].present /\ Len(ctrl[c].order) < MaxLeases
    IN  /\ h[i].pc = "admit" /\ h[i].kind = "attach"
        /\ \/ /\ fits /\ h[i].current \in live
              /\ tickets' = Rotated(live, h[i].current, t)
              /\ issued' = issued + 1
              /\ records' = [records EXCEPT ![c].lastSeen = now]
              /\ ctrl' = [ctrl EXCEPT ![c] = Added(@, i)]
              /\ h' = [h EXCEPT ![i].pc = "send", ![i].next = t]
              /\ UNCHANGED alive
           \/ /\ fits /\ h[i].current \notin live
              /\ tickets' = live
              /\ ctrl' = [ctrl EXCEPT ![c] = Failed(Added(@, i), i)]
              /\ Refuse(i)
              /\ UNCHANGED <<issued, records>>
           \/ /\ ~fits
              /\ Refuse(i)
              /\ UNCHANGED <<tickets, issued, records, ctrl>>
        /\ UNCHANGED <<now, closed, response, client>>

\* SendContinuity and commitAdmission.
Respond(i) ==
    /\ h[i].pc = "send" /\ i \in alive
    /\ h' = [h EXCEPT ![i].pc = "admitted", ![i].committed = TRUE]
    /\ response' = IF client.waits = i THEN [response EXCEPT ![i] = h[i].next]
                   ELSE response
    /\ UNCHANGED <<now, server, alive, client>>

\* SendContinuity fails and the Mux with it; the ticket may have been delivered.
RespondFails(i) ==
    /\ h[i].pc = "send"
    /\ h' = [h EXCEPT ![i].pc = "abort"]
    /\ alive' = alive \ {i}
    /\ response' \in {response} \cup
         (IF i \in alive /\ client.waits = i THEN {[response EXCEPT ![i] = h[i].next]} ELSE {})
    /\ UNCHANGED <<now, server, client>>

\* An admitted session ends: Attachment.Close finds no admission to abort.
SessionEnds(i) ==
    /\ h[i].pc = "admitted" /\ i \notin alive
    /\ h' = [h EXCEPT ![i].pc = "release"]
    /\ UNCHANGED <<now, server, alive, response, client>>

\* abortAdmission: Revoke a first ticket, roll back a rotation.
Abort(i) ==
    /\ h[i].pc = "abort"
    /\ IF h[i].kind = "create"
       THEN /\ tickets' = IF closed THEN tickets ELSE Current(tickets) \ {h[i].next}
            /\ h' = [h EXCEPT ![i].pc = "discard"]
       ELSE /\ tickets' = IF closed THEN tickets
                          ELSE RolledBack(Current(tickets), h[i].current, h[i].next)
            /\ h' = [h EXCEPT ![i].pc = "release"]
    /\ UNCHANGED <<now, closed, issued, records, ctrl, alive, response, client>>

\* discard: an undelivered constellation is removed, then its controller stopped.
Discard(i) ==
    LET c == h[i].con IN
    /\ h[i].pc = "discard"
    /\ IF records[c].present /\ ctrl[c].primary = i
       THEN /\ records' = [records EXCEPT ![c].present = FALSE]
            /\ h' = [h EXCEPT ![i].pc = "stop"]
       ELSE h' = [h EXCEPT ![i] = Returned(@)] /\ UNCHANGED records
    /\ UNCHANGED <<now, closed, tickets, issued, ctrl, alive, response, client>>

StopController(i) ==
    LET c == h[i].con IN
    /\ h[i].pc = "stop"
    /\ ctrl' = [ctrl EXCEPT ![c] = Stopped]
    /\ alive' = alive \ Leases(c)
    /\ h' = [h EXCEPT ![i] = Returned(@)]
    /\ UNCHANGED <<now, closed, tickets, issued, records, response, client>>

\* release: the lease fails outside h.mu, then lastSeen is refreshed.
Release(i) ==
    LET c == h[i].con IN
    /\ h[i].pc = "release"
    /\ IF records[c].present
       THEN /\ ctrl' = [ctrl EXCEPT ![c] = Failed(@, i)]
            /\ h' = [h EXCEPT ![i].pc = "seen"]
       ELSE h' = [h EXCEPT ![i] = Returned(@)] /\ UNCHANGED ctrl
    /\ UNCHANGED <<now, closed, tickets, issued, records, alive, response, client>>

Seen(i) ==
    LET c == h[i].con IN
    /\ h[i].pc = "seen"
    /\ records' = IF records[c].present THEN [records EXCEPT ![c].lastSeen = now]
                  ELSE records
    /\ h' = [h EXCEPT ![i] = Returned(@)]
    /\ UNCHANGED <<now, closed, tickets, issued, ctrl, alive, response, client>>

\* Hub.Close: every controller is stopped and closes its sessions.
HubClose ==
    /\ ~closed
    /\ closed' = TRUE
    /\ tickets' = {}
    /\ records' = [c \in Constellations |-> [records[c] EXCEPT !.present = FALSE]]
    /\ ctrl' = [c \in Constellations |-> IF records[c].present THEN Stopped ELSE ctrl[c]]
    /\ alive' = alive \ UNION {Leases(c) : c \in Present}
    /\ UNCHANGED <<now, issued, h, response, client>>
-----------------------------------------------------------------------------
Handle(i) ==
    \/ ReceiveFails(i) \/ Cleanup(i) \/ Create(i) \/ Attach(i)
    \/ Respond(i) \/ RespondFails(i) \/ SessionEnds(i)
    \/ Abort(i) \/ Discard(i) \/ StopController(i) \/ Release(i) \/ Seen(i)

Next ==
    \/ CreateBegin \/ AttachBegin \/ TakeResponse \/ ExchangeFails \/ Terminate
    \/ Tick \/ HubClose
    \/ \E i \in Sessions :
         RouteEnds(i) \/ MuxLost(i) \/ Handle(i)

Spec == Init /\ [][Next]_vars
-----------------------------------------------------------------------------
\* The fields have their Go types, no limit is exceeded, and a controller's
\* primary is one of its leases, or none when it has none.
TypeOK ==
    /\ now \in 0 .. MaxTime /\ closed \in BOOLEAN
    /\ Cardinality(tickets) <= MaxTickets
    /\ Cardinality(Present) <= MaxConstellations
    /\ \A c \in Constellations :
         /\ Len(ctrl[c].order) <= MaxLeases /\ Leases(c) \subseteq Sessions
         /\ IF ctrl[c].order = <<>> THEN ctrl[c].primary = None
            ELSE ctrl[c].primary \in Leases(c)
    /\ client.pool \subseteq Sessions /\ Cardinality(client.pool) <= Target

\* The response of session i reached the client or still may, exactly when the
\* server committed it.
Agreed(c) ==
    \A i \in Sessions : h[i].con = c =>
        /\ h[i].committed => i \in client.took \/ response[i] # NoTicket
        /\ i \in client.took \/ response[i] # NoTicket => h[i].committed

\* Leases are neither leaked nor lost: as long as the Hub knows a constellation,
\* its controller holds exactly the sessions whose Attachment is not yet closed,
\* and it does not forget one that has any (hub.go:197-244, 333-398).
LeasesAreAttachments ==
    \A c \in Constellations :
        LET attached == {i \in Sessions : h[i].con = c /\
                           h[i].pc \in {"send", "admitted", "abort", "discard", "release"}}
        IN  /\ records[c].present => Leases(c) = attached
            /\ ~closed /\ Agreed(c) /\ attached # {} => records[c].present

\* A valid ticket can be used: its constellation is still in the Hub, although
\* tickets and constellations expire by separate clocks and locks (hub.go:103-110
\* requires InactiveTTL >= TTL).
TicketsHaveRecord ==
    \A t \in tickets : now < t.expires /\ Agreed(t.con) => records[t.con].present

\* A ticket admits one carrier: no two attachments that are pending or live were
\* made with the same ticket (ticket.go:137-138, 177-179).
TicketsAdmitOnce ==
    \A i, j \in Sessions :
        i # j /\ {h[i].pc, h[j].pc} \subseteq {"send", "admitted"}
          /\ {h[i].kind, h[j].kind} = {"attach"}
        => h[i].current # h[j].current

\* A client is not locked out by a failed exchange: unless an answer was lost
\* after the server committed it, or taken though sending it failed, the client's
\* unexpired ticket is valid, or held by an admission that will roll it back or
\* deliver its successor (hub.go:308-331, ticket.go:177-214).
TicketNotStranded ==
    client.con # None /\ ~closed /\ now < client.ticket.expires /\ Agreed(client.con) =>
        \/ client.ticket \in tickets
        \/ client.waits # None /\ response[client.waits] # NoTicket
        \/ \E i \in Sessions :
             h[i].pc \in {"send", "abort"} /\ h[i].current = client.ticket

\* Controllers, attachments, records and tickets of a constellation agree
\* (hub.go), a ticket admits one carrier, and an admission that fails gives it
\* back (ticket.go).
HubIsConsistent ==
    TypeOK /\ LeasesAreAttachments /\ TicketsHaveRecord /\ TicketsAdmitOnce /\ TicketNotStranded
=============================================================================
