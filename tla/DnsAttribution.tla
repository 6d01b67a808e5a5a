---------------------------- MODULE DnsAttribution ----------------------------
(***************************************************************************)
(* The table that gives an address of the tunnel back its domain name      *)
(* (internal/tunstack/dns_attribution.go), as the UDP connections of the   *)
(* tunnel fill it (udp_conn.go).                                           *)
(*                                                                         *)
(* WriteTo registers a query, then writes it, and discards it when the     *)
(* write fails; ReadFrom hands every response to observeResponse from      *)
(* another goroutine, so that an answer may come before the write returns. *)
(* A query is its identifier and its one question; an answer is a sequence *)
(* of records, of which a CNAME names another owner and an A an address.   *)
(***************************************************************************)
EXTENDS Integers, FiniteSets, SequencesExt

CONSTANTS QueryIds,         \* identifiers of queries
          Domains,          \* names that are asked for
          Answers,          \* the sequences of records that responses carry
          MaxPending,       \* dnsAttributionMaxPending
          MaxAddresses,     \* dnsAttributionMaxAddresses
          PendingTTL,       \* dnsAttributionPendingTTL, in ticks
          MaximumTTL,       \* dnsAttributionMaximumTTL, in ticks
          MaxQueries,       \* bound on the queries sent
          MaxDnsTime        \* bound on the clock

VARIABLES queries,    \* the registered queries, oldest first
          count,      \* the counter that stands for their number
          addresses,  \* address -> [domain, expires], a partial function
          writes,     \* queries whose WriteDatagram has not returned
          told,       \* history: the queries sent, and what the responses said
          clock

dnsVars == <<queries, count, addresses, writes, told, clock>>

DnsInit ==
  /\ queries = <<>>
  /\ count = 0
  /\ addresses = <<>>
  /\ writes = {}
  /\ told = [sent |-> 0, facts |-> {}]
  /\ clock = 0

----------------------------------------------------------------------------
(* The table.                                                              *)

Fresh(entries) == SelectSeq(entries, LAMBDA e : clock < e.expires)
Unexpired(table) == [a \in {b \in DOMAIN table : clock < table[b].expires} |-> table[a]]

\* purgeExpiredLocked counts the queries that it drops.
purgedCount == count - (Len(queries) - Len(Fresh(queries)))

\* evictPendingLocked: an entry that expires first, the first of them under its
\* identifier; the order of a Go map is free, so that the identifier is any.
Oldest(entries) ==
  {i \in DOMAIN entries : \A j \in DOMAIN entries :
     /\ entries[i].expires <= entries[j].expires
     /\ (j < i /\ entries[j].id = entries[i].id) => entries[i].expires < entries[j].expires}

\* takePendingLocked: the first entry with this identifier and question.
Matching(entries, q) ==
  SelectInSeq(entries, LAMBDA e : e.id = q.id /\ e.name = q.name)

\* evictAddressLocked, the same for addresses.
Soonest(table) ==
  {a \in DOMAIN table : \A b \in DOMAIN table : table[a].expires <= table[b].expires}

minimumDNSSeconds(l, r) == IF l = 0 \/ r = 0 THEN 0 ELSE IF l < r THEN l ELSE r

\* One pass over the records: a CNAME whose owner is known makes its target
\* known, with the origin of the owner and the smaller TTL.
CnamePass(records, known) ==
  FoldLeft(LAMBDA k, r :
             IF r.kind = "CNAME" /\ r.owner \in DOMAIN k /\ r.value \notin DOMAIN k
             THEN [n \in DOMAIN k \cup {r.value} |->
                     IF n \in DOMAIN k THEN k[n]
                     ELSE [origin |-> k[r.owner].origin, ttl |-> minimumDNSSeconds(k[r.owner].ttl, r.ttl)]]
             ELSE k,
           known, records)

\* At most as many passes as records: by then the chains are complete.
Origins(name, records) ==
  FoldLeft(LAMBDA k, pass : CnamePass(records, k),
           [n \in {name} |-> [origin |-> name, ttl |-> MaximumTTL]], records)

\* putAddressLocked, which makes room first even for an address it replaces.
putAddressLocked(table, address, domain, ttl) ==
  IF ttl = 0 THEN {table}
  ELSE LET room == IF Cardinality(DOMAIN table) < MaxAddresses THEN {table}
                   ELSE {[a \in DOMAIN table \ {s} |-> table[a]] : s \in Soonest(table)}
           entry == [domain |-> domain,
                     expires |-> clock + (IF ttl > MaximumTTL THEN MaximumTTL ELSE ttl)]
       IN {[a \in DOMAIN t \cup {address} |-> IF a = address THEN entry ELSE t[a]] : t \in room}

\* The address records whose owner is on a chain, entered in order.
Attributed(table, name, records) ==
  LET known == Origins(name, records) IN
  FoldLeft(LAMBDA ts, r :
             IF r.kind = "A" /\ r.owner \in DOMAIN known
             THEN UNION {putAddressLocked(t, r.value, known[r.owner].origin,
                                          minimumDNSSeconds(known[r.owner].ttl, r.ttl)) : t \in ts}
             ELSE ts,
           {table}, records)

----------------------------------------------------------------------------
(* The UDP connections.                                                    *)

Questions == [id : QueryIds, name : Domains]

\* observeQuery: purge, evict when full, register; then the write starts.
observeQuery(q) ==
  /\ told.sent < MaxQueries
  /\ \E kept \in IF purgedCount < MaxPending THEN {Fresh(queries)}
                 ELSE IF Fresh(queries) = <<>> THEN {<<>>}
                 ELSE {RemoveAt(Fresh(queries), i) : i \in Oldest(Fresh(queries))} :
       /\ queries' = Append(kept, [id |-> q.id, name |-> q.name, expires |-> clock + PendingTTL])
       /\ count' = purgedCount - (Len(Fresh(queries)) - Len(kept)) + 1
  /\ addresses' = Unexpired(addresses)
  /\ writes' = writes \cup {[id |-> q.id, name |-> q.name, n |-> told.sent]}
  /\ told' = [told EXCEPT !.sent = @ + 1]
  /\ UNCHANGED clock

WriteSucceeds(w) ==
  /\ w \in writes
  /\ writes' = writes \ {w}
  /\ UNCHANGED <<queries, count, addresses, told, clock>>

\* discardQuery takes an entry with the same identifier and question.
discardQuery(w) ==
  /\ w \in writes
  /\ writes' = writes \ {w}
  /\ LET i == Matching(queries, w) IN
     IF i = 0 THEN UNCHANGED <<queries, count>>
     ELSE queries' = RemoveAt(queries, i) /\ count' = count - 1
  /\ UNCHANGED <<addresses, told, clock>>

\* What a response to the question really says: the addresses of the names
\* that CNAMEs connect to it, in whatever order they stand.
Reaches(records, name) ==
  LET step(names) == names \cup {records[i].value : i \in {j \in DOMAIN records :
                        records[j].kind = "CNAME" /\ records[j].owner \in names}}
  IN FoldLeft(LAMBDA names, r : step(names), {name}, records)
Says(records, name) ==
  {records[i].value : i \in {j \in DOMAIN records :
     records[j].kind = "A" /\ records[j].owner \in Reaches(records, name)}}

\* observeResponse: purge, then a response without a matching query is ignored.
observeResponse(q, records) ==
  /\ LET live == Fresh(queries)
         i == Matching(live, q) IN
     /\ told.sent > 0
     /\ queries' = IF i = 0 THEN live ELSE RemoveAt(live, i)
     /\ count' = IF i = 0 THEN purgedCount ELSE purgedCount - 1
     /\ IF i = 0 THEN addresses' = Unexpired(addresses) /\ UNCHANGED told
        ELSE /\ addresses' \in Attributed(Unexpired(addresses), q.name, records)
             /\ told' = [told EXCEPT !.facts = @ \cup {<<q.name, a>> : a \in Says(records, q.name)}]
  /\ UNCHANGED <<writes, clock>>

\* domainFor deletes an entry that it finds expired.
domainFor(address) ==
  IF address \in DOMAIN addresses /\ clock < addresses[address].expires
  THEN addresses[address].domain ELSE "none"
Looked(address) ==
  IF address \in DOMAIN addresses /\ clock >= addresses[address].expires
  THEN [a \in DOMAIN addresses \ {address} |-> addresses[a]] ELSE addresses

DnsTick ==
  /\ clock < MaxDnsTime
  /\ told.sent > 0
  /\ clock' = clock + 1
  /\ UNCHANGED <<queries, count, addresses, writes, told>>

DnsNext ==
  \/ \E q \in Questions : observeQuery(q) \/ \E records \in Answers : observeResponse(q, records)
  \/ \E w \in writes : WriteSucceeds(w) \/ discardQuery(w)
  \/ DnsTick

----------------------------------------------------------------------------
(* Properties.                                                             *)

\* The counter that bounds the table is the number of registered queries,
\* whatever expires, is evicted, discarded or answered, and both tables stay
\* within their limits (count, evictPendingLocked, evictAddressLocked).
TablesAreBounded ==
  /\ count = Len(queries)
  /\ Len(queries) <= MaxPending
  /\ Cardinality(DOMAIN addresses) <= MaxAddresses

\* An address carries a domain only if a response to a registered question
\* for that domain led to it through its CNAMEs: an unasked response, or an
\* unrelated record of an asked one, attributes nothing (observeResponse:
\* "keeps unrelated answer records from poisoning" the table).
AttributionIsAnswered ==
  \A a \in DOMAIN addresses : <<addresses[a].domain, a>> \in told.facts
=============================================================================
