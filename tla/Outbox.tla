------------------------------- MODULE Outbox -------------------------------
(***************************************************************************)
(* The transactional outbox of the scraper database (Postgres backend) and *)
(* the publisher service that drains it into RabbitMQ.                     *)
(*                                                                         *)
(* Writers: the scraper (persist_snapshot), any number of publisher        *)
(* processes (run_forever), and the operator's replay (requeue_outbox).    *)
(* Every store method is one database transaction, hence one action.       *)
(* Between two transactions of a publisher anything may happen: another    *)
(* publisher, a new scrape of the same product, a replay, the end of a     *)
(* lease, or the death of the publisher itself.                            *)
(*                                                                         *)
(* Time is abstracted to what the queries compare: a row is due or not     *)
(* (available_at <= now), a lease is live or expired (lease_expires_at <=  *)
(* now).  A timer may run out at any moment.                               *)
(***************************************************************************)
EXTENDS Integers, Sequences, FiniteSets

CONSTANTS
    Products,      \* identity keys of one scrape run; event_id is a function of it
    Versions,      \* snapshots a product page may yield (their payload_hash)
    Sendable,      \* the snapshots assert_rabbit_publish_contract accepts
    Publishers,    \* publisher processes
    None,          \* no snapshot yet
    MaxRetries,    \* SCRAPER_OUTBOX_MAX_RETRIES
    BatchSize,     \* SCRAPER_OUTBOX_BATCH_SIZE
    ReplayFilters, \* the p_statuses arguments replay is called with
    MaxScrapes,    \* bound: calls of persist_snapshot
    MaxReplays,    \* bound: calls of requeue_outbox
    MaxFaults      \* bound: connect failures, crashes and failed transactions

Status == {"pending", "leased", "retryable", "failed", "published"}

ASSUME OutboxAssumption ==
    /\ Sendable \subseteq Versions
    /\ None \notin Versions
    /\ IsFiniteSet(Products)
    /\ MaxRetries \in Nat \ {0}
    /\ BatchSize \in Nat \ {0}
    /\ ReplayFilters \subseteq SUBSET Status
    /\ MaxScrapes \in Nat /\ MaxReplays \in Nat /\ MaxFaults \in Nat

VARIABLES
    raw,       \* raw_products: payload_hash and publication_state
    outbox,    \* publication_outbox, one row per product
    attempts,  \* publication_attempts of each outbox row
    pub,       \* the publisher processes
    sent,      \* payloads RabbitMQ has accepted for each event_id
    used       \* how much of each bound is spent

vars == <<raw, outbox, attempts, pub, sent, used>>

Message == [product : Products, payload : Versions]

(* The row of a product that was never persisted. *)
NoRaw == [hash |-> None, state |-> "absent"]
NoRow == [status |-> "absent", hash |-> None, payload |-> None,
          born |-> 0, retry |-> 0, due |-> FALSE, lease |-> "none"]

Idle == [pc |-> "idle", todo |-> <<>>]

Persisted == {p \in Products : outbox[p].status # "absent"}

Init ==
    /\ raw = [p \in Products |-> NoRaw]
    /\ outbox = [p \in Products |-> NoRow]
    /\ attempts = [p \in Products |-> {}]
    /\ pub = [w \in Publishers |-> Idle]
    /\ sent = [p \in Products |-> {}]
    /\ used = [scrapes |-> 0, replays |-> 0, faults |-> 0]

-----------------------------------------------------------------------------
(* The scraper.                                                            *)

(* Mutants of the upsert that forget a column on conflict. *)
FreshRowWithOldHash(p, v) ==
    [status |-> "pending", hash |-> IF p \in Persisted THEN outbox[p].hash ELSE v,
     payload |-> v,
     born |-> IF p \in Persisted THEN outbox[p].born ELSE Cardinality(Persisted) + 1,
     retry |-> 0, due |-> TRUE, lease |-> "none"]
FreshRowWithOldBackoff(p, v) ==
    [status |-> "pending", hash |-> v, payload |-> v,
     born |-> IF p \in Persisted THEN outbox[p].born ELSE Cardinality(Persisted) + 1,
     retry |-> 0, due |-> p \in Persisted => outbox[p].due, lease |-> "none"]

(* The outbox row after the upsert: a conflict on event_id resets          *)
(* everything but created_at.                                              *)
FreshRow(p, v) ==
    [status |-> "pending", hash |-> v, payload |-> v,
     born |-> IF p \in Persisted THEN outbox[p].born ELSE Cardinality(Persisted) + 1,
     retry |-> 0, due |-> TRUE, lease |-> "none"]

(* persist_snapshot: raw product, children and outbox row in one           *)
(* transaction.  event_id depends on the run and the identity key only, so *)
(* scraping the product again rewrites the same outbox row.                *)
Persist(p, v) ==
    /\ used.scrapes < MaxScrapes
    /\ used' = [used EXCEPT !.scrapes = @ + 1]
    /\ raw' = [raw EXCEPT ![p] = [hash |-> v, state |-> "pending"]]
    /\ outbox' = [outbox EXCEPT ![p] = FreshRow(p, v)]
    /\ UNCHANGED <<attempts, pub, sent>>

-----------------------------------------------------------------------------
(* The operator.                                                           *)

(* The n oldest of a set of rows (order by created_at limit n). *)
Oldest(S, n) ==
    {p \in S : Cardinality({q \in S : outbox[q].born < outbox[p].born}) < n}

(* A replayed row.  The mutant leaves available_at alone. *)
ReadyStillBackingOff(row) == [row EXCEPT !.status = "pending", !.lease = "none"]
Ready(row) == [row EXCEPT !.status = "pending", !.due = TRUE, !.lease = "none"]

(* requeue_outbox with an event_id, or with a status filter and a limit.   *)
(* retry_count, payload_json and the attempt rows are left as they are.    *)
Requeue(ids) ==
    /\ ids # {}
    /\ used.replays < MaxReplays
    /\ used' = [used EXCEPT !.replays = @ + 1]
    /\ outbox' = [p \in Products |->
                    IF p \in ids THEN Ready(outbox[p]) ELSE outbox[p]]
    /\ raw' = [p \in Products |->
                 IF p \in ids THEN [raw[p] EXCEPT !.state = "pending"] ELSE raw[p]]
    /\ UNCHANGED <<attempts, pub, sent>>

Replay ==
    \/ \E p \in Persisted : Requeue({p})
    \/ \E filter \in ReplayFilters, limit \in 1 .. Cardinality(Products) :
         Requeue(Oldest({p \in Persisted : filter = {} \/ outbox[p].status \in filter}, limit))

-----------------------------------------------------------------------------
(* The publishers.                                                         *)

(* Mutants: expired leases are not taken over; failed rows are tried again. *)
ClaimableWhileWaiting ==
    {p \in Persisted : outbox[p].status \in {"pending", "retryable"} /\ outbox[p].due}
ClaimableAfterFailure ==
    {p \in Persisted :
        \/ outbox[p].status \in {"pending", "retryable", "failed"} /\ outbox[p].due
        \/ outbox[p].status = "leased" /\ outbox[p].lease = "expired"}

(* The claim's where clause: waiting rows that are due and rows whose      *)
(* publisher let its lease run out.                                        *)
Claimable ==
    {p \in Persisted :
        \/ outbox[p].status \in {"pending", "retryable"} /\ outbox[p].due
        \/ outbox[p].status = "leased" /\ outbox[p].lease = "expired"}

(* run_once: nothing is connected before a first look at the table. *)
Connect(w) ==
    /\ pub[w].pc = "idle"
    /\ pub' = [pub EXCEPT ![w].pc = "connecting"]
    /\ UNCHANGED <<raw, outbox, attempts, sent, used>>

Poll(w) == Claimable # {} /\ Connect(w)

(* A claimed batch is handed over in the order of created_at. *)
InOrder(ids) ==
    {b \in [1 .. Cardinality(ids) -> ids] :
        \A i, j \in DOMAIN b : i < j => outbox[b[i]].born < outbox[b[j]].born}

(* claim_outbox_batch leases the rows in ids, after connect() succeeded.   *)
(* There may be none when another publisher was faster.                    *)
ClaimRows(w, ids) ==
    /\ pub[w].pc = "connecting"
    /\ outbox' = [p \in Products |->
                    IF p \in ids
                    THEN [outbox[p] EXCEPT !.status = "leased", !.lease = "live"]
                    ELSE outbox[p]]
    /\ raw' = [p \in Products |->
                 IF p \in ids THEN [raw[p] EXCEPT !.state = "leased"] ELSE raw[p]]
    /\ \E b \in InOrder(ids) :
         pub' = [pub EXCEPT ![w] =
                   [pc   |-> IF ids = {} THEN "idle" ELSE "publish",
                    todo |-> [i \in DOMAIN b |->
                                [product |-> b[i], payload |-> outbox[b[i]].payload]]]]
    /\ UNCHANGED <<attempts, sent, used>>

(* The other publishers' transactions are over, so "skip locked" skips     *)
(* nothing.                                                                *)
Claim(w) == ClaimRows(w, Oldest(Claimable, BatchSize))

Accepted(m) == [sent EXCEPT ![m.product] = @ \cup {m.payload}]

(* _publish_once on an open channel: the contract check refuses the event; *)
(* or the broker confirms it; or the connection is lost, before or after   *)
(* the broker took the message; or the broker returns it, which is not one *)
(* of the recoverable exceptions.                                          *)
Attempt(w, recovery) ==
    LET m == Head(pub[w].todo)
    IN \/ /\ m.payload \notin Sendable
          /\ pub' = [pub EXCEPT ![w].pc = "fatal"]
          /\ UNCHANGED sent
       \/ /\ m.payload \in Sendable
          /\ pub' = [pub EXCEPT ![w].pc = "confirmed"]
          /\ sent' = Accepted(m)
       \/ /\ m.payload \in Sendable
          /\ pub' = [pub EXCEPT ![w].pc = recovery]
          /\ sent' \in {sent, Accepted(m)}
       \/ /\ m.payload \in Sendable
          /\ pub' = [pub EXCEPT ![w].pc = "retryable"]
          /\ UNCHANGED sent

(* publish(), first try.  Without an exchange it connects first, which may *)
(* fail before the contract is looked at.                                  *)
Publish(w) ==
    /\ pub[w].pc \in {"publish", "reconnect"}
    /\ \/ Attempt(w, "republish")
       \/ /\ pub[w].pc = "reconnect"
          /\ pub' = [pub EXCEPT ![w].pc = "republish"]
          /\ UNCHANGED sent
    /\ UNCHANGED <<raw, outbox, attempts, used>>

(* Mutant: the second failure is swallowed. *)
RepublishSwallowing(w) ==
    /\ pub[w].pc = "republish"
    /\ pub' = [pub EXCEPT ![w].pc = "confirmed"]
    /\ sent' \in {sent, Accepted(Head(pub[w].todo))}
    /\ UNCHANGED <<raw, outbox, attempts, used>>

(* publish(), second and last try, on a fresh connection if there is one. *)
Republish(w) ==
    /\ pub[w].pc = "republish"
    /\ \/ Attempt(w, "retryable")
       \/ /\ pub' = [pub EXCEPT ![w].pc = "disconnected"]
          /\ UNCHANGED sent
    /\ UNCHANGED <<raw, outbox, attempts, used>>

(* Insert into publication_attempts, on conflict (outbox_id,               *)
(* attempt_number) do update.  The mutant does nothing on conflict.        *)
LoggedOnce(p, n, ok) ==
    IF \E a \in attempts[p] : a.number = n
    THEN attempts[p] ELSE attempts[p] \cup {[number |-> n, success |-> ok]}
Logged(p, n, ok) ==
    {a \in attempts[p] : a.number # n} \cup {[number |-> n, success |-> ok]}

(* The worker goes on to the next message of its batch. *)
Handled(w) ==
    LET rest == Tail(pub[w].todo)
    IN [pub EXCEPT ![w] =
          [pc   |-> IF rest = <<>> THEN "idle"
                    ELSE IF pub[w].pc = "disconnected" THEN "reconnect" ELSE "publish",
           todo |-> rest]]

(* A published row; payload_json is the event that was sent.  The mutant   *)
(* leaves payload_json alone.                                              *)
PublishedAsStored(row, m) ==
    [row EXCEPT !.status = "published", !.retry = @ + 1, !.lease = "none"]
Published(row, m) ==
    [row EXCEPT !.status = "published", !.retry = @ + 1,
                !.payload = m.payload, !.lease = "none"]

(* mark_outbox_published: whatever the row is by now. *)
MarkPublished(w) ==
    LET m == Head(pub[w].todo)
        p == m.product
        n == outbox[p].retry + 1
    IN /\ pub[w].pc = "confirmed"
       /\ outbox' = [outbox EXCEPT ![p] = Published(@, m)]
       /\ raw' = [raw EXCEPT ![p].state = "published"]
       /\ attempts' = [attempts EXCEPT ![p] = Logged(p, n, TRUE)]
       /\ pub' = Handled(w)
       /\ UNCHANGED <<sent, used>>

(* The nth attempt may be followed by another.  The mutant is off by one. *)
TriesLeftInclusive(n) == n <= MaxRetries
TriesLeft(n) == n < MaxRetries

(* mark_outbox_failed: another try after a backoff, or the end. *)
MarkFailed(w) ==
    LET p == Head(pub[w].todo).product
        n == outbox[p].retry + 1
        again == pub[w].pc # "fatal" /\ TriesLeft(n)
        status == IF again THEN "retryable" ELSE "failed"
    IN /\ pub[w].pc \in {"retryable", "disconnected", "fatal"}
       /\ outbox' = [outbox EXCEPT ![p] =
                       [@ EXCEPT !.status = status, !.retry = n,
                                 !.due = ~again, !.lease = "none"]]
       /\ raw' = [raw EXCEPT ![p].state = status]
       /\ attempts' = [attempts EXCEPT ![p] = Logged(p, n, FALSE)]
       /\ pub' = Handled(w)
       /\ UNCHANGED <<sent, used>>

(* An exception leaves run_once (connect or a store call failed) or the    *)
(* process dies and is started again: the claimed rows keep their leases   *)
(* and the rest of the batch is forgotten.                                 *)
Abandon(w) ==
    /\ pub[w].pc # "idle"
    /\ used.faults < MaxFaults
    /\ used' = [used EXCEPT !.faults = @ + 1]
    /\ pub' = [pub EXCEPT ![w] = Idle]
    /\ UNCHANGED <<raw, outbox, attempts, sent>>

-----------------------------------------------------------------------------
(* Time.                                                                   *)

LeaseExpires(p) ==
    /\ outbox[p].lease = "live"
    /\ outbox' = [outbox EXCEPT ![p].lease = "expired"]
    /\ UNCHANGED <<raw, attempts, pub, sent, used>>

BackoffEnds(p) ==
    /\ p \in Persisted
    /\ ~outbox[p].due
    /\ outbox' = [outbox EXCEPT ![p].due = TRUE]
    /\ UNCHANGED <<raw, attempts, pub, sent, used>>

-----------------------------------------------------------------------------

Send(w) == Publish(w) \/ Republish(w)
Settle(w) == MarkPublished(w) \/ MarkFailed(w)

Next ==
    \/ \E p \in Products, v \in Versions : Persist(p, v)
    \/ Replay
    \/ \E w \in Publishers :
         Poll(w) \/ Claim(w) \/ Send(w) \/ Settle(w) \/ Abandon(w)
    \/ \E p \in Products : LeaseExpires(p) \/ BackoffEnds(p)

Spec == Init /\ [][Next]_vars

(* run_forever never stops polling, a connected publisher always works off *)
(* its batch (every call returns or raises), and timers run out.           *)
Fairness ==
    /\ \A w \in Publishers :
         WF_vars(Poll(w)) /\ WF_vars(Claim(w)) /\ WF_vars(Send(w)) /\ WF_vars(Settle(w))
    /\ \A p \in Products : WF_vars(LeaseExpires(p)) /\ WF_vars(BackoffEnds(p))

FairSpec == Spec /\ Fairness

-----------------------------------------------------------------------------
(* Properties.                                                             *)

Row == [status  : Status \cup {"absent"},
        hash    : Versions \cup {None},
        payload : Versions \cup {None},
        born    : Nat,
        retry   : Nat,
        due     : BOOLEAN,
        lease   : {"none", "live", "expired"}]

Publisher == [pc : {"idle", "connecting", "publish", "reconnect", "republish",
                    "confirmed", "retryable", "disconnected", "fatal"},
              todo : Seq(Message)]

(* Every variable holds values of its type; a row that exists holds a     *)
(* snapshot, and a publisher that is sending holds messages about rows     *)
(* that exist.                                                             *)
TypeOK ==
    /\ raw \in [Products -> [hash : Versions \cup {None}, state : Status \cup {"absent"}]]
    /\ outbox \in [Products -> Row]
    /\ attempts \in [Products -> SUBSET [number : Nat \ {0}, success : BOOLEAN]]
    /\ pub \in [Publishers -> Publisher]
    /\ sent \in [Products -> SUBSET Versions]
    /\ used \in [scrapes : Nat, replays : Nat, faults : Nat]
    /\ \A p \in Persisted : outbox[p].payload \in Versions
    /\ \A w \in Publishers :
         /\ pub[w].pc \notin {"idle", "connecting"} => pub[w].todo # <<>>
         /\ \A i \in DOMAIN pub[w].todo : pub[w].todo[i].product \in Persisted

(* raw_products.publication_state and payload_hash repeat the outbox row's *)
(* status and payload_hash after every transaction, whichever of the       *)
(* scraper, a publisher or a replay wrote last.                            *)
TablesAgree ==
    \A p \in Products :
        raw[p] = [hash |-> outbox[p].hash, state |-> outbox[p].status]

(* A row reported as published holds a payload that RabbitMQ accepted,     *)
(* also when leases overlapped, the product was scraped again or the row   *)
(* was replayed while a publisher was sending it.                          *)
PublishedWasSent ==
    \A p \in Products :
        outbox[p].status = "published" => outbox[p].payload \in sent[p]

(* The attempt rows account for retry_count: one row for each number up to *)
(* it, the newest of them in agreement with a status that an attempt set.  *)
LedgerComplete ==
    \A p \in Products :
        /\ \A k \in 1 .. outbox[p].retry : \E a \in attempts[p] : a.number = k
        /\ \A a \in attempts[p] :
             a.number = outbox[p].retry =>
                 /\ outbox[p].status = "published" => a.success
                 /\ outbox[p].status \in {"retryable", "failed"} => ~a.success

(* A row that waits for another try has tries left. *)
RetryableHasTriesLeft ==
    \A p \in Products :
        outbox[p].status = "retryable" => outbox[p].retry \in 1 .. MaxRetries - 1

(* No unsettled row is out of every publisher's reach: it is claimable, or *)
(* a timer that is running will make it so.                                *)
UnsettledIsReachable ==
    \A p \in Products :
        /\ outbox[p].status = "pending" => outbox[p].due
        /\ outbox[p].status = "leased" <=> outbox[p].lease \in {"live", "expired"}

Unsettled(p) == outbox[p].status \in {"pending", "leased", "retryable"}
Settled(p) == outbox[p].status \in {"published", "failed"}

(* Every persisted product is published or explicitly failed in the end,   *)
(* whatever crashed, as long as crashes and re-scrapes stop.               *)
EventuallySettled == \A p \in Products : Unsettled(p) ~> Settled(p)

(* With one publisher the outbox keeps the promise of module Delivery. *)
D == INSTANCE Delivery WITH
        Payloads <- Versions,
        verdict  <- [p \in Products |->
                       IF outbox[p].status \in {"absent", "published", "failed"}
                       THEN outbox[p].status ELSE "open"],
        told     <- [p \in Products |->
                       IF outbox[p].status = "published" THEN outbox[p].payload ELSE None],
        accepted <- sent,
        orders   <- used.scrapes + used.replays

KeepsPromise == D!FairSpec

-----------------------------------------------------------------------------
(* Statements of the documentation that the code does not keep.            *)

(* docs/new_scraper_architecture.md:497, "one logical event row per        *)
(* persisted raw snapshot": a raw product reported as published was        *)
(* published with the snapshot the table holds.                            *)
PublishedIsCurrent ==
    \A p \in Products : raw[p].state = "published" => outbox[p].payload = raw[p].hash

(* docs/new_scraper_architecture.md:515, "Attempt history is always        *)
(* appended to publication_attempts": no attempt is taken out again.       *)
HistoryAppended == [][\A p \in Products : attempts[p] \subseteq attempts'[p]]_vars
=============================================================================
