---------------------------- MODULE SyncDelivery ----------------------------
(***************************************************************************)
(* The CRM sync pipeline of one spider run: items become events, events    *)
(* wait in two queues, batches of them are sent over HTTP while the spider *)
(* goes on, and the answers decide item by item what is done, sent again   *)
(* or given up.  The CRM is the environment: it may be busy, refuse, lose  *)
(* an answer after it applied a request, or have no batch endpoint.        *)
(*                                                                         *)
(* An await of the code is the end of a step: the sleep of a throttled     *)
(* flush, and each HTTP request.  What follows an answer up to the next    *)
(* request is one step.                                                    *)
(***************************************************************************)
EXTENDS Lifecycle, ProductPayload

CONSTANTS
    Snapshots,      \* the product snapshots the spider may yield
    Entities,       \* their entity keys
    Rows,           \* the rows the CRM may answer with for one event
    Settings,       \* the settings a deployment may choose, with mapped, the
                    \* stores typed_specs_mapping is on for; two of them
                    \* bound the run: catalog, the snapshots its spider
                    \* yields, and flights, the flushes under way at once
    MaxItems,       \* bound: snapshots yielded in a run
    MaxFlights,     \* bound: the largest settings.flights
    BatchSize,      \* CRM_BATCH_SIZE
    MaxRequests,    \* CRM_HTTP_RETRY_ATTEMPTS + 1
    MaxInflight,    \* the batches the store may have in flight
    SlowInflight,   \* BACKPRESSURE_BATCH_INFLIGHT_WARNING
    MaxRetryQueue,  \* BACKPRESSURE_RETRYABLE_QUEUE_CRITICAL
    SlowRetryQueue  \* BACKPRESSURE_RETRYABLE_QUEUE_WARNING

ASSUME SyncAssumption ==
    /\ \A s \in Settings : s.mapped \subseteq SpecStores
    /\ \A n \in Snapshots : n.entity \in Entities /\ n.payload # "none"
    /\ Rows \subseteq [verdict : {"ok", "retry", "refused", "absent"}, action : STRING,
                       ids : SUBSET {"listing", "product"}]
    /\ \A s \in Settings : /\ s.catalog \subseteq Snapshots /\ s.flights \in 1..MaxFlights
                            /\ s.again \in Nat
    /\ {MaxItems, MaxFlights, BatchSize, MaxRequests} \subseteq Nat \ {0}

VARIABLES
    settings,   \* chosen once
    phase,      \* open, closing (close_spider), closed or aborted
    yielded,    \* items processed so far
    pipe,       \* the queues, fingerprints and memories of the pipeline
    flights,    \* the flushes under way
    batching,   \* _batch_supported of the transport
    crm         \* what the CRM holds of each entity

vars == <<settings, phase, yielded, pipe, flights, batching, crm, reading>>

Slots == 1..MaxFlights
(* disturbed is history: a request of the flush was sent again, or another *)
(* flush was under way during it.                                          *)
Idle == [stage |-> "none", events |-> <<>>, results |-> <<>>, at |-> 0,
         tries |-> 0, disturbed |-> FALSE]
FullRow == [verdict |-> "ok", action |-> "created", ids |-> {"listing", "product"}]
NoRow == [no |-> 0, payload |-> "none", ever |-> {}]

Fingerprint(event) == <<event.snapshot.entity, event.snapshot.payload>>
Work(p) == p.pending \o p.retry

-----------------------------------------------------------------------------
(* The batch coordinator and the memories of the run.                      *)

AddEvent(p, event) ==
    IF Fingerprint(event) \in p.outstanding THEN p
    ELSE [p EXCEPT !.outstanding = @ \cup {Fingerprint(event)},
                   !.pending = Append(@, event)]

Release(p, events) ==
    [p EXCEPT !.outstanding = @ \ {Fingerprint(event) : event \in events}]

(* The mutants release the fingerprint of an event that is put back, and   *)
(* count its tries from the start.                                         *)
RequeueReleased(p, event) ==
    Release([p EXCEPT !.retry = Append(@, [event EXCEPT !.requeued = TRUE])], {event})
RequeueFresh(p, event) ==
    [p EXCEPT !.retry = Append(@, [event EXCEPT !.requeued = TRUE, !.attempts = 0])]

(* requeue_retryable: the fingerprint stays. *)
Requeue(p, event) == [p EXCEPT !.retry = Append(@, [event EXCEPT !.requeued = TRUE])]

(* The three dedupe checks of process_item. *)
Duplicate(p, event) ==
    \/ p.last[event.snapshot.entity] = event.snapshot.payload
    \/ Fingerprint(event) \in p.sent
    \/ Fingerprint(event) \in p.outstanding

FirstOf(queue, n) == SubSeq(queue, 1, IF Len(queue) < n THEN Len(queue) ELSE n)
Without(queue, n) == SubSeq(queue, n + 1, Len(queue))

(* How many events of the retry queue one batch may take: again stands for *)
(* CRM_BATCH_MAX_RETRYABLE_ITEMS_PER_FLUSH.                                *)
AgainAtMost == IF settings.again < BatchSize THEN settings.again ELSE BatchSize

(* The mutant takes the newest events first. *)
PoppedNewest(p) ==
    LET again == FirstOf(p.retry, AgainAtMost)
        new   == FirstOf(Reverse(p.pending), BatchSize - Len(again))
    IN [batch |-> again \o new,
        rest  |-> [p EXCEPT !.retry = Without(@, Len(again)),
                            !.pending = Reverse(Without(Reverse(@), Len(new)))]]

(* pop_flush_batch_with_waits: the retry queue first, up to its cap. *)
Popped(p) ==
    LET again == FirstOf(p.retry, AgainAtMost)
        new   == FirstOf(p.pending, BatchSize - Len(again))
    IN [batch |-> again \o new,
        rest  |-> [p EXCEPT !.retry = Without(@, Len(again)),
                            !.pending = Without(@, Len(new))]]

(* remember_payload and remember_apply_result: an id is never forgotten. *)
Remember(p, event, ids) ==
    [p EXCEPT !.sent = @ \cup {Fingerprint(event)},
              !.last[event.snapshot.entity] = event.snapshot.payload,
              !.ids[event.snapshot.entity] = @ \cup ids]

(* decide_batch_admission *)
BatchAdmitted(inflight) == inflight < MaxInflight

(* decide_backpressure: whether a flush that is not forced goes on, sleeps *)
(* first, or is left for later.  Critical memory hides a full retry queue. *)
Backpressure(memory, queued, inflight) ==
    CASE memory = "critical" -> "sleep"
      [] memory # "critical" /\ queued >= MaxRetryQueue -> "return"
      [] /\ memory # "critical" /\ queued < MaxRetryQueue
         /\ \/ queued >= SlowRetryQueue \/ inflight >= SlowInflight
            \/ memory = "high" -> "sleep"
      [] OTHER -> "flush"

-----------------------------------------------------------------------------
(* Answers.                                                                *)

(* A new event of the run: number no, never sent. *)
Numbered(event, no) ==
    [snapshot |-> event.snapshot, type |-> event.type, key |-> event.key,
     no |-> no, attempts |-> 0, requeued |-> FALSE]

(* _maybe_enqueue_product_found_resend.  The event that got the unclear    *)
(* answer is still outstanding when its resend is added.                   *)
Resend(p, event) ==
    LET entity == event.snapshot.entity
        again  == EventFor(settings, event.snapshot, p.ids[entity], "product_found")
    IN IF p.resends[entity] < settings.maxResends /\ settings.resend
       THEN AddEvent([p EXCEPT !.resends[entity] = @ + 1], Numbered(again, event.no))
       ELSE p

(* _reconcile_success_apply: the ids a success leaves, or that it is not   *)
(* settled by them.                                                        *)
Merged(p, event, result) ==
    LET ids == ReconciledIds(settings, result, p.ids[event.snapshot.entity])
    IN IF ~settings.reconcile \/ result.signal = "none"
       THEN [settled |-> TRUE, ids |-> result.ids]
       ELSE [settled |-> ids # {}, ids |-> ids \cup result.ids]

(* The failures in _apply_item_result. *)
ApplyFailure(p, event, result) ==
    IF result.retryable /\ \/ settings.requeue = "always"
                           \/ (settings.requeue = "once" /\ ~event.requeued)
    THEN Requeue(p, event) ELSE Release(p, {event})

(* _apply_item_result *)
ApplyItemResult(p, event, result) ==
    LET merged == Merged(p, event, result)
    IN CASE ~result.success -> ApplyFailure(p, event, result)
         [] result.success /\ merged.settled ->
              Release(Remember(p, event, merged.ids), {event})
         [] OTHER -> Release(Resend(p, event), {event})

(* _finalize_batch_results: item by item, in the batch's order. *)
ApplyResults(p, events, results) ==
    LET after[i \in 0..Len(events)] ==
          IF i = 0 THEN p ELSE ApplyItemResult(after[i - 1], events[i], results[i])
    IN after[Len(events)]

(* A flush that ends with an exception that is raised or swallowed: its    *)
(* events are released and not sent again.  process_item loses its item    *)
(* with it, close_spider the rest of the queues.                           *)
GiveUp(f, raised) ==
    /\ pipe' = Release(pipe, ToSet(flights[f].events))
    /\ flights' = [flights EXCEPT ![f] = Idle]
    /\ phase' = IF raised /\ phase = "closing" THEN "aborted" ELSE phase

(* The end of a flush whose answers are all in. *)
Finalize(f, results) ==
    LET events  == flights[f].events
        refused == ~settings.partial /\ \E i \in DOMAIN results : ~results[i].success
    IN IF refused THEN GiveUp(f, TRUE)
       ELSE /\ pipe' = ApplyResults(pipe, events, results)
            /\ flights' = [flights EXCEPT ![f] = Idle]
            /\ UNCHANGED phase

(* The item results that send_one_event is still to get: all of them when  *)
(* the batch endpoint is missing, then, once, those that may be retried.   *)
ToRetry(results, from) ==
    {i \in DOMAIN results : i > from /\ settings.itemRetry
                             /\ ~results[i].success /\ results[i].retryable}

(* Goes on to the next request of the flush, or ends it.  stage is items   *)
(* or again, at the index just answered.                                   *)
Proceed(f, stage, at, results) ==
    LET flight == flights[f]
        left   == ToRetry(results, IF stage = "again" THEN at ELSE 0)
    IN IF stage = "items" /\ at < Len(flight.events)
       THEN /\ flights' = [flights EXCEPT ![f] = [flight EXCEPT !.stage = "items",
                              !.at = at + 1, !.tries = 0, !.results = results]]
            /\ UNCHANGED <<pipe, phase>>
       ELSE IF left # {}
       THEN /\ flights' = [flights EXCEPT ![f] = [flight EXCEPT !.stage = "again",
                              !.at = CHOOSE i \in left : \A j \in left : i <= j,
                              !.tries = 0, !.results = results]]
            /\ UNCHANGED <<pipe, phase>>
       ELSE Finalize(f, results)

-----------------------------------------------------------------------------
(* Items and flushes.                                                      *)

Flying == {f \in Slots : flights[f].stage # "none"}
Inflight == {f \in Flying : flights[f].stage # "nap"}
FreeSlot == CHOOSE f \in Slots \ Flying : \A g \in Slots \ Flying : f <= g

Spent(event) == event.attempts > settings.maxAttempts

(* The numbers of S, each once, from the smallest to the largest. *)
Ascending(S) ==
    {order \in [1..Cardinality(S) -> S] :
        ToSet(order) = S /\ \A i, j \in DOMAIN order : i < j => order[i] < order[j]}

(* _execute_batch_send, up to its request: the events leave. *)
Boarded(events, disturbed) ==
    [stage |-> IF batching THEN "batch" ELSE "items", at |-> IF batching THEN 0 ELSE 1,
     events |-> events, results |-> <<>>, tries |-> 0, disturbed |-> disturbed]

(* The end of _flush_one_round: pops a batch into slot f, drops the events *)
(* that were tried often enough, and sends the others.                     *)
Depart(p, f) ==
    LET popped  == Popped(p)
        tried   == [i \in DOMAIN popped.batch |->
                      [popped.batch[i] EXCEPT !.attempts = @ + 1]]
        fit     == {i \in DOMAIN tried : ~Spent(tried[i])}
        others  == Inflight \ {f}
    IN /\ pipe' = Release(popped.rest, {tried[i] : i \in DOMAIN tried \ fit})
       /\ \E order \in Ascending(fit) :
            flights' = [g \in Slots |->
              IF g = f
              THEN IF fit = {} THEN Idle
                   ELSE Boarded([k \in DOMAIN order |-> tried[order[k]]], others # {})
              ELSE IF g \in others /\ fit # {} THEN [flights[g] EXCEPT !.disturbed = TRUE]
              ELSE flights[g]]

(* _flush_one_round, not forced. *)
Flush(p, memory) ==
    LET inflight == Cardinality(Inflight)
        way == IF BatchAdmitted(inflight) THEN Backpressure(memory, Len(p.retry), inflight)
               ELSE "return"
    IN CASE way = "return" -> pipe' = p /\ UNCHANGED flights
         [] way = "sleep" -> pipe' = p /\ flights' = [flights EXCEPT ![FreeSlot].stage = "nap"]
         [] OTHER -> Depart(p, FreeSlot)

(* process_item; the flush timer may have run out or not. *)
ProcessItem(snapshot) ==
    LET event == Numbered(EventFor(settings, snapshot, pipe.ids[snapshot.entity], "none"),
                          yielded + 1)
        added == AddEvent(pipe, event)
    IN /\ phase = "open" /\ yielded < MaxItems /\ Cardinality(Flying) < settings.flights
       /\ yielded' = yielded + 1 /\ reading' = NoPage
       /\ IF Duplicate(pipe, event) THEN UNCHANGED <<pipe, flights>>
          ELSE \/ /\ Len(Work(added)) < BatchSize
                  /\ pipe' = added /\ UNCHANGED flights
               \/ \E memory \in {"low", "high", "critical"} : Flush(added, memory)
       /\ UNCHANGED <<settings, phase, batching, crm>>

(* The flush after its sleep: nothing is looked at again. *)
WakeUp(f) ==
    /\ flights[f].stage = "nap"
    /\ Depart(pipe, f)
    /\ UNCHANGED <<settings, phase, yielded, batching, crm>>

(* close_spider: once no item is processed any more, forced flushes, one   *)
(* after the other.                                                        *)
StartClosing ==
    /\ phase = "open" /\ Flying = {}
    /\ phase' = "closing" /\ reading' = NoPage
    /\ UNCHANGED <<settings, yielded, pipe, flights, batching, crm>>

FlushRemaining ==
    /\ phase = "closing" /\ Flying = {} /\ Work(pipe) # <<>>
    /\ Depart(pipe, 1)
    /\ UNCHANGED <<settings, phase, yielded, batching, crm>>

Closed ==
    /\ phase = "closing" /\ Flying = {} /\ Work(pipe) = <<>>
    /\ phase' = "closed"
    /\ UNCHANGED <<settings, yielded, pipe, flights, batching, crm>>

-----------------------------------------------------------------------------
(* Requests.                                                               *)

(* What the CRM holds once it applied the events that have an ok row: of   *)
(* each entity, the last one.                                              *)
Applied(events, rows) ==
    LET taken(e) == {i \in DOMAIN events : /\ events[i].snapshot.entity = e
                                          /\ rows[i].verdict = "ok" /\ rows[i].action # "ignored"}
        last(e)  == events[CHOOSE i \in taken(e) : \A j \in taken(e) : j <= i]
    IN [e \in Entities |->
          IF taken(e) = {} THEN crm[e]
          ELSE [no      |-> last(e).no, payload |-> last(e).snapshot.payload,
                ever    |-> crm[e].ever \cup {events[i].snapshot.payload : i \in taken(e)}]]

(* The CRM ignores only what it holds already. *)
RowsFor(events) ==
    {rows \in [DOMAIN events -> Rows] :
        \A i \in DOMAIN events : rows[i].action = "ignored" =>
            crm[events[i].snapshot.entity].payload = events[i].snapshot.payload}

(* The request of flight f, in _request_with_retry, with no usable answer: *)
(* another try after a pause, or the last one was had.                     *)
TryAgain(f) ==
    /\ flights[f].tries < MaxRequests - 1
    /\ flights' = [flights EXCEPT ![f].tries = @ + 1, ![f].disturbed = TRUE]
    /\ UNCHANGED <<pipe, phase>>
LastTry(f) == flights[f].tries = MaxRequests - 1

(* _validate_crm_http_response: an answer that came over another host is   *)
(* a 400 or a 502, and no reason to send the request again.                *)
ForeignStatus == {"refused", "busy"}

(* Per-item results are required and a row is missing. *)
Malformed(rows) == settings.requireRows /\ \E i \in DOMAIN rows : rows[i].verdict = "absent"

(* classify_batch_sync_response, of a 2xx answer. *)
BatchResults(events, rows) ==
    [i \in DOMAIN events |->
        IF Malformed(rows) THEN Failure(FALSE) ELSE RowResult(settings, events[i].type, rows[i])]

(* A batch: rows in a 2xx answer; rows of which some required one is       *)
(* missing; 429 or 5xx; another 4xx, or an answer that came over another   *)
(* host after the CRM applied it; 404 or 501; no answer, after the CRM     *)
(* applied it or before.                                                   *)
SendBatch(f) ==
    LET events == flights[f].events
        All(result) == [i \in DOMAIN events |-> result]
    IN /\ flights[f].stage = "batch"
       /\ \/ \E rows \in RowsFor(events) :
                /\ ~Malformed(rows)
                /\ crm' = Applied(events, rows)
                /\ Proceed(f, "batch", 0, BatchResults(events, rows))
                /\ UNCHANGED batching
          \/ \E rows \in RowsFor(events) :
                /\ Malformed(rows)
                /\ crm' \in {crm, Applied(events, All(FullRow))}
                /\ IF settings.stopMalformed THEN GiveUp(f, TRUE)
                   ELSE Proceed(f, "batch", 0, BatchResults(events, rows))
                /\ UNCHANGED batching
          \/ /\ TryAgain(f) \/ (LastTry(f) /\ Finalize(f, All(StatusResult("busy"))))
             /\ UNCHANGED <<crm, batching>>
          \/ /\ crm' \in {crm, Applied(events, All(FullRow))}
             /\ \E status \in ForeignStatus : Finalize(f, All(StatusResult(status)))
             /\ UNCHANGED batching
          \/ /\ batching' = FALSE
             /\ Proceed(f, "items", 0, <<>>)
             /\ UNCHANGED crm
          \/ /\ crm' \in {crm, Applied(events, All(FullRow))}
             /\ TryAgain(f) \/ (LastTry(f) /\ GiveUp(f, settings.failFast))
             /\ UNCHANGED batching
       /\ UNCHANGED <<settings, yielded>>

(* send_one_event, for the items of a batch without a batch endpoint and   *)
(* for the retry of single items.                                          *)
SendOne(f) ==
    LET flight == flights[f]
        event  == flight.events[flight.at]
        Next1(result) == Proceed(f, flight.stage, flight.at,
                           IF flight.stage = "items" THEN Append(flight.results, result)
                           ELSE [flight.results EXCEPT ![flight.at] = result])
        Held(row) == Applied(<<event>>, <<row>>)
    IN /\ flight.stage \in {"items", "again"}
       /\ \/ \E rows \in RowsFor(<<event>>) :
                crm' = Held(rows[1]) /\ Next1(RowResult(settings, event.type, rows[1]))
          \/ /\ TryAgain(f) \/ (LastTry(f) /\ Next1(StatusResult("busy")))
             /\ UNCHANGED crm
          \/ /\ crm' \in {crm, Held(FullRow)}
             /\ \E status \in ForeignStatus : Next1(StatusResult(status))
          \/ /\ crm' \in {crm, Held(FullRow)}
             /\ TryAgain(f) \/ (LastTry(f) /\ GiveUp(f, settings.failFast))
       /\ UNCHANGED <<settings, yielded, batching>>

-----------------------------------------------------------------------------

NewPipe ==
    [pending |-> <<>>, retry |-> <<>>, outstanding |-> {}, sent |-> {},
     last |-> [e \in Entities |-> "none"], ids |-> [e \in Entities |-> {}],
     resends |-> [e \in Entities |-> 0]]

Init ==
    /\ settings \in Settings
    /\ phase = "open" /\ yielded = 0 /\ pipe = NewPipe
    /\ flights = [f \in Slots |-> Idle]
    /\ batching = TRUE
    /\ crm = [e \in Entities |-> NoRow]
    /\ reading = NoPage

(* A spider reads a page.  What is read does not depend on the pipeline,   *)
(* so it is enough to read before the first item.                          *)
ReadPage ==
    /\ phase = "open" /\ yielded = 0
    /\ ReadRow \/ \E store \in settings.mapped : OpenPage(store)
    /\ UNCHANGED <<settings, phase, yielded, pipe, flights, batching, crm>>

Step(f) == (WakeUp(f) \/ SendBatch(f) \/ SendOne(f)) /\ UNCHANGED reading
Finish == (FlushRemaining \/ Closed) /\ UNCHANGED reading

Next ==
    \/ ReadPage
    \/ \E n \in settings.catalog : ProcessItem(n)
    \/ \E f \in Slots : Step(f)
    \/ StartClosing \/ Finish

(* Requests end, by an answer or by their timeout, sleeps end, and         *)
(* close_spider loops until it is done.                                    *)
Fairness ==
    /\ \A f \in Slots : WF_vars(Step(f))
    /\ WF_vars(Finish)

Spec == Init /\ [][Next]_vars /\ Fairness
-----------------------------------------------------------------------------
(* Properties.                                                             *)

(* Where an event waits or is in flight: the queues are place 0. *)
EventsAt(place) == IF place = 0 THEN Work(pipe) ELSE flights[place].events
Live == UNION {{place} \X DOMAIN EventsAt(place) : place \in {0} \cup Slots}
EventOf(l) == EventsAt(l[1])[l[2]]

(* The fingerprints kept for deduplication are those of the events that    *)
(* still wait or are in flight, one event each: an event that ends in any  *)
(* way is released, or its product could not be sent again in this run,    *)
(* and one that is put back is not, or it would be sent twice.             *)
OutstandingIsLive ==
    /\ pipe.outstanding = {Fingerprint(EventOf(l)) : l \in Live}
    /\ \A k, l \in Live : Fingerprint(EventOf(k)) = Fingerprint(EventOf(l)) => k = l

(* What the run skips as already sent was applied by the CRM, whatever was *)
(* lost, refused or answered late: the registry and the identity bridge    *)
(* never remember a payload the CRM did not take.                          *)
DeliveredIsApplied ==
    /\ \A pair \in pipe.sent : pair[2] \in crm[pair[1]].ever
    /\ \A e \in Entities : pipe.last[e] # "none" => <<e, pipe.last[e]>> \in pipe.sent

(* A delta that waits or is in flight is about an entity the CRM has: it   *)
(* is built from ids the CRM gave, however much later it is sent.          *)
DeltaKnowsEntity ==
    \A l \in Live : LET event == EventOf(l)
                    IN event.type # "product_found" =>
                         /\ crm[event.snapshot.entity].no > 0
                         /\ RequiredId(event.type) \in pipe.ids[event.snapshot.entity]

(* The CRM goes back to an older snapshot of an entity only by an event    *)
(* that is sent again, after a failed try, from the retry queue or in the  *)
(* retry of single items, or while two flushes are under way at once: the  *)
(* queues themselves keep the order.                                       *)
OlderOnlyByRepeat ==
    [][\A e \in Entities : crm'[e].no < crm[e].no =>
         \E f \in Flying : \E i \in DOMAIN flights[f].events :
            /\ flights[f].events[i].no = crm'[e].no
            /\ \/ flights[f].events[i].attempts > 1
               \/ flights[f].stage = "again" \/ flights[f].disturbed]_vars

(* close_spider ends: every queued event is sent a bounded number of       *)
(* times, whatever the CRM answers.                                        *)
SyncEnds == (phase = "closing") ~> (phase \in {"closed", "aborted"})
=============================================================================
