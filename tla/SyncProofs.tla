----------------------------- MODULE SyncProofs -----------------------------
(***************************************************************************)
(* What the sync pipeline remembers of the CRM is true, whatever the CRM   *)
(* answers, loses or answers late, and the order of what it sends is lost  *)
(* by repeats and overlaps only, for any number of products, flushes and   *)
(* settings; and what the payload says of a product is all that the rows   *)
(* of its page say, for any rules, rows and categories.                    *)
(***************************************************************************)
EXTENDS SyncDelivery, FiniteSetTheorems, SequenceTheorems, WellFoundedInduction, TLAPS

Ids == {"listing", "product"}
Payloads == {n.payload : n \in Snapshots}
Types == {"product_found"} \cup Deltas
Keys == {IdempotencyKey(s, n.entity, n.payload, t) : s \in Settings, n \in Snapshots, t \in Types}

Event == [snapshot : Snapshots, type : Types, key : Keys, no : Nat \ {0}, attempts : Nat,
          requeued : BOOLEAN]

Result == [success : BOOLEAN, retryable : BOOLEAN, ids : SUBSET Ids,
           signal : {"none", "missing_ids", "ambiguous_action"}]

Pipe == [pending : Seq(Event), retry : Seq(Event), outstanding : SUBSET (Entities \X Payloads),
         sent : SUBSET (Entities \X Payloads), last : [Entities -> Payloads \cup {"none"}],
         ids : [Entities -> SUBSET Ids], resends : [Entities -> Nat]]

Flight == [stage : {"none", "nap", "batch", "items", "again"}, events : Seq(Event),
           results : Seq(Result), at : Nat, tries : Nat, disturbed : BOOLEAN]

Crm == [Entities -> [no : Nat, payload : Payloads \cup {"none"}, ever : SUBSET Payloads]]

-----------------------------------------------------------------------------
(* c is what the CRM holds, ids what a pipeline knows of the entities.     *)

CrmOK(c) ==
    /\ c \in Crm
    /\ \A e \in Entities : /\ c[e].no = 0 => c[e].payload = "none" /\ c[e].ever = {}
                           /\ c[e].no > 0 => c[e].payload \in c[e].ever

(* The CRM forgets nothing. *)
Grows(c, d) ==
    \A e \in Entities : c[e].ever \subseteq d[e].ever /\ (c[e].no > 0 => d[e].no > 0)

Learns(ids, more) == \A e \in Entities : ids[e] \subseteq more[e]

Aware(ids, event) ==
    event.type # "product_found" => RequiredId(event.type) \in ids[event.snapshot.entity]

AllAware(ids, events) == \A i \in DOMAIN events : Aware(ids, events[i])

Taken(c, event) == event.snapshot.payload \in c[event.snapshot.entity].ever

(* The answers so far: a success is about an event that the CRM took. *)
Honest(c, events, results) ==
    \A i \in DOMAIN results : i \in DOMAIN events /\ (results[i].success => Taken(c, events[i]))

(* A pipeline that remembers nothing the CRM did not take. *)
Sound(p, c) ==
    /\ p \in Pipe
    /\ \A pair \in p.sent : pair[2] \in c[pair[1]].ever
    /\ \A e \in Entities : p.last[e] # "none" => <<e, p.last[e]>> \in p.sent
    /\ \A e \in Entities : p.ids[e] # {} => c[e].no > 0
    /\ AllAware(p.ids, p.pending) /\ AllAware(p.ids, p.retry)

(* A flush under way. *)
Carrying(flight, ids, c) ==
    /\ flight \in Flight
    /\ AllAware(ids, flight.events)
    /\ Honest(c, flight.events, flight.results)
    /\ flight.stage \in {"batch", "items", "again"} => flight.events # <<>>
    /\ flight.stage = "items" => flight.at = Len(flight.results) + 1 /\ flight.at <= Len(flight.events)
    /\ flight.stage = "again" => flight.at \in DOMAIN flight.events
                                 /\ Len(flight.results) = Len(flight.events)

-----------------------------------------------------------------------------
(* Events.                                                                 *)

LEMMA EventIsTyped ==
    ASSUME NEW n \in Snapshots, NEW s \in Settings, NEW ids \in SUBSET Ids,
           NEW requested \in {"none", "product_found"}, NEW no \in Nat \ {0}
    PROVE  LET event == Numbered(EventFor(s, n, ids, requested), no)
           IN /\ event \in Event /\ event.snapshot = n
              /\ event.type # "product_found" => RequiredId(event.type) \in ids
<1> DEFINE chosen == ChosenType(s, n, ids, requested)
           type   == IF Downgraded(s, chosen, ids) THEN "product_found" ELSE chosen
           key    == IdempotencyKey(s, n.entity, n.payload, type)
<1>1. chosen \in Types /\ (chosen # "product_found" => RequiredId(chosen) \in ids)
  BY DEF ChosenType, CanEmit, Inferred, Types, Deltas
<1>2. type \in Types /\ (type # "product_found" => RequiredId(type) \in ids)
  BY <1>1 DEF Types
<1>3. Numbered(EventFor(s, n, ids, requested), no)
        = [snapshot |-> n, type |-> type, key |-> key, no |-> no, attempts |-> 0, requeued |-> FALSE]
  BY DEF Numbered, EventFor
<1> HIDE DEF chosen, type
<1>4. key \in Keys
  BY <1>2 DEF Keys
<1> HIDE DEF key
<1> QED
  BY <1>2, <1>3, <1>4 DEF Event

LEMMA EventParts ==
    ASSUME NEW event \in Event
    PROVE  /\ event.snapshot \in Snapshots /\ event.snapshot.entity \in Entities
           /\ event.snapshot.payload \in Payloads /\ event.snapshot.payload # "none"
           /\ Fingerprint(event) \in Entities \X Payloads
           /\ event.no \in Nat /\ event.no > 0 /\ event.type \in Types
<1>1. event.snapshot \in Snapshots /\ event.no \in Nat \ {0} /\ event.type \in Types
  BY DEF Event
<1>2. /\ event.snapshot.entity \in Entities /\ event.snapshot.payload \in Payloads
      /\ event.snapshot.payload # "none"
  BY <1>1, SyncAssumption DEF Payloads
<1> QED
  BY <1>1, <1>2 DEF Fingerprint

LEMMA EventUpdated ==
    ASSUME NEW event \in Event
    PROVE  LET tried == [event EXCEPT !.attempts = @ + 1]
               again == [event EXCEPT !.requeued = TRUE]
           IN /\ tried \in Event /\ tried.snapshot = event.snapshot /\ tried.type = event.type
              /\ again \in Event /\ again.snapshot = event.snapshot /\ again.type = event.type
<1>1. [event EXCEPT !.requeued = TRUE] \in Event
  BY DEF Event
<1>2. event.attempts + 1 \in Nat
  BY DEF Event
<1>3. [event EXCEPT !.attempts = event.attempts + 1] \in Event
  BY <1>2 DEF Event
<1> QED
  BY <1>1, <1>3 DEF Event

(* What is true of the CRM stays true. *)
LEMMA SoundStays ==
    ASSUME NEW p, NEW c, NEW d, Sound(p, c), Grows(c, d)
    PROVE  Sound(p, d)
<1>1. p \in Pipe
  BY DEF Sound
<1>2. \A pair \in p.sent : pair[1] \in Entities
  BY <1>1 DEF Pipe
<1> QED
  BY <1>2 DEF Sound, Grows

LEMMA CarryingStays ==
    ASSUME NEW flight, NEW ids, NEW more, NEW c, NEW d,
           Carrying(flight, ids, c), Learns(ids, more), Grows(c, d)
    PROVE  Carrying(flight, more, d)
<1>1. \A i \in DOMAIN flight.events : flight.events[i] \in Event
  BY DEF Carrying, Flight
<1>2. \A i \in DOMAIN flight.events : flight.events[i].snapshot.entity \in Entities
  BY <1>1, EventParts
<1>3. AllAware(more, flight.events)
  BY <1>2 DEF Carrying, AllAware, Aware, Learns
<1>4. Honest(d, flight.events, flight.results)
  BY <1>2 DEF Carrying, Honest, Taken, Grows
<1> QED
  BY <1>3, <1>4 DEF Carrying

(* A nonempty set of natural numbers has a least element: there is no      *)
(* infinite descent from 0..n to 0..m among the finite sets.               *)
LEMMA LeastNumber == \A S \in SUBSET Nat : S # {} => \E m \in S : \A k \in S : m <= k
<1> SUFFICES ASSUME NEW S \in SUBSET Nat, S # {} PROVE \E m \in S : \A k \in S : m <= k
  OBVIOUS
<1> DEFINE R == StrictSubsetOrdering(Nat)
           F == FiniteSubsetsOf(Nat)
           T == {0..n : n \in S}
<1>1. T \subseteq F /\ T # {}
  <2>1. \A n \in Nat : 0..n \subseteq Nat /\ IsFiniteSet(0..n)
    BY FS_Interval
  <2> QED
    BY <2>1 DEF FiniteSubsetsOf
<1>2. PICK x \in T : \A y \in T : ~(<<y, x>> \in R)
  <2>1. IsWellFoundedOn(R, F)
    BY FS_StrictSubsetOrderingWellFounded
  <2> HIDE DEF R, F, T
  <2> QED
    BY <2>1, <1>1, WFMin
<1>3. PICK n \in S : x = 0..n
  BY <1>2
<1>4. ASSUME NEW k \in S, k < n PROVE FALSE
  <2>1. 0..k \in T
    OBVIOUS
  <2>2. 0..k \subseteq 0..n /\ n \in 0..n /\ n \notin 0..k
    BY <1>4
  <2>3. <<0..k, 0..n>> \in R
    BY <2>2 DEF StrictSubsetOrdering
  <2> QED
    BY <2>1, <2>3, <1>2, <1>3
<1> QED
  BY <1>4

(* So a nonempty set of places in a sequence has a last one. *)
LEMMA Greatest ==
    ASSUME NEW n \in Nat, NEW S \in SUBSET (1..n), S # {}
    PROVE  \E m \in S : \A k \in S : k <= m
<1> DEFINE Above == {b \in Nat : \A k \in S : k <= b}
<1>1. n \in Above
  OBVIOUS
<1>2. PICK m \in Above : \A b \in Above : m <= b
  BY <1>1, LeastNumber
<1> PICK one \in S : TRUE
  OBVIOUS
<1>3. m \in S
  <2> SUFFICES ASSUME m \notin S PROVE FALSE
    OBVIOUS
  <2>1. \A k \in S : k \in Nat /\ k > 0 /\ k <= m /\ k # m
    BY <1>2
  <2>2. one > 0 /\ one <= m /\ m \in Nat /\ m > 0
    BY <2>1, <1>2
  <2>3. m - 1 \in Above
    BY <2>1, <2>2, <1>2
  <2> QED
    BY <2>3, <1>2
<1> QED
  BY <1>2, <1>3

(* The CRM applied a request. *)
LEMMA AppliedGrows ==
    ASSUME CrmOK(crm), NEW events \in Seq(Event), NEW rows
    PROVE  /\ CrmOK(Applied(events, rows)) /\ Grows(crm, Applied(events, rows))
           /\ \A i \in DOMAIN events :
                rows[i].verdict = "ok" /\ rows[i].action # "ignored"
                  => Taken(Applied(events, rows), events[i])
           /\ \A i \in DOMAIN events :
                rows[i].verdict = "ok" /\ rows[i].action # "ignored"
                  => Applied(events, rows)[events[i].snapshot.entity].no > 0
           /\ \A e \in Entities : \/ Applied(events, rows)[e].no = crm[e].no
                                 \/ \E i \in DOMAIN events : Applied(events, rows)[e].no = events[i].no
<1> DEFINE taken(e) == {i \in DOMAIN events : /\ events[i].snapshot.entity = e
                                              /\ rows[i].verdict = "ok" /\ rows[i].action # "ignored"}
           paid(e) == {events[i].snapshot.payload : i \in taken(e)}
           new == Applied(events, rows)
<1>1. \A i \in DOMAIN events : events[i] \in Event
  OBVIOUS
<1>2. \A i \in DOMAIN events :
        /\ events[i].snapshot.entity \in Entities /\ events[i].snapshot.payload \in Payloads
        /\ events[i].no \in Nat /\ events[i].no > 0
  BY <1>1, EventParts, SMTT(30)
<1>3. ASSUME NEW e \in Entities, taken(e) = {}
      PROVE  new[e] = crm[e]
  BY <1>3 DEF Applied
<1>4. ASSUME NEW e \in Entities, taken(e) # {}
      PROVE  \E last \in taken(e) :
               new[e] = [no |-> events[last].no, payload |-> events[last].snapshot.payload,
                         ever |-> crm[e].ever \cup paid(e)]
  <2> DEFINE last == CHOOSE i \in taken(e) : \A j \in taken(e) : j <= i
  <2>1. \E i \in taken(e) : \A j \in taken(e) : j <= i
    <3>1. taken(e) \in SUBSET (1..Len(events)) /\ Len(events) \in Nat
      OBVIOUS
    <3> HIDE DEF taken
    <3> QED
      BY <1>4, <3>1, Greatest
  <2>2. last \in taken(e)
    <3> HIDE DEF taken
    <3> QED
      BY <2>1, SMTT(30)
  <2>3. new[e] = [no |-> events[last].no, payload |-> events[last].snapshot.payload,
                  ever |-> crm[e].ever \cup paid(e)]
    BY <1>4 DEF Applied
  <2> HIDE DEF last, new, taken, paid
  <2> QED
    BY <2>2, <2>3
<1>5. new = [e \in Entities |-> new[e]]
  BY DEF Applied
<1> HIDE DEF new
<1>6. ASSUME NEW e \in Entities
      PROVE  crm[e] \in [no : Nat, payload : Payloads \cup {"none"}, ever : SUBSET Payloads]
  BY DEF CrmOK, Crm
<1>7. ASSUME NEW e \in Entities
      PROVE  /\ new[e] \in [no : Nat, payload : Payloads \cup {"none"}, ever : SUBSET Payloads]
             /\ new[e].no = 0 => new[e].payload = "none" /\ new[e].ever = {}
             /\ new[e].no > 0 => new[e].payload \in new[e].ever
             /\ crm[e].ever \subseteq new[e].ever /\ (crm[e].no > 0 => new[e].no > 0)
             /\ paid(e) \subseteq new[e].ever
             /\ taken(e) # {} => new[e].no > 0
             /\ new[e].no = crm[e].no \/ \E i \in DOMAIN events : new[e].no = events[i].no
  <2>1. CASE taken(e) = {}
    BY <1>3, <1>6, <2>1 DEF CrmOK
  <2>2. CASE taken(e) # {}
    <3>1. PICK last \in taken(e) :
               new[e] = [no |-> events[last].no, payload |-> events[last].snapshot.payload,
                         ever |-> crm[e].ever \cup paid(e)]
      BY <1>4, <2>2
    <3>2. /\ events[last].no \in Nat /\ events[last].no > 0
          /\ events[last].snapshot.payload \in Payloads
          /\ events[last].snapshot.payload \in paid(e)
      BY <1>2
    <3>3. paid(e) \subseteq Payloads /\ last \in DOMAIN events
      BY <1>2
    <3> HIDE DEF paid, taken
    <3> QED
      BY <1>6, <3>1, <3>2, <3>3
  <2> QED
    BY <2>1, <2>2
<1>8. \A i \in DOMAIN events :
        rows[i].verdict = "ok" /\ rows[i].action # "ignored"
          => /\ i \in taken(events[i].snapshot.entity)
             /\ events[i].snapshot.payload \in paid(events[i].snapshot.entity)
  OBVIOUS
<1> HIDE DEF taken, paid
<1>9. CrmOK(new) /\ Grows(crm, new)
  BY <1>5, <1>7 DEF CrmOK, Crm, Grows
<1>10. \A i \in DOMAIN events :
        rows[i].verdict = "ok" /\ rows[i].action # "ignored"
          => Taken(new, events[i]) /\ new[events[i].snapshot.entity].no > 0
  BY <1>2, <1>7, <1>8 DEF Taken
<1> QED
  BY <1>7, <1>9, <1>10 DEF new

-----------------------------------------------------------------------------
(* Pipes.                                                                  *)

LEMMA AwareAppend ==
    ASSUME NEW ids, NEW q \in Seq(Event), NEW event \in Event,
           AllAware(ids, q), Aware(ids, event)
    PROVE  Append(q, event) \in Seq(Event) /\ AllAware(ids, Append(q, event))
BY DEF AllAware

LEMMA AddEventSound ==
    ASSUME NEW p, NEW c, NEW event \in Event, Sound(p, c), Aware(p.ids, event)
    PROVE  Sound(AddEvent(p, event), c) /\ AddEvent(p, event).ids = p.ids
<1> DEFINE q == [p EXCEPT !.outstanding = @ \cup {Fingerprint(event)}, !.pending = Append(@, event)]
<1>1. p \in Pipe
  BY DEF Sound
<1>2. Append(p.pending, event) \in Seq(Event) /\ AllAware(p.ids, Append(p.pending, event))
  BY <1>1, AwareAppend DEF Sound, Pipe
<1>3. Fingerprint(event) \in Entities \X Payloads
  BY EventParts
<1>4. /\ q \in Pipe /\ q.pending = Append(p.pending, event) /\ q.retry = p.retry
      /\ q.sent = p.sent /\ q.last = p.last /\ q.ids = p.ids
  BY <1>1, <1>2, <1>3 DEF Pipe
<1>5. Sound(q, c)
  BY <1>2, <1>4 DEF Sound
<1> QED
  BY <1>4, <1>5 DEF AddEvent

LEMMA ReleaseSound ==
    ASSUME NEW p, NEW c, NEW events, Sound(p, c)
    PROVE  Sound(Release(p, events), c) /\ Release(p, events).ids = p.ids
<1> DEFINE q == Release(p, events)
<1>1. p \in Pipe
  BY DEF Sound
<1>2. /\ q \in Pipe /\ q.pending = p.pending /\ q.retry = p.retry
      /\ q.sent = p.sent /\ q.last = p.last /\ q.ids = p.ids
  BY <1>1 DEF Pipe, Release
<1> HIDE DEF q
<1>3. Sound(q, c)
  BY <1>2 DEF Sound
<1> QED
  BY <1>2, <1>3 DEF q

LEMMA RequeueSound ==
    ASSUME NEW p, NEW c, NEW event \in Event, Sound(p, c), Aware(p.ids, event)
    PROVE  Sound(Requeue(p, event), c) /\ Requeue(p, event).ids = p.ids
<1> DEFINE again == [event EXCEPT !.requeued = TRUE]
           q == [p EXCEPT !.retry = Append(@, again)]
<1>1. p \in Pipe
  BY DEF Sound
<1>2. again \in Event /\ Aware(p.ids, again)
  BY EventUpdated DEF Aware
<1> HIDE DEF again
<1>3. Append(p.retry, again) \in Seq(Event) /\ AllAware(p.ids, Append(p.retry, again))
  BY <1>1, <1>2, AwareAppend DEF Sound, Pipe
<1>4. /\ q \in Pipe /\ q.retry = Append(p.retry, again) /\ q.pending = p.pending
      /\ q.sent = p.sent /\ q.last = p.last /\ q.ids = p.ids
  BY <1>1, <1>3 DEF Pipe
<1>5. Requeue(p, event) = q
  BY DEF Requeue, again
<1> HIDE DEF q
<1>6. Sound(q, c)
  BY <1>3, <1>4 DEF Sound
<1> QED
  BY <1>4, <1>5, <1>6

(* An entity of which the pipeline is told more ids. *)
LEMMA AwareOfMore ==
    ASSUME NEW ids, NEW more, NEW q \in Seq(Event), AllAware(ids, q), Learns(ids, more)
    PROVE  AllAware(more, q)
<1>1. \A i \in DOMAIN q : q[i] \in Event
  OBVIOUS
<1>2. \A i \in DOMAIN q : q[i].snapshot.entity \in Entities
  BY <1>1, EventParts
<1> QED
  BY <1>2 DEF AllAware, Aware, Learns

LEMMA RememberSound ==
    ASSUME NEW p, NEW c, NEW event \in Event, NEW ids \in SUBSET Ids, Sound(p, c),
           Taken(c, event), c[event.snapshot.entity].no > 0
    PROVE  Sound(Remember(p, event, ids), c) /\ Learns(p.ids, Remember(p, event, ids).ids)
<1> DEFINE q == Remember(p, event, ids)
           e == event.snapshot.entity
           payload == event.snapshot.payload
<1>1. p \in Pipe
  BY DEF Sound
<1>2. e \in Entities /\ payload \in Payloads /\ Fingerprint(event) = <<e, payload>>
  BY EventParts DEF Fingerprint
<1> HIDE DEF e, payload
<1>3. q = [p EXCEPT !.sent = @ \cup {<<e, payload>>}, !.last[e] = payload, !.ids[e] = @ \cup ids]
  BY <1>2 DEF Remember, e, payload
<1>4. /\ q.sent = p.sent \cup {<<e, payload>>} /\ q.last = [p.last EXCEPT ![e] = payload]
      /\ q.ids = [p.ids EXCEPT ![e] = @ \cup ids] /\ q.pending = p.pending /\ q.retry = p.retry
      /\ q.outstanding = p.outstanding /\ q.resends = p.resends
  BY <1>1, <1>3 DEF Pipe
<1>5. q \in Pipe
  <2>1. /\ p.sent \cup {<<e, payload>>} \in SUBSET (Entities \X Payloads)
        /\ [p.last EXCEPT ![e] = payload] \in [Entities -> Payloads \cup {"none"}]
        /\ [p.ids EXCEPT ![e] = @ \cup ids] \in [Entities -> SUBSET Ids]
    BY <1>1, <1>2 DEF Pipe
  <2> QED
    BY <1>1, <1>3, <2>1 DEF Pipe
<1>6. c[e].no > 0 /\ payload \in c[e].ever
  BY DEF Taken, e, payload
<1>7. Learns(p.ids, q.ids)
  BY <1>1, <1>4 DEF Learns, Pipe
<1>8. AllAware(q.ids, q.pending) /\ AllAware(q.ids, q.retry)
  <2>1. p.pending \in Seq(Event) /\ p.retry \in Seq(Event)
    BY <1>1 DEF Pipe
  <2> QED
    BY <2>1, <1>4, <1>7, AwareOfMore DEF Sound
<1>9. \A pair \in q.sent : pair[2] \in c[pair[1]].ever
  BY <1>4, <1>6 DEF Sound
<1>10. \A x \in Entities : q.last[x] # "none" => <<x, q.last[x]>> \in q.sent
  BY <1>1, <1>4 DEF Sound, Pipe
<1>11. \A x \in Entities : q.ids[x] # {} => c[x].no > 0
  BY <1>1, <1>4, <1>6 DEF Sound, Pipe
<1> HIDE DEF q
<1>12. Sound(q, c)
  BY <1>5, <1>8, <1>9, <1>10, <1>11 DEF Sound
<1> QED
  BY <1>7, <1>12 DEF q

LEMMA ResendSound ==
    ASSUME settings \in Settings, NEW p, NEW c, NEW event \in Event, Sound(p, c)
    PROVE  Sound(Resend(p, event), c) /\ Resend(p, event).ids = p.ids
<1> DEFINE e == event.snapshot.entity
           again == Numbered(EventFor(settings, event.snapshot, p.ids[e], "product_found"), event.no)
           q == [p EXCEPT !.resends[e] = @ + 1]
<1>1. p \in Pipe
  BY DEF Sound
<1>2. e \in Entities /\ event.snapshot \in Snapshots /\ event.no \in Nat \ {0}
  BY EventParts
<1>3. p.ids[e] \in SUBSET Ids
  BY <1>1, <1>2 DEF Pipe
<1> HIDE DEF e
<1>4. again \in Event /\ again.snapshot = event.snapshot
      /\ (again.type # "product_found" => RequiredId(again.type) \in p.ids[e])
  BY <1>2, <1>3, EventIsTyped
<1> HIDE DEF again
<1>5. Aware(p.ids, again)
  BY <1>4 DEF Aware, e
<1>6. /\ q.pending = p.pending /\ q.retry = p.retry /\ q.outstanding = p.outstanding
      /\ q.sent = p.sent /\ q.last = p.last /\ q.ids = p.ids
      /\ q.resends = [p.resends EXCEPT ![e] = @ + 1]
  BY <1>1 DEF Pipe
<1>7. q \in Pipe
  <2>1. [p.resends EXCEPT ![e] = @ + 1] \in [Entities -> Nat]
    <3>1. p.resends \in [Entities -> Nat] /\ p.resends[e] + 1 \in Nat
      BY <1>1, <1>2 DEF Pipe
    <3> QED
      BY <3>1
  <2>2. q = [p EXCEPT !.resends = [p.resends EXCEPT ![e] = @ + 1]]
    BY <1>1 DEF Pipe
  <2> QED
    BY <1>1, <2>1, <2>2 DEF Pipe
<1> HIDE DEF q
<1>8. Sound(q, c) /\ q.ids = p.ids
  BY <1>6, <1>7 DEF Sound
<1>9. Sound(AddEvent(q, again), c) /\ AddEvent(q, again).ids = p.ids
  BY <1>4, <1>5, <1>8, AddEventSound
<1>10. Resend(p, event) \in {p, AddEvent(q, again)}
  BY DEF Resend, again, q, e
<1> QED
  BY <1>9, <1>10

(* What the pipeline does with one answer. *)
LEMMA ItemApplied ==
    ASSUME settings \in Settings, NEW p, NEW c, NEW event \in Event, NEW result \in Result,
           CrmOK(c), Sound(p, c), Aware(p.ids, event), result.success => Taken(c, event)
    PROVE  /\ Sound(ApplyItemResult(p, event, result), c)
           /\ Learns(p.ids, ApplyItemResult(p, event, result).ids)
<1> DEFINE merged == Merged(p, event, result)
           e == event.snapshot.entity
<1>1. p \in Pipe
  BY DEF Sound
<1>2. e \in Entities
  BY EventParts
<1>3. Learns(p.ids, p.ids)
  BY DEF Learns
<1>4. CASE ~result.success
  <2>1. ApplyItemResult(p, event, result) = ApplyFailure(p, event, result)
    BY <1>4 DEF ApplyItemResult
  <2>2. ApplyFailure(p, event, result) \in {Requeue(p, event), Release(p, {event})}
    BY DEF ApplyFailure
  <2> QED
    BY <2>1, <2>2, <1>3, RequeueSound, ReleaseSound
<1>5. CASE result.success /\ merged.settled
  <2>1. ApplyItemResult(p, event, result) = Release(Remember(p, event, merged.ids), {event})
    BY <1>5 DEF ApplyItemResult
  <2>2. merged.ids \in SUBSET Ids
    <3>1. p.ids[e] \in SUBSET Ids /\ result.ids \in SUBSET Ids
      BY <1>1, <1>2 DEF Pipe, Result
    <3>2. ReconciledIds(settings, result, p.ids[e]) \in SUBSET Ids
      BY <3>1 DEF ReconciledIds
    <3> QED
      BY <3>1, <3>2 DEF Merged
  <2> HIDE DEF merged
  <2>3. Taken(c, event) /\ c[e].no > 0
    <3>1. Taken(c, event)
      BY <1>5
    <3>2. c[e].no \in Nat /\ c[e].ever # {}
      BY <1>2, <3>1 DEF Taken, CrmOK, Crm
    <3> QED
      BY <1>2, <3>1, <3>2 DEF CrmOK
  <2>4. /\ Sound(Remember(p, event, merged.ids), c)
        /\ Learns(p.ids, Remember(p, event, merged.ids).ids)
    BY <2>2, <2>3, RememberSound
  <2> QED
    BY <2>1, <2>4, ReleaseSound
<1>6. CASE result.success /\ ~merged.settled
  <2>1. ApplyItemResult(p, event, result) = Release(Resend(p, event), {event})
    BY <1>6 DEF ApplyItemResult
  <2>2. Sound(Resend(p, event), c) /\ Resend(p, event).ids = p.ids
    BY ResendSound
  <2>3. /\ Sound(Release(Resend(p, event), {event}), c)
        /\ Release(Resend(p, event), {event}).ids = p.ids
    BY <2>2, ReleaseSound
  <2> QED
    BY <2>1, <1>3, <2>3
<1> QED
  BY <1>4, <1>5, <1>6

LEMMA CountingUp ==
    ASSUME NEW S \in SUBSET Nat, 0 \in S, \A n \in S : n + 1 \in S
    PROVE  S = Nat
<1> SUFFICES ASSUME Nat \ S # {} PROVE FALSE
  OBVIOUS
<1>1. PICK m \in Nat \ S : \A k \in Nat \ S : m <= k
  BY LeastNumber
<1>2. m - 1 \in Nat /\ m - 1 \notin Nat \ S
  BY <1>1
<1>3. m - 1 + 1 \in S
  BY <1>2
<1> QED
  BY <1>1, <1>3

(* The pipelines between the answers of a batch: the first is p, and each  *)
(* of the others comes from the one before it and from one answer.         *)
Results(events, results, after, i) == ApplyItemResult(after[i - 1], events[i], results[i])

InTurn(p, events, results, after) ==
    /\ ApplyResults(p, events, results) = after[Len(events)]
    /\ after[0] = p
    /\ \A i \in 1..Len(events) : after[i] = Results(events, results, after, i)

LEMMA AnswersInTurn ==
    ASSUME NEW p, NEW events \in Seq(Event), NEW results
    PROVE  \E after : InTurn(p, events, results, after)
<1> DEFINE N == Len(events)
           F(g, i) == IF i = 0 THEN p ELSE Results(events, results, g, i)
           Around(g) == [i \in 0..N |-> F(g, i)]
           UpTo(k) == \E g : g = [i \in 0..N |-> g[i]] /\ \A i \in 0..N : i <= k => g[i] = F(g, i)
           All == {k \in Nat : UpTo(k)}
<1>1. N \in Nat
  OBVIOUS
<1> HIDE DEF N
<1>2. UpTo(0)
  <2>1. \A i \in 0..N : i <= 0 => [j \in 0..N |-> p][i] = F([j \in 0..N |-> p], i)
    BY <1>1
  <2> QED
    BY <2>1
<1>3. ASSUME NEW k \in Nat, UpTo(k) PROVE UpTo(k + 1)
  <2>1. PICK g : g = [i \in 0..N |-> g[i]] /\ \A i \in 0..N : i <= k => g[i] = F(g, i)
    BY <1>3
  <2> DEFINE h == [i \in 0..N |-> IF i = k + 1 THEN F(g, i) ELSE g[i]]
  <2>2. ASSUME NEW i \in 0..N, i <= k + 1 PROVE h[i] = F(h, i)
    <3>1. i # 0 => i - 1 \in 0..N /\ i - 1 # k + 1 /\ h[i - 1] = g[i - 1]
      BY <1>1, <2>2
    <3>2. F(h, i) = F(g, i)
      BY <3>1 DEF Results
    <3>3. i # k + 1 => i <= k
      BY <1>1, <2>2
    <3> HIDE DEF F
    <3> QED
      BY <2>1, <3>2, <3>3
  <2> QED
    BY <2>2
<1> HIDE DEF UpTo
<1>4. All = Nat
  <2>1. All \in SUBSET Nat /\ 0 \in All /\ \A k \in All : k + 1 \in All
    BY <1>2, <1>3
  <2> HIDE DEF All
  <2> QED
    BY <2>1, CountingUp
<1>5. UpTo(N)
  BY <1>1, <1>4
<1>6. PICK f : f = [i \in 0..N |-> f[i]] /\ \A i \in 0..N : i <= N => f[i] = F(f, i)
  BY <1>5 DEF UpTo
<1>7. f = Around(f)
  <2> HIDE DEF F
  <2> QED
    BY <1>1, <1>6
<1> DEFINE after == CHOOSE g : g = Around(g)
<1>8. ApplyResults(p, events, results) = after[Len(events)]
  BY DEF ApplyResults, Results, N
<1>9. after = Around(after)
  <2> HIDE DEF Around
  <2> QED
    BY <1>7
<1> HIDE DEF after
<1>10. after[0] = p /\ \A i \in 1..N : after[i] = Results(events, results, after, i)
  BY <1>1, <1>9
<1> QED
  BY <1>8, <1>10 DEF N, InTurn

LEMMA AllApplied ==
    ASSUME settings \in Settings, NEW p, NEW c, NEW events \in Seq(Event),
           NEW results \in [DOMAIN events -> Result],
           CrmOK(c), Sound(p, c), AllAware(p.ids, events), Honest(c, events, results)
    PROVE  /\ Sound(ApplyResults(p, events, results), c)
           /\ Learns(p.ids, ApplyResults(p, events, results).ids)
<1>a. PICK after : InTurn(p, events, results, after)
  BY AnswersInTurn
<1>1. /\ ApplyResults(p, events, results) = after[Len(events)]
      /\ after[0] = p
      /\ \A i \in 1..Len(events) : after[i] = Results(events, results, after, i)
  BY <1>a DEF InTurn
<1> DEFINE Good(q) == Sound(q, c) /\ Learns(p.ids, q.ids)
           S == {n \in Nat : n <= Len(events) => Good(after[n])}
<1>2. 0 \in S
  BY <1>1 DEF Learns
<1>3. ASSUME NEW n \in S PROVE n + 1 \in S
  <2> SUFFICES ASSUME n + 1 <= Len(events) PROVE Good(after[n + 1])
    OBVIOUS
  <2>1. n + 1 \in 1..Len(events) /\ n \in Nat /\ n + 1 - 1 = n /\ DOMAIN events = 1..Len(events)
    OBVIOUS
  <2>2. Sound(after[n], c) /\ Learns(p.ids, after[n].ids)
    BY <2>1
  <2>3. after[n + 1] = ApplyItemResult(after[n], events[n + 1], results[n + 1])
    BY <1>1, <2>1 DEF Results
  <2>4. events[n + 1] \in Event /\ results[n + 1] \in Result
    BY <2>1
  <2>5. Aware(after[n].ids, events[n + 1])
    BY <2>1, <2>2, AwareOfMore DEF AllAware
  <2>6. results[n + 1].success => Taken(c, events[n + 1])
    BY <2>1 DEF Honest
  <2>7. /\ Sound(after[n + 1], c) /\ Learns(after[n].ids, after[n + 1].ids)
    BY <2>2, <2>3, <2>4, <2>5, <2>6, ItemApplied
  <2> QED
    BY <2>2, <2>7 DEF Learns
<1>4. S = Nat
  <2>1. S \in SUBSET Nat /\ \A n \in S : n + 1 \in S
    BY <1>3
  <2> HIDE DEF S
  <2> QED
    BY <1>2, <2>1, CountingUp
<1>5. Len(events) \in Nat /\ Len(events) <= Len(events)
  OBVIOUS
<1>6. Good(after[Len(events)])
  <2> HIDE DEF Good
  <2>1. Len(events) \in S
    BY <1>4, <1>5
  <2> QED
    BY <1>5, <2>1
<1> QED
  BY <1>1, <1>6

-----------------------------------------------------------------------------
(* Fingerprints.  Each one that is outstanding belongs to one event, in    *)
(* one of the queues or in one flight: Tidy(p, rest) says so of a pipeline *)
(* when rest are the fingerprints in the air.                              *)

Prints(q) == {Fingerprint(q[i]) : i \in DOMAIN q}
Distinct(q) == \A i, j \in DOMAIN q : Fingerprint(q[i]) = Fingerprint(q[j]) => i = j

Tidy(p, rest) ==
    /\ p.outstanding = Prints(p.pending) \cup Prints(p.retry) \cup rest
    /\ Distinct(p.pending) /\ Distinct(p.retry)
    /\ Prints(p.pending) \cap Prints(p.retry) = {}
    /\ (Prints(p.pending) \cup Prints(p.retry)) \cap rest = {}

Air(F) == UNION {Prints(F[f].events) : f \in Slots}
Others(F, f) == UNION {Prints(F[g].events) : g \in Slots \ {f}}

LiveIn(p, F) ==
    /\ Tidy(p, Air(F))
    /\ \A f \in Slots : Distinct(F[f].events)
    /\ \A f, g \in Slots : f # g => Prints(F[f].events) \cap Prints(F[g].events) = {}
    /\ \A f \in Slots : F[f].stage \in {"none", "nap"} => F[f].events = <<>>

LEMMA PrintsAppend ==
    ASSUME NEW q \in Seq(Event), NEW event
    PROVE  /\ Prints(Append(q, event)) = Prints(q) \cup {Fingerprint(event)}
           /\ Distinct(q) /\ Fingerprint(event) \notin Prints(q) => Distinct(Append(q, event))
<1> DEFINE a == Append(q, event)
           n == Len(q)
<1>1. /\ n \in Nat /\ DOMAIN q = 1..n /\ DOMAIN a = 1..(n + 1)
      /\ \A i \in 1..n : a[i] = q[i]
      /\ a[n + 1] = event
  OBVIOUS
<1> HIDE DEF a, n
<1>2. 1..(n + 1) = 1..n \cup {n + 1}
  BY <1>1
<1>3. Prints(a) = Prints(q) \cup {Fingerprint(event)}
  BY <1>1, <1>2 DEF Prints
<1>4. Distinct(q) /\ Fingerprint(event) \notin Prints(q) => Distinct(a)
  BY <1>1, <1>2 DEF Prints, Distinct
<1> QED
  BY <1>3, <1>4 DEF a

LEMMA PrintsConcat ==
    ASSUME NEW q \in Seq(Event), NEW r \in Seq(Event)
    PROVE  /\ Prints(q \o r) = Prints(q) \cup Prints(r)
           /\ Distinct(q) /\ Distinct(r) /\ Prints(q) \cap Prints(r) = {} => Distinct(q \o r)
<1> DEFINE a == q \o r
           n == Len(q)
           m == Len(r)
<1>1. /\ n \in Nat /\ m \in Nat /\ DOMAIN q = 1..n /\ DOMAIN r = 1..m /\ DOMAIN a = 1..(n + m)
      /\ \A i \in 1..n : a[i] = q[i]
      /\ \A i \in 1..m : a[n + i] = r[i]
  OBVIOUS
<1> HIDE DEF a, n, m
<1>2. ASSUME NEW i \in 1..(n + m)
      PROVE  \/ i \in 1..n /\ a[i] = q[i]
             \/ i - n \in 1..m /\ a[i] = r[i - n]
  <2>1. i \notin 1..n => i - n \in 1..m /\ n + (i - n) = i
    BY <1>1
  <2> QED
    BY <1>1, <2>1
<1>3. (\A i \in 1..n : i \in 1..(n + m)) /\ (\A i \in 1..m : n + i \in 1..(n + m))
  BY <1>1
<1>4. Prints(a) = Prints(q) \cup Prints(r)
  <2>1. Prints(a) \subseteq Prints(q) \cup Prints(r)
    BY <1>1, <1>2 DEF Prints
  <2>2. Prints(q) \subseteq Prints(a)
    BY <1>1, <1>3 DEF Prints
  <2>3. Prints(r) \subseteq Prints(a)
    <3> SUFFICES ASSUME NEW i \in 1..m PROVE Fingerprint(r[i]) \in Prints(a)
      BY <1>1 DEF Prints
    <3>1. n + i \in DOMAIN a /\ a[n + i] = r[i]
      BY <1>1, <1>3
    <3> QED
      BY <3>1 DEF Prints
  <2> QED
    BY <2>1, <2>2, <2>3
<1>5. ASSUME Distinct(q), Distinct(r), Prints(q) \cap Prints(r) = {}
      PROVE  Distinct(a)
  <2> SUFFICES ASSUME NEW i \in 1..(n + m), NEW j \in 1..(n + m), Fingerprint(a[i]) = Fingerprint(a[j])
               PROVE  i = j
    BY <1>1 DEF Distinct
  <2>1. CASE i \in 1..n /\ j \in 1..n
    BY <1>1, <1>5, <2>1 DEF Distinct
  <2>2. CASE i \in 1..n /\ j \notin 1..n
    <3>1. a[i] = q[i] /\ j - n \in 1..m /\ a[j] = r[j - n]
      BY <1>1, <1>2, <2>2
    <3>2. Fingerprint(a[i]) \in Prints(q) /\ Fingerprint(a[j]) \in Prints(r)
      BY <1>1, <2>2, <3>1 DEF Prints
    <3> QED
      BY <1>5, <3>2
  <2>3. CASE i \notin 1..n /\ j \in 1..n
    <3>1. a[j] = q[j] /\ i - n \in 1..m /\ a[i] = r[i - n]
      BY <1>1, <1>2, <2>3
    <3>2. Fingerprint(a[j]) \in Prints(q) /\ Fingerprint(a[i]) \in Prints(r)
      BY <1>1, <2>3, <3>1 DEF Prints
    <3> QED
      BY <1>5, <3>2
  <2>4. CASE i \notin 1..n /\ j \notin 1..n
    <3>1. /\ i - n \in 1..m /\ a[i] = r[i - n]
          /\ j - n \in 1..m /\ a[j] = r[j - n]
      BY <1>2, <2>4
    <3>2. i - n = j - n
      BY <1>1, <1>5, <3>1 DEF Distinct
    <3> QED
      BY <1>1, <3>2
  <2> QED
    BY <2>1, <2>2, <2>3, <2>4
<1> QED
  BY <1>4, <1>5 DEF a

(* A queue, cut in two. *)
LEMMA PrintsCut ==
    ASSUME NEW q \in Seq(Event), NEW n \in Nat, Distinct(q)
    PROVE  LET head == FirstOf(q, n)
               tail == Without(q, Len(head))
           IN /\ Prints(q) = Prints(head) \cup Prints(tail)
              /\ Prints(head) \cap Prints(tail) = {}
              /\ Distinct(head) /\ Distinct(tail)
<1> DEFINE len == Len(q)
           m == IF len < n THEN len ELSE n
           head == SubSeq(q, 1, m)
           tail == SubSeq(q, m + 1, len)
<1>1. len \in Nat /\ m \in Nat /\ m <= len /\ DOMAIN q = 1..len
  OBVIOUS
<1>2. FirstOf(q, n) = head
  BY DEF FirstOf
<1> HIDE DEF m
<1>3. /\ Len(head) = m /\ DOMAIN head = 1..m /\ \A i \in 1..m : head[i] = q[i]
      /\ DOMAIN tail = 1..(len - m) /\ \A i \in 1..(len - m) : tail[i] = q[m + i]
  BY <1>1
<1>4. Without(q, Len(head)) = tail
  BY <1>3 DEF Without
<1> HIDE DEF head, tail, len
<1>5. /\ \A i \in 1..m : i \in 1..len
      /\ \A i \in 1..(len - m) : m + i \in 1..len /\ m + i \notin 1..m
      /\ \A i \in 1..len : i \in 1..m \/ (i - m \in 1..(len - m) /\ m + (i - m) = i)
  BY <1>1
<1>6. Distinct(head)
  BY <1>1, <1>3, <1>5 DEF Distinct
<1>7. Distinct(tail)
  <2> SUFFICES ASSUME NEW i \in 1..(len - m), NEW j \in 1..(len - m),
                      Fingerprint(tail[i]) = Fingerprint(tail[j])
               PROVE  i = j
    BY <1>3 DEF Distinct
  <2>0. /\ m + i \in DOMAIN q /\ m + j \in DOMAIN q
        /\ Fingerprint(q[m + i]) = Fingerprint(q[m + j])
    BY <1>1, <1>3, <1>5
  <2>1. m + i = m + j
    BY <2>0 DEF Distinct
  <2> QED
    BY <1>1, <2>1
<1>8. Prints(head) \cap Prints(tail) = {}
  <2> SUFFICES ASSUME NEW i \in 1..m, NEW j \in 1..(len - m), Fingerprint(head[i]) = Fingerprint(tail[j])
               PROVE  FALSE
    BY <1>3 DEF Prints
  <2>1. i = m + j
    BY <1>1, <1>3, <1>5 DEF Distinct
  <2> QED
    BY <1>5, <2>1
<1>9. Prints(q) = Prints(head) \cup Prints(tail)
  <2>1. Prints(head) \subseteq Prints(q)
    BY <1>1, <1>3, <1>5 DEF Prints
  <2>2. Prints(tail) \subseteq Prints(q)
    BY <1>1, <1>3, <1>5 DEF Prints
  <2>3. ASSUME NEW i \in 1..len PROVE Fingerprint(q[i]) \in Prints(head) \cup Prints(tail)
    <3>1. CASE i \in 1..m
      BY <1>3, <3>1 DEF Prints
    <3>2. CASE i \notin 1..m
      <4>1. i - m \in DOMAIN tail /\ tail[i - m] = q[i]
        BY <1>3, <1>5, <3>2
      <4> QED
        BY <4>1 DEF Prints
    <3> QED
      BY <3>1, <3>2
  <2>4. Prints(q) \subseteq Prints(head) \cup Prints(tail)
    BY <1>1, <2>3 DEF Prints
  <2> QED
    BY <2>1, <2>2, <2>4
<1> QED
  BY <1>2, <1>4, <1>6, <1>7, <1>8, <1>9

LEMMA AddTidy ==
    ASSUME NEW p \in Pipe, NEW rest, NEW event \in Event, Tidy(p, rest)
    PROVE  Tidy(AddEvent(p, event), rest)
<1> DEFINE q == [p EXCEPT !.outstanding = @ \cup {Fingerprint(event)}, !.pending = Append(@, event)]
<1>1. CASE Fingerprint(event) \in p.outstanding
  BY <1>1 DEF AddEvent
<1>2. CASE Fingerprint(event) \notin p.outstanding
  <2>1. /\ q.outstanding = p.outstanding \cup {Fingerprint(event)}
        /\ q.pending = Append(p.pending, event) /\ q.retry = p.retry
    BY DEF Pipe
  <2>2. p.pending \in Seq(Event) /\ Fingerprint(event) \notin Prints(p.pending)
    BY <1>2 DEF Pipe, Tidy
  <2>3. AddEvent(p, event) = q
    BY <1>2 DEF AddEvent
  <2> HIDE DEF q
  <2>4. Tidy(q, rest)
    BY <1>2, <2>1, <2>2, PrintsAppend DEF Tidy
  <2> QED
    BY <2>3, <2>4
<1> QED
  BY <1>1, <1>2

(* Events that are released were in the air and are not any more. *)
LEMMA ReleaseTidy ==
    ASSUME NEW p \in Pipe, NEW rest, NEW events, Tidy(p, rest),
           {Fingerprint(event) : event \in events} \subseteq rest
    PROVE  Tidy(Release(p, events), rest \ {Fingerprint(event) : event \in events})
<1> DEFINE gone == {Fingerprint(event) : event \in events}
           q == [p EXCEPT !.outstanding = @ \ gone]
<1>1. q.outstanding = p.outstanding \ gone /\ q.pending = p.pending /\ q.retry = p.retry
  BY DEF Pipe
<1>2. Release(p, events) = q
  BY DEF Release
<1> HIDE DEF q, gone
<1>3. Tidy(q, rest \ gone)
  BY <1>1 DEF Tidy, gone
<1> QED
  BY <1>2, <1>3 DEF gone

LEMMA RequeueTidy ==
    ASSUME NEW p \in Pipe, NEW rest, NEW event \in Event, Tidy(p, rest), Fingerprint(event) \in rest
    PROVE  Tidy(Requeue(p, event), rest \ {Fingerprint(event)})
<1> DEFINE again == [event EXCEPT !.requeued = TRUE]
           q == [p EXCEPT !.retry = Append(@, again)]
<1>1. /\ q.outstanding = p.outstanding /\ q.pending = p.pending /\ q.retry = Append(p.retry, again)
      /\ p.retry \in Seq(Event)
  BY DEF Pipe
<1>2. Fingerprint(again) = Fingerprint(event)
  BY EventUpdated DEF Fingerprint
<1>3. Requeue(p, event) = q
  BY DEF Requeue
<1> HIDE DEF q, again
<1>4. Fingerprint(again) \notin Prints(p.retry) /\ Fingerprint(again) \notin Prints(p.pending)
  BY <1>2 DEF Tidy
<1>5. Prints(q.retry) = Prints(p.retry) \cup {Fingerprint(event)} /\ Distinct(q.retry)
  BY <1>1, <1>2, <1>4, PrintsAppend DEF Tidy
<1>6. Tidy(q, rest \ {Fingerprint(event)})
  BY <1>1, <1>2, <1>4, <1>5 DEF Tidy
<1> QED
  BY <1>3, <1>6

LEMMA SameQueuesTidy ==
    ASSUME NEW p, NEW q, NEW rest, Tidy(p, rest),
           q.outstanding = p.outstanding, q.pending = p.pending, q.retry = p.retry
    PROVE  Tidy(q, rest)
BY DEF Tidy

(* The resend of an event that is in the air is dropped by add_event. *)
LEMMA ResendTidy ==
    ASSUME NEW p \in Pipe, NEW rest, NEW event \in Event, Tidy(p, rest), Fingerprint(event) \in rest
    PROVE  /\ Tidy(Resend(p, event), rest)
           /\ Resend(p, event).pending = p.pending /\ Resend(p, event).retry = p.retry
<1> DEFINE e == event.snapshot.entity
           again == Numbered(EventFor(settings, event.snapshot, p.ids[e], "product_found"), event.no)
           q == [p EXCEPT !.resends[e] = @ + 1]
<1>1. q.outstanding = p.outstanding /\ q.pending = p.pending /\ q.retry = p.retry
  BY DEF Pipe
<1>2. Fingerprint(again) = Fingerprint(event)
  BY DEF Numbered, EventFor, Fingerprint
<1>3. Resend(p, event) \in {p, AddEvent(q, again)}
  BY DEF Resend
<1> HIDE DEF q, again
<1>4. Fingerprint(again) \in q.outstanding
  BY <1>1, <1>2 DEF Tidy
<1>5. AddEvent(q, again) = q
  BY <1>4 DEF AddEvent
<1> QED
  BY <1>1, <1>3, <1>5, SameQueuesTidy

(* q has the pending events of p, and of the others only what it had to    *)
(* send again before or puts back now.                                     *)
Again(event) == [event EXCEPT !.requeued = TRUE]
QueuesFrom(p, events, q) ==
    /\ q.pending = p.pending
    /\ ToSet(q.retry) \subseteq ToSet(p.retry) \cup {Again(event) : event \in events}

LEMMA ReleaseQueues ==
    ASSUME NEW p \in Pipe, NEW events
    PROVE  Release(p, events).pending = p.pending /\ Release(p, events).retry = p.retry
BY DEF Release, Pipe

LEMMA RequeueQueues ==
    ASSUME NEW p \in Pipe, NEW event \in Event
    PROVE  QueuesFrom(p, {event}, Requeue(p, event))
<1> DEFINE again == Again(event)
           q == Requeue(p, event)
<1>1. q.pending = p.pending /\ q.retry = Append(p.retry, again) /\ p.retry \in Seq(Event)
  BY DEF Requeue, Pipe, Again
<1> HIDE DEF q, again
<1>2. /\ Len(p.retry) \in Nat /\ DOMAIN p.retry = 1..Len(p.retry)
      /\ DOMAIN q.retry = 1..(Len(p.retry) + 1)
      /\ \A i \in 1..Len(p.retry) : q.retry[i] = p.retry[i]
      /\ q.retry[Len(p.retry) + 1] = again
  BY <1>1
<1>3. ASSUME NEW i \in DOMAIN q.retry
      PROVE  q.retry[i] = again \/ q.retry[i] \in ToSet(p.retry)
  <2>1. i = Len(p.retry) + 1 \/ i \in 1..Len(p.retry)
    BY <1>2
  <2> QED
    BY <1>2, <2>1 DEF ToSet
<1> QED
  BY <1>1, <1>3 DEF QueuesFrom, ToSet, q, again

(* One answer takes its event out of the air. *)
LEMMA ItemTidy ==
    ASSUME settings \in Settings, NEW p, NEW c, NEW rest, NEW event \in Event, NEW result \in Result,
           CrmOK(c), Sound(p, c), Aware(p.ids, event), result.success => Taken(c, event),
           Tidy(p, rest), Fingerprint(event) \in rest
    PROVE  /\ Tidy(ApplyItemResult(p, event, result), rest \ {Fingerprint(event)})
           /\ QueuesFrom(p, {event}, ApplyItemResult(p, event, result))
<1> DEFINE merged == Merged(p, event, result)
           gone == {Fingerprint(x) : x \in {event}}
<1>1. p \in Pipe /\ gone = {Fingerprint(event)}
  BY DEF Sound
<1>2. ASSUME NEW q \in Pipe, Tidy(q, rest)
      PROVE  Tidy(Release(q, {event}), rest \ {Fingerprint(event)})
  <2>1. gone \subseteq rest
    BY <1>1
  <2> QED
    BY <1>1, <1>2, <2>1, ReleaseTidy
<1>3. CASE ~result.success
  <2>1. ApplyItemResult(p, event, result) \in {Requeue(p, event), Release(p, {event})}
    BY <1>3 DEF ApplyItemResult, ApplyFailure
  <2>2. QueuesFrom(p, {event}, Release(p, {event}))
    BY <1>1, ReleaseQueues DEF QueuesFrom
  <2> QED
    BY <1>1, <1>2, <2>1, <2>2, RequeueTidy, RequeueQueues
<1>4. CASE result.success /\ merged.settled
  <2> DEFINE q == Remember(p, event, merged.ids)
  <2>1. ApplyItemResult(p, event, result) = Release(q, {event})
    BY <1>4 DEF ApplyItemResult
  <2>2. q.outstanding = p.outstanding /\ q.pending = p.pending /\ q.retry = p.retry
    BY <1>1 DEF Remember, Pipe
  <2>3. Tidy(q, rest)
    BY <2>2, SameQueuesTidy
  <2>4. q = [p EXCEPT !.sent = q.sent, !.last = q.last, !.ids = q.ids]
    BY <1>1 DEF Remember, Pipe
  <2> HIDE DEF q
  <2>5. Tidy(Release(q, {event}), rest \ {Fingerprint(event)})
    <3> DEFINE r == Release(q, {event})
    <3>1. /\ r.outstanding = q.outstanding \ gone /\ r.pending = q.pending /\ r.retry = q.retry
      BY <1>1, <2>4 DEF Release, Pipe
    <3> HIDE DEF r
    <3> QED
      BY <1>1, <2>3, <3>1 DEF Tidy, r
  <2>6. QueuesFrom(p, {event}, Release(q, {event}))
    <3> DEFINE r == Release(q, {event})
    <3>1. r.pending = q.pending /\ r.retry = q.retry
      BY <1>1, <2>4 DEF Release, Pipe
    <3> HIDE DEF r
    <3> QED
      BY <2>2, <3>1 DEF QueuesFrom, r
  <2> QED
    BY <2>1, <2>5, <2>6
<1>5. CASE result.success /\ ~merged.settled
  <2>1. ApplyItemResult(p, event, result) = Release(Resend(p, event), {event})
    BY <1>5 DEF ApplyItemResult
  <2>2. Resend(p, event) \in Pipe
    BY ResendSound DEF Sound
  <2>3. Resend(p, event).pending = p.pending /\ Resend(p, event).retry = p.retry
    BY <1>1, ResendTidy
  <2>4. QueuesFrom(p, {event}, Release(Resend(p, event), {event}))
    BY <2>2, <2>3, ReleaseQueues DEF QueuesFrom
  <2> QED
    BY <1>1, <1>2, <2>1, <2>2, <2>4, ResendTidy
<1> QED
  BY <1>3, <1>4, <1>5

LEMMA AllTidy ==
    ASSUME settings \in Settings, NEW p, NEW c, NEW rest, NEW events \in Seq(Event),
           NEW results \in [DOMAIN events -> Result],
           CrmOK(c), Sound(p, c), AllAware(p.ids, events), Honest(c, events, results),
           Tidy(p, rest), Prints(events) \subseteq rest, Distinct(events)
    PROVE  /\ Tidy(ApplyResults(p, events, results), rest \ Prints(events))
           /\ QueuesFrom(p, ToSet(events), ApplyResults(p, events, results))
<1>a. PICK after : InTurn(p, events, results, after)
  BY AnswersInTurn
<1>1. /\ ApplyResults(p, events, results) = after[Len(events)]
      /\ after[0] = p
      /\ \A i \in 1..Len(events) : after[i] = Results(events, results, after, i)
  BY <1>a DEF InTurn
<1> DEFINE Done(n) == {Fingerprint(events[j]) : j \in 1..n}
           Good(n) == /\ Sound(after[n], c) /\ Learns(p.ids, after[n].ids)
                      /\ Tidy(after[n], rest \ Done(n)) /\ QueuesFrom(p, ToSet(events), after[n])
           S == {n \in Nat : n <= Len(events) => Good(n)}
<1>0. DOMAIN events = 1..Len(events) /\ Len(events) \in Nat
  OBVIOUS
<1>2. 0 \in S
  <2>1. Done(0) = {} /\ rest \ Done(0) = rest
    OBVIOUS
  <2> HIDE DEF Done
  <2> QED
    BY <1>1, <2>1 DEF Learns, QueuesFrom
<1>3. ASSUME NEW n \in S PROVE n + 1 \in S
  <2> SUFFICES ASSUME n + 1 <= Len(events) PROVE Good(n + 1)
    OBVIOUS
  <2> DEFINE event == events[n + 1]
  <2>1. n + 1 \in 1..Len(events) /\ n \in Nat /\ n + 1 - 1 = n /\ n <= Len(events)
    BY <1>0
  <2>2. Good(n)
    BY <1>0, <2>1
  <2>3. after[n + 1] = ApplyItemResult(after[n], event, results[n + 1])
    BY <1>1, <2>1 DEF Results
  <2>4. event \in Event /\ results[n + 1] \in Result
    BY <2>1
  <2>5. Aware(after[n].ids, event)
    BY <1>0, <2>1, <2>2, AwareOfMore DEF AllAware
  <2>6. results[n + 1].success => Taken(c, event)
    BY <1>0, <2>1 DEF Honest
  <2>7. Sound(after[n + 1], c) /\ Learns(after[n].ids, after[n + 1].ids)
    BY <2>2, <2>3, <2>4, <2>5, <2>6, ItemApplied
  <2>8. Fingerprint(event) \in rest \ Done(n)
    <3>1. Fingerprint(event) \in Prints(events)
      BY <1>0, <2>1 DEF Prints
    <3>2. ASSUME NEW j \in 1..n, Fingerprint(events[j]) = Fingerprint(event) PROVE FALSE
      <4>1. j \in DOMAIN events /\ n + 1 \in DOMAIN events /\ j # n + 1
        BY <1>0, <2>1
      <4> QED
        BY <3>2, <4>1 DEF Distinct
    <3> QED
      BY <3>1, <3>2
  <2>9. Done(n + 1) = Done(n) \cup {Fingerprint(event)}
    <3>1. 1..(n + 1) = 1..n \cup {n + 1}
      BY <2>1
    <3> QED
      BY <3>1
  <2> HIDE DEF Done, event
  <2>10. /\ Tidy(after[n + 1], (rest \ Done(n)) \ {Fingerprint(event)})
         /\ QueuesFrom(after[n], {event}, after[n + 1])
    <3> DEFINE air == rest \ Done(n)
               result == results[n + 1]
               old == after[n]
    <3>1. /\ Sound(old, c) /\ Tidy(old, air) /\ Fingerprint(event) \in air /\ result \in Result
          /\ Aware(old.ids, event) /\ (result.success => Taken(c, event))
      BY <2>2, <2>4, <2>5, <2>6, <2>8
    <3> HIDE DEF air, result, old
    <3>2. /\ Tidy(ApplyItemResult(old, event, result), air \ {Fingerprint(event)})
          /\ QueuesFrom(old, {event}, ApplyItemResult(old, event, result))
      BY <2>4, <3>1, ItemTidy
    <3> QED
      BY <2>3, <3>2 DEF air, result, old
  <2>11. (rest \ Done(n)) \ {Fingerprint(event)} = rest \ Done(n + 1)
    BY <2>9
  <2>12. Learns(p.ids, after[n + 1].ids)
    BY <2>2, <2>7 DEF Learns
  <2>13. QueuesFrom(p, ToSet(events), after[n + 1])
    <3>1. event \in ToSet(events)
      BY <1>0, <2>1 DEF event, ToSet
    <3> QED
      BY <2>2, <2>10, <3>1 DEF QueuesFrom
  <2> QED
    BY <2>7, <2>10, <2>11, <2>12, <2>13
<1>4. S = Nat
  <2>1. S \in SUBSET Nat /\ \A n \in S : n + 1 \in S
    BY <1>3
  <2> HIDE DEF S
  <2> QED
    BY <1>2, <2>1, CountingUp
<1>5. Good(Len(events))
  <2> HIDE DEF Good
  <2>1. Len(events) \in S
    BY <1>0, <1>4
  <2> QED
    BY <1>0, <2>1
<1>6. Done(Len(events)) = Prints(events)
  BY <1>0 DEF Prints
<1> HIDE DEF Done
<1> QED
  BY <1>1, <1>5, <1>6

-----------------------------------------------------------------------------
(* Flights.  Here(c) is what holds of the pipeline and of every flight     *)
(* when the CRM holds c, There(c) what then holds after a step.            *)

Here(c) ==
    /\ Sound(pipe, c)
    /\ flights \in [Slots -> Flight]
    /\ \A g \in Slots : Carrying(flights[g], pipe.ids, c)
    /\ LiveIn(pipe, flights)

(* The inductive invariant.  Which settings were chosen and how many items *)
(* came matters to the types only.                                         *)
SyncInv ==
    /\ settings \in Settings /\ yielded \in Nat /\ batching \in BOOLEAN
    /\ CrmOK(crm) /\ Here(crm)

There(c) ==
    /\ Sound(pipe', c)
    /\ flights' \in [Slots -> Flight]
    /\ \A g \in Slots : Carrying(flights'[g], pipe'.ids, c)
    /\ LiveIn(pipe', flights')

(* What an answer does to flight f besides: it ends, or goes on with its   *)
(* events; and when it is still undisturbed it is before its n-th event.   *)
Undisturbed(flight) == flight.stage \in {"batch", "items"} /\ ~flight.disturbed
Outcome(f, n) ==
    /\ QueuesFrom(pipe, ToSet(flights[f].events), pipe')
    /\ \A g \in Slots : g # f => flights'[g] = flights[g]
    /\ flights'[f].events \in {<<>>, flights[f].events}
    /\ Undisturbed(flights'[f]) => /\ Undisturbed(flights[f])
                                  /\ flights'[f].stage = "items" /\ flights'[f].at = n

(* The numbers the CRM holds after a request of f are those of its events  *)
(* before the n-th that were not sent earlier, or stay what they were.     *)
Start(flight) == IF flight.stage = "batch" THEN 1 ELSE flight.at
Writes(f, n) ==
    \A e \in Entities :
        \/ crm'[e].no = crm[e].no
        \/ \E i \in DOMAIN flights[f].events :
             /\ Start(flights[f]) <= i /\ i < n
             /\ crm'[e].no = flights[f].events[i].no

Answered(f) == \E n \in Nat : Start(flights[f]) <= n /\ Outcome(f, n) /\ Writes(f, n)

(* One flight changes, the others keep their events. *)
LEMMA FlightChanged ==
    ASSUME NEW p, NEW q, NEW F, NEW G, NEW f \in Slots, LiveIn(p, F),
           \A g \in Slots : g # f => G[g].events = F[g].events /\ G[g].stage = F[g].stage,
           Distinct(G[f].events), Prints(G[f].events) \cap Others(F, f) = {},
           G[f].stage \in {"none", "nap"} => G[f].events = <<>>,
           Tidy(q, Others(F, f) \cup Prints(G[f].events))
    PROVE  LiveIn(q, G)
<1>1. Air(G) = Others(F, f) \cup Prints(G[f].events)
  <2>1. \A g \in Slots \ {f} : Prints(G[g].events) = Prints(F[g].events)
    OBVIOUS
  <2>2. Air(G) = Prints(G[f].events) \cup UNION {Prints(G[g].events) : g \in Slots \ {f}}
    BY DEF Air
  <2> QED
    BY <2>1, <2>2 DEF Others
<1>2. ASSUME NEW g \in Slots, g # f
      PROVE  /\ Prints(G[g].events) = Prints(F[g].events) /\ Distinct(G[g].events)
             /\ Prints(G[g].events) \subseteq Others(F, f)
             /\ G[g].stage \in {"none", "nap"} => G[g].events = <<>>
  BY <1>2 DEF Others, LiveIn
<1>3. \A g, h \in Slots : g # h => Prints(G[g].events) \cap Prints(G[h].events) = {}
  <2> SUFFICES ASSUME NEW g \in Slots, NEW h \in Slots, g # h
               PROVE  Prints(G[g].events) \cap Prints(G[h].events) = {}
    OBVIOUS
  <2>1. CASE g = f
    BY <1>2, <2>1
  <2>2. CASE h = f
    BY <1>2, <2>2
  <2>3. CASE g # f /\ h # f
    BY <1>2, <2>3 DEF LiveIn
  <2> QED
    BY <2>1, <2>2, <2>3
<1> QED
  BY <1>1, <1>2, <1>3 DEF LiveIn

LEMMA AirApart ==
    ASSUME NEW p, NEW F, NEW f \in Slots, LiveIn(p, F)
    PROVE  /\ Air(F) = Others(F, f) \cup Prints(F[f].events)
           /\ Prints(F[f].events) \cap Others(F, f) = {}
           /\ Air(F) \ Prints(F[f].events) = Others(F, f)
           /\ F[f].events = <<>> => Air(F) = Others(F, f)
<1>1. Air(F) = Prints(F[f].events) \cup UNION {Prints(F[g].events) : g \in Slots \ {f}}
  BY DEF Air
<1>2. Prints(F[f].events) \cap Others(F, f) = {}
  BY DEF Others, LiveIn
<1>3. F[f].events = <<>> => Prints(F[f].events) = {}
  BY DEF Prints
<1> QED
  BY <1>1, <1>2, <1>3 DEF Others

LEMMA EmptyPrints == Prints(<<>>) = {} /\ Distinct(<<>>)
BY DEF Prints, Distinct

(* A flight that ends.  None of its events is in the air any more. *)
LEMMA FlightEnds ==
    ASSUME NEW p, NEW F, NEW f \in Slots, LiveIn(p, F), NEW q,
           F = [g \in Slots |-> F[g]], Tidy(q, Air(F) \ Prints(F[f].events))
    PROVE  LiveIn(q, [F EXCEPT ![f] = Idle])
<1> DEFINE G == [F EXCEPT ![f] = Idle]
<1>1. G[f] = Idle /\ \A g \in Slots : g # f => G[g] = F[g]
  OBVIOUS
<1> HIDE DEF G
<1>2. Idle.events = <<>>
  BY DEF Idle
<1>3. Tidy(q, Others(F, f) \cup Prints(G[f].events))
  BY <1>1, <1>2, AirApart, EmptyPrints
<1>4. LiveIn(q, G)
  BY <1>1, <1>2, <1>3, EmptyPrints, FlightChanged
<1> QED
  BY <1>4 DEF G

(* A flight that goes on with the same events. *)
LEMMA FlightGoesOn ==
    ASSUME NEW p, NEW F, NEW G, NEW f \in Slots, LiveIn(p, F),
           \A g \in Slots : g # f => G[g].events = F[g].events /\ G[g].stage = F[g].stage,
           G[f].events = F[f].events, G[f].stage \in {"none", "nap"} => G[f].events = <<>>
    PROVE  LiveIn(p, G)
<1>1. /\ Air(F) = Others(F, f) \cup Prints(F[f].events)
      /\ Prints(F[f].events) \cap Others(F, f) = {}
  BY AirApart
<1>2. Tidy(p, Air(F)) /\ Distinct(F[f].events)
  BY DEF LiveIn
<1>3. Tidy(p, Others(F, f) \cup Prints(G[f].events))
  BY <1>1, <1>2
<1> QED
  BY <1>1, <1>2, <1>3, FlightChanged

LEMMA IdleCarries == ASSUME NEW ids, NEW c PROVE Carrying(Idle, ids, c)
BY DEF Carrying, Idle, Flight, AllAware, Honest

(* A step that changes flight f only, and forgets no id. *)
LEMMA OneFlight ==
    ASSUME NEW c, Here(c), NEW f \in Slots, NEW flight, Sound(pipe', c),
           Learns(pipe.ids, pipe'.ids),
           flights' = [flights EXCEPT ![f] = flight], Carrying(flight, pipe'.ids, c),
           LiveIn(pipe', flights')
    PROVE  There(c)
<1>1. flight \in Flight
  BY DEF Carrying
<1>2. flights' \in [Slots -> Flight]
  BY <1>1 DEF Here
<1>3. ASSUME NEW g \in Slots PROVE Carrying(flights'[g], pipe'.ids, c)
  <2>1. CASE g = f
    BY <2>1 DEF Here
  <2>2. CASE g # f
    <3>1. flights'[g] = flights[g] /\ Carrying(flights[g], pipe.ids, c)
      BY <2>2 DEF Here
    <3>2. Grows(c, c)
      BY DEF Grows
    <3> QED
      BY <3>1, <3>2, CarryingStays
  <2> QED
    BY <2>1, <2>2
<1> QED
  BY <1>2, <1>3 DEF There

LEMMA IdleOutcome ==
    ASSUME NEW f \in Slots, flights \in [Slots -> Flight], flights' = [flights EXCEPT ![f] = Idle],
           QueuesFrom(pipe, ToSet(flights[f].events), pipe')
    PROVE  \A n : Outcome(f, n)
<1>1. flights'[f] = Idle /\ \A g \in Slots : g # f => flights'[g] = flights[g]
  OBVIOUS
<1>2. Idle.events = <<>> /\ ~Undisturbed(Idle)
  BY DEF Idle, Undisturbed
<1> QED
  BY <1>1, <1>2 DEF Outcome

LEMMA GivenUp ==
    ASSUME NEW c, Here(c), NEW f \in Slots, NEW raised, GiveUp(f, raised)
    PROVE  There(c) /\ \A n : Outcome(f, n)
<1>1. Sound(pipe', c) /\ Learns(pipe.ids, pipe'.ids)
  BY ReleaseSound DEF GiveUp, Here, Learns
<1>2. flights' = [flights EXCEPT ![f] = Idle] /\ pipe' = Release(pipe, ToSet(flights[f].events))
  BY DEF GiveUp
<1>3. LiveIn(pipe', flights')
  <2>1. {Fingerprint(event) : event \in ToSet(flights[f].events)} = Prints(flights[f].events)
    BY DEF ToSet, Prints
  <2>2. pipe \in Pipe /\ Tidy(pipe, Air(flights)) /\ Prints(flights[f].events) \subseteq Air(flights)
    BY DEF Here, Sound, LiveIn, Air
  <2>3. Tidy(pipe', Air(flights) \ Prints(flights[f].events))
    BY <1>2, <2>1, <2>2, ReleaseTidy
  <2> QED
    BY <1>2, <2>3, FlightEnds DEF Here
<1>4. QueuesFrom(pipe, ToSet(flights[f].events), pipe')
  <2>1. pipe \in Pipe
    BY DEF Here, Sound
  <2> QED
    BY <1>2, <2>1, ReleaseQueues DEF QueuesFrom
<1>5. \A n : Outcome(f, n)
  BY <1>2, <1>4, IdleOutcome DEF Here
<1> QED
  BY <1>1, <1>2, <1>3, <1>5, IdleCarries, OneFlight

LEMMA Finalized ==
    ASSUME settings \in Settings, NEW c, CrmOK(c), Here(c), NEW f \in Slots,
           NEW results \in [DOMAIN flights[f].events -> Result],
           Honest(c, flights[f].events, results), Finalize(f, results)
    PROVE  There(c) /\ \A n : Outcome(f, n)
<1>1. CASE GiveUp(f, TRUE)
  BY <1>1, GivenUp
<1>2. CASE /\ pipe' = ApplyResults(pipe, flights[f].events, results)
           /\ flights' = [flights EXCEPT ![f] = Idle]
  <2>1. Sound(pipe, c) /\ flights[f].events \in Seq(Event) /\ AllAware(pipe.ids, flights[f].events)
    BY DEF Here, Carrying, Flight
  <2>2. Sound(pipe', c) /\ Learns(pipe.ids, pipe'.ids)
    BY <1>2, <2>1, AllApplied
  <2>3. /\ Tidy(pipe', Air(flights) \ Prints(flights[f].events))
        /\ QueuesFrom(pipe, ToSet(flights[f].events), pipe')
    <3>1. /\ Tidy(pipe, Air(flights)) /\ Prints(flights[f].events) \subseteq Air(flights)
          /\ Distinct(flights[f].events)
      BY DEF Here, LiveIn, Air
    <3>2. Honest(c, flights[f].events, results)
      OBVIOUS
    <3> QED
      BY <1>2, <2>1, <3>1, <3>2, AllTidy
  <2>4. LiveIn(pipe', flights')
    BY <1>2, <2>3, FlightEnds DEF Here
  <2>5. \A n : Outcome(f, n)
    BY <1>2, <2>3, IdleOutcome DEF Here
  <2> QED
    BY <1>2, <2>2, <2>4, <2>5, IdleCarries, OneFlight
<1> QED
  BY <1>1, <1>2 DEF Finalize

LEMMA TriedAgain ==
    ASSUME NEW c, Here(c), NEW f \in Slots, TryAgain(f)
    PROVE  There(c) /\ \A n : Outcome(f, n)
<1> DEFINE flight == [flights[f] EXCEPT !.tries = flights[f].tries + 1, !.disturbed = TRUE]
<1>1. flights[f] \in Flight /\ Carrying(flights[f], pipe.ids, c)
  BY DEF Here
<1>2. /\ flight \in Flight /\ flight.events = flights[f].events /\ flight.results = flights[f].results
      /\ flight.stage = flights[f].stage /\ flight.at = flights[f].at /\ flight.disturbed
  <2>1. flights[f].tries + 1 \in Nat
    BY <1>1 DEF Flight
  <2> QED
    BY <1>1, <2>1 DEF Flight
<1>3. flights' = [flights EXCEPT ![f] = flight]
  BY <1>1 DEF TryAgain, Here, Flight
<1> HIDE DEF flight
<1>4. pipe' = pipe
  BY DEF TryAgain
<1>5. Carrying(flight, pipe'.ids, c)
  BY <1>1, <1>2, <1>4 DEF Carrying
<1>6. Sound(pipe', c) /\ Learns(pipe.ids, pipe'.ids)
  BY <1>4 DEF Here, Learns
<1>7. LiveIn(pipe', flights')
  <2>1. /\ flights'[f] = flight /\ \A g \in Slots : g # f => flights'[g] = flights[g]
        /\ LiveIn(pipe, flights)
    BY <1>3 DEF Here
  <2>2. flight.stage \in {"none", "nap"} => flight.events = <<>>
    BY <1>2, <2>1 DEF LiveIn
  <2>3. LiveIn(pipe, flights')
    BY <1>2, <2>1, <2>2, FlightGoesOn
  <2> QED
    BY <1>4, <2>3
<1>8. \A n : Outcome(f, n)
  <2>1. flights'[f] = flight /\ \A g \in Slots : g # f => flights'[g] = flights[g]
    BY <1>3 DEF Here
  <2>2. QueuesFrom(pipe, ToSet(flights[f].events), pipe')
    BY <1>4 DEF QueuesFrom
  <2> QED
    BY <1>2, <2>1, <2>2 DEF Outcome, Undisturbed
<1> QED
  BY <1>3, <1>5, <1>6, <1>7, <1>8, OneFlight

(* The next request of a flush, or its end. *)
LEMMA Proceeded ==
    ASSUME settings \in Settings, NEW c, CrmOK(c), Here(c), NEW f \in Slots,
           NEW stage \in {"batch", "items", "again"}, NEW at \in Nat,
           NEW results \in Seq(Result), flights[f].events # <<>>,
           Honest(c, flights[f].events, results),
           stage = "items" => Len(results) = at /\ at <= Len(flights[f].events),
           stage # "items" => Len(results) = Len(flights[f].events),
           NEW m \in Nat, stage = "items" => m = at + 1 /\ flights[f].stage \in {"batch", "items"},
           Proceed(f, stage, at, results)
    PROVE  There(c) /\ Outcome(f, m)
<1> DEFINE flight == flights[f]
           left == ToRetry(results, IF stage = "again" THEN at ELSE 0)
           Moved(s, n) == [flight EXCEPT !.stage = s, !.at = n, !.tries = 0, !.results = results]
<1>1. flight \in Flight /\ Carrying(flight, pipe.ids, c)
  BY DEF Here
<1>2. flight.events \in Seq(Event) /\ Len(flight.events) \in Nat
  BY <1>1 DEF Flight
<1> HIDE DEF flight
<1>3. ASSUME NEW s \in {"items", "again"}, NEW n \in Nat, UNCHANGED pipe,
             flights' = [flights EXCEPT ![f] = Moved(s, n)],
             s = "items" => n = Len(results) + 1 /\ n <= Len(flight.events),
             s = "again" => n \in DOMAIN flight.events /\ Len(results) = Len(flight.events),
             s = "items" => n = m /\ flight.stage \in {"batch", "items"}
      PROVE  There(c) /\ Outcome(f, m)
  <2> DEFINE moved == Moved(s, n)
  <2>1. /\ moved \in Flight /\ moved.stage = s /\ moved.at = n /\ moved.results = results
        /\ moved.events = flight.events /\ moved.disturbed = flight.disturbed
    BY <1>1 DEF Flight
  <2> HIDE DEF moved
  <2>2. flight.events # <<>> /\ Honest(c, flight.events, results)
    BY DEF flight
  <2>3. Carrying(moved, pipe'.ids, c)
    BY <1>1, <1>3, <2>1, <2>2 DEF Carrying
  <2>4. Sound(pipe', c) /\ Learns(pipe.ids, pipe'.ids) /\ flights' = [flights EXCEPT ![f] = moved]
    BY <1>3 DEF Here, Learns, moved
  <2>5. LiveIn(pipe', flights')
    <3>1. /\ flights'[f] = moved /\ \A g \in Slots : g # f => flights'[g] = flights[g]
          /\ LiveIn(pipe, flights)
      BY <2>4 DEF Here
    <3>2. moved.stage \notin {"none", "nap"} /\ moved.events = flights[f].events
      BY <2>1 DEF flight
    <3>3. LiveIn(pipe, flights')
      BY <3>1, <3>2, FlightGoesOn
    <3> QED
      BY <1>3, <3>3
  <2>6. Outcome(f, m)
    <3>1. flights'[f] = moved /\ \A g \in Slots : g # f => flights'[g] = flights[g]
      BY <2>4 DEF Here
    <3>2. QueuesFrom(pipe, ToSet(flights[f].events), pipe')
      BY <1>3 DEF QueuesFrom
    <3>3. Undisturbed(moved) => Undisturbed(flight) /\ moved.stage = "items" /\ moved.at = m
      BY <1>3, <2>1 DEF Undisturbed
    <3> QED
      BY <2>1, <3>1, <3>2, <3>3 DEF Outcome, flight
  <2> QED
    BY <2>3, <2>4, <2>5, <2>6, OneFlight
<1>4. CASE stage = "items" /\ at < Len(flight.events)
  <2>1. /\ flights' = [flights EXCEPT ![f] = Moved("items", at + 1)]
        /\ UNCHANGED pipe
    BY <1>4 DEF Proceed, flight
  <2>2. /\ at + 1 \in Nat /\ at + 1 = Len(results) + 1 /\ at + 1 <= Len(flight.events)
        /\ m = at + 1 /\ flight.stage \in {"batch", "items"}
    BY <1>2, <1>4 DEF flight
  <2> HIDE DEF Moved
  <2> QED
    BY <1>3, <2>1, <2>2
<1>5. ASSUME ~(stage = "items" /\ at < Len(flight.events))
      PROVE  Len(results) = Len(flight.events)
  BY <1>2, <1>5 DEF flight
<1>6. CASE ~(stage = "items" /\ at < Len(flight.events)) /\ left # {}
  <2> DEFINE n == CHOOSE i \in left : \A j \in left : i <= j
  <2>1. /\ flights' = [flights EXCEPT ![f] = Moved("again", n)]
        /\ UNCHANGED pipe
    BY <1>6 DEF Proceed, flight
  <2>2. left \in SUBSET (1..Len(results)) /\ left \in SUBSET Nat
    BY DEF ToRetry
  <2>3. n \in left
    <3> HIDE DEF left
    <3>1. \E i \in left : \A j \in left : i <= j
      BY <1>6, <2>2, LeastNumber
    <3> QED
      BY <3>1
  <2> HIDE DEF n, left, Moved
  <2>4. n \in Nat /\ n \in DOMAIN flight.events /\ Len(results) = Len(flight.events)
    BY <1>2, <1>5, <1>6, <2>2, <2>3
  <2> QED
    BY <1>3, <2>1, <2>4
<1>7. CASE ~(stage = "items" /\ at < Len(flight.events)) /\ left = {}
  <2>1. Finalize(f, results)
    BY <1>7 DEF Proceed, flight
  <2>2. results \in [DOMAIN flight.events -> Result]
    BY <1>2, <1>5, <1>7
  <2> QED
    BY <2>1, <2>2, Finalized DEF flight
<1> QED
  BY <1>4, <1>6, <1>7

-----------------------------------------------------------------------------
(* Batches that leave.                                                     *)

LEMMA AwareFirst ==
    ASSUME NEW ids, NEW q \in Seq(Event), NEW n \in Nat, AllAware(ids, q)
    PROVE  /\ FirstOf(q, n) \in Seq(Event) /\ AllAware(ids, FirstOf(q, n))
           /\ Len(FirstOf(q, n)) <= n /\ Len(FirstOf(q, n)) <= Len(q)
<1> DEFINE m == IF Len(q) < n THEN Len(q) ELSE n
<1>1. Len(q) \in Nat /\ m \in Nat /\ m <= Len(q) /\ m <= n /\ FirstOf(q, n) = SubSeq(q, 1, m)
  BY DEF FirstOf
<1> HIDE DEF m
<1>2. SubSeq(q, 1, m) \in Seq(Event) /\ Len(SubSeq(q, 1, m)) = m
  BY <1>1
<1>3. \A i \in 1..m : SubSeq(q, 1, m)[i] = q[i]
  BY <1>1
<1> QED
  BY <1>1, <1>2, <1>3 DEF AllAware

LEMMA AwareRest ==
    ASSUME NEW ids, NEW q \in Seq(Event), NEW n \in Nat, n <= Len(q), AllAware(ids, q)
    PROVE  Without(q, n) \in Seq(Event) /\ AllAware(ids, Without(q, n))
<1>1. Len(q) \in Nat /\ Without(q, n) = SubSeq(q, n + 1, Len(q))
  BY DEF Without
<1>2. SubSeq(q, n + 1, Len(q)) \in Seq(Event) /\ Len(SubSeq(q, n + 1, Len(q))) = Len(q) - n
  BY <1>1
<1>3. \A i \in 1..(Len(q) - n) : SubSeq(q, n + 1, Len(q))[i] = q[n + i]
  BY <1>1
<1> QED
  BY <1>1, <1>2, <1>3 DEF AllAware

LEMMA AwareConcat ==
    ASSUME NEW ids, NEW q \in Seq(Event), NEW r \in Seq(Event), AllAware(ids, q), AllAware(ids, r)
    PROVE  q \o r \in Seq(Event) /\ AllAware(ids, q \o r)
BY DEF AllAware

(* The cap of the retry queue leaves a batch no larger than it may be.     *)
LEMMA AgainFits ==
    ASSUME settings \in Settings
    PROVE  AgainAtMost \in Nat /\ BatchSize \in Nat /\ AgainAtMost <= BatchSize
BY SyncAssumption DEF AgainAtMost

LEMMA PoppedSound ==
    ASSUME settings \in Settings, NEW p, NEW c, Sound(p, c)
    PROVE  /\ Popped(p).batch \in Seq(Event) /\ AllAware(p.ids, Popped(p).batch)
           /\ Sound(Popped(p).rest, c) /\ Popped(p).rest.ids = p.ids
<1> DEFINE again == FirstOf(p.retry, AgainAtMost)
           new == FirstOf(p.pending, BatchSize - Len(again))
           rest == [p EXCEPT !.retry = Without(p.retry, Len(again)),
                             !.pending = Without(p.pending, Len(new))]
<1>1. p \in Pipe /\ p.retry \in Seq(Event) /\ p.pending \in Seq(Event)
      /\ AllAware(p.ids, p.retry) /\ AllAware(p.ids, p.pending)
  BY DEF Sound, Pipe
<1>2. Popped(p).batch = again \o new /\ Popped(p).rest = rest
  BY <1>1 DEF Popped, Pipe
<1>3. again \in Seq(Event) /\ AllAware(p.ids, again) /\ Len(again) <= AgainAtMost
      /\ Len(again) <= Len(p.retry) /\ Len(again) \in Nat
  <2>1. AgainAtMost \in Nat
    BY AgainFits
  <2> QED
    BY <1>1, <2>1, AwareFirst
<1> HIDE DEF again
<1>4. BatchSize - Len(again) \in Nat
  BY <1>3, AgainFits
<1>5. new \in Seq(Event) /\ AllAware(p.ids, new) /\ Len(new) <= Len(p.pending) /\ Len(new) \in Nat
  BY <1>1, <1>4, AwareFirst
<1> HIDE DEF new
<1>6. /\ Without(p.retry, Len(again)) \in Seq(Event) /\ AllAware(p.ids, Without(p.retry, Len(again)))
      /\ Without(p.pending, Len(new)) \in Seq(Event) /\ AllAware(p.ids, Without(p.pending, Len(new)))
  BY <1>1, <1>3, <1>5, AwareRest
<1>7. /\ rest \in Pipe /\ rest.retry = Without(p.retry, Len(again))
      /\ rest.pending = Without(p.pending, Len(new))
      /\ rest.sent = p.sent /\ rest.last = p.last /\ rest.ids = p.ids
  BY <1>1, <1>6 DEF Pipe
<1> HIDE DEF rest
<1>8. Sound(rest, c)
  BY <1>6, <1>7 DEF Sound
<1> QED
  BY <1>2, <1>3, <1>5, <1>7, <1>8, AwareConcat

LEMMA PoppedTidy ==
    ASSUME settings \in Settings, NEW p \in Pipe, NEW rest, Tidy(p, rest)
    PROVE  /\ Tidy(Popped(p).rest, rest \cup Prints(Popped(p).batch))
           /\ Distinct(Popped(p).batch) /\ Prints(Popped(p).batch) \cap rest = {}
<1> DEFINE again == FirstOf(p.retry, AgainAtMost)
           new == FirstOf(p.pending, BatchSize - Len(again))
           left == [p EXCEPT !.retry = Without(p.retry, Len(again)),
                             !.pending = Without(p.pending, Len(new))]
<1>1. p.retry \in Seq(Event) /\ p.pending \in Seq(Event)
  BY DEF Pipe
<1>2. Popped(p).batch = again \o new /\ Popped(p).rest = left
  BY <1>1 DEF Popped, Pipe
<1>3. /\ left.retry = Without(p.retry, Len(again)) /\ left.pending = Without(p.pending, Len(new))
      /\ left.outstanding = p.outstanding
  BY DEF Pipe
<1> HIDE DEF left
<1>4. AgainAtMost \in Nat /\ \A q \in Seq(Event) : AllAware([e \in Entities |-> Ids], q)
  <2>1. ASSUME NEW q \in Seq(Event), NEW i \in DOMAIN q
        PROVE  Aware([e \in Entities |-> Ids], q[i])
    <3>1. q[i].snapshot.entity \in Entities
      BY EventParts
    <3> QED
      BY <3>1 DEF Aware, RequiredId, Ids
  <2> QED
    BY <2>1, AgainFits DEF AllAware
<1>5. again \in Seq(Event) /\ Len(again) <= AgainAtMost /\ Len(again) \in Nat
  BY <1>1, <1>4, AwareFirst
<1>6. /\ Prints(p.retry) = Prints(again) \cup Prints(left.retry)
      /\ Prints(again) \cap Prints(left.retry) = {} /\ Distinct(again) /\ Distinct(left.retry)
  BY <1>1, <1>3, <1>4, PrintsCut DEF Tidy
<1> HIDE DEF again
<1>7. BatchSize - Len(again) \in Nat
  BY <1>5, AgainFits
<1>8. new \in Seq(Event)
  BY <1>1, <1>4, <1>7, AwareFirst
<1>9. /\ Prints(p.pending) = Prints(new) \cup Prints(left.pending)
      /\ Prints(new) \cap Prints(left.pending) = {} /\ Distinct(new) /\ Distinct(left.pending)
  BY <1>1, <1>3, <1>7, PrintsCut DEF Tidy
<1> HIDE DEF new
<1>10. Prints(again) \cap Prints(new) = {}
  BY <1>6, <1>9 DEF Tidy
<1>11. Prints(again \o new) = Prints(again) \cup Prints(new) /\ Distinct(again \o new)
  BY <1>5, <1>6, <1>8, <1>9, <1>10, PrintsConcat
<1>12. /\ p.outstanding = Prints(p.pending) \cup Prints(p.retry) \cup rest
       /\ Prints(p.pending) \cap Prints(p.retry) = {}
       /\ (Prints(p.pending) \cup Prints(p.retry)) \cap rest = {}
  BY DEF Tidy
<1>13. Tidy(left, rest \cup Prints(again \o new))
  BY <1>3, <1>6, <1>9, <1>11, <1>12 DEF Tidy
<1> QED
  BY <1>2, <1>6, <1>9, <1>11, <1>12, <1>13

LEMMA Departed ==
    ASSUME settings \in Settings, NEW c, Here(c), NEW p, Sound(p, c), p.ids = pipe.ids, batching \in BOOLEAN,
           NEW f \in Slots, Tidy(p, Air(flights)), flights[f].stage \in {"none", "nap"},
           Depart(p, f)
    PROVE  There(c)
<1> DEFINE batch == Popped(p).batch
           tried == [i \in DOMAIN batch |-> [batch[i] EXCEPT !.attempts = @ + 1]]
           fit == {i \in DOMAIN tried : ~Spent(tried[i])}
           others == Inflight \ {f}
<1>1. /\ batch \in Seq(Event) /\ AllAware(p.ids, batch)
      /\ Sound(Popped(p).rest, c) /\ Popped(p).rest.ids = p.ids
  BY PoppedSound
<1>2. pipe' = Release(Popped(p).rest, {tried[i] : i \in DOMAIN tried \ fit})
  BY DEF Depart
<1>3. PICK order \in Ascending(fit) :
        flights' = [g \in Slots |->
              IF g = f
              THEN IF fit = {} THEN Idle
                   ELSE Boarded([k \in DOMAIN order |-> tried[order[k]]], others # {})
              ELSE IF g \in others /\ fit # {} THEN [flights[g] EXCEPT !.disturbed = TRUE]
              ELSE flights[g]]
  BY DEF Depart
<1>a. /\ Tidy(Popped(p).rest, Air(flights) \cup Prints(batch))
      /\ Distinct(batch) /\ Prints(batch) \cap Air(flights) = {}
  BY PoppedTidy DEF Sound
<1> HIDE DEF batch
<1>4. /\ DOMAIN tried = 1..Len(batch) /\ Len(batch) \in Nat
      /\ \A i \in DOMAIN tried :
           /\ tried[i] \in Event /\ Aware(p.ids, tried[i])
           /\ Fingerprint(tried[i]) = Fingerprint(batch[i])
  <2>1. DOMAIN batch = 1..Len(batch) /\ Len(batch) \in Nat /\ \A i \in DOMAIN batch : batch[i] \in Event
    BY <1>1
  <2>2. ASSUME NEW i \in DOMAIN batch
        PROVE  /\ tried[i] \in Event /\ Aware(p.ids, tried[i])
               /\ Fingerprint(tried[i]) = Fingerprint(batch[i])
    <3>1. batch[i] \in Event /\ Aware(p.ids, batch[i])
      BY <1>1, <2>1 DEF AllAware
    <3>2. /\ tried[i] \in Event /\ tried[i].snapshot = batch[i].snapshot
          /\ tried[i].type = batch[i].type
      BY <3>1, EventUpdated
    <3> QED
      BY <3>1, <3>2 DEF Aware, Fingerprint
  <2> QED
    BY <2>1, <2>2
<1>b. fit = {i \in 1..Len(batch) : ~Spent(tried[i])}
  BY <1>4
<1> HIDE DEF tried, others
<1>5. Sound(pipe', c) /\ pipe'.ids = pipe.ids
  BY <1>1, <1>2, ReleaseSound
<1>6. Cardinality(fit) \in Nat /\ (fit # {} => Cardinality(fit) > 0) /\ fit \subseteq DOMAIN tried
  <2>1. IsFiniteSet(fit) /\ fit \subseteq DOMAIN tried
    <3>1. fit \subseteq DOMAIN tried
      OBVIOUS
    <3>2. IsFiniteSet(1..Len(batch))
      BY <1>4, FS_Interval
    <3> HIDE DEF fit
    <3> QED
      BY <1>4, <3>1, <3>2, FS_Subset
  <2> HIDE DEF fit
  <2> QED
    BY <2>1, FS_CardinalityType, FS_EmptySet
<1>7. /\ order \in [1..Cardinality(fit) -> fit] /\ \A i \in fit : \E k \in DOMAIN order : order[k] = i
      /\ \A i, j \in DOMAIN order : i < j => order[i] < order[j]
  BY DEF Ascending, ToSet
<1> HIDE DEF fit
<1> DEFINE events == [k \in DOMAIN order |-> tried[order[k]]]
<1>8. events \in Seq(Event) /\ AllAware(pipe'.ids, events) /\ (fit # {} => events # <<>>)
  <2>1. \A k \in DOMAIN order : order[k] \in DOMAIN tried
    BY <1>6, <1>7
  <2>2. events \in [1..Cardinality(fit) -> Event]
    BY <1>4, <1>7, <2>1
  <2>3. events \in Seq(Event) /\ Len(events) = Cardinality(fit)
    <3> HIDE DEF events
    <3> QED
      BY <1>6, <2>2
  <2>4. AllAware(pipe'.ids, events)
    BY <1>4, <1>5, <2>1 DEF AllAware
  <2> HIDE DEF events
  <2> QED
    BY <1>6, <2>3, <2>4
<1> HIDE DEF events
<1>9. Carrying(Idle, pipe'.ids, c)
  BY IdleCarries
<1>10. ASSUME fit # {}
       PROVE  Carrying(Boarded(events, others # {}), pipe'.ids, c)
  <2> DEFINE board == Boarded(events, others # {})
  <2>1. /\ board \in Flight /\ board.events = events /\ board.results = <<>>
        /\ board.stage \in {"batch", "items"} /\ (board.stage = "items" => board.at = 1)
    BY <1>8 DEF Boarded, Flight
  <2> HIDE DEF board
  <2>2. events # <<>> /\ Len(events) >= 1 /\ Len(<<>>) = 0
    BY <1>8, <1>10
  <2>3. AllAware(pipe'.ids, board.events) /\ Honest(c, board.events, board.results)
    BY <1>8, <2>1 DEF Honest
  <2> QED
    BY <2>1, <2>2, <2>3 DEF Carrying, board
<1>11. ASSUME NEW g \in Slots
       PROVE  /\ Carrying(flights[g], pipe'.ids, c)
              /\ Carrying([flights[g] EXCEPT !.disturbed = TRUE], pipe'.ids, c)
  <2> DEFINE flight == flights[g]
             marked == [flight EXCEPT !.disturbed = TRUE]
  <2>1. Carrying(flight, pipe'.ids, c) /\ flight \in Flight
    BY <1>5 DEF Here
  <2> HIDE DEF flight
  <2>2. /\ marked \in Flight /\ marked.stage = flight.stage /\ marked.events = flight.events
        /\ marked.results = flight.results /\ marked.at = flight.at
    BY <2>1 DEF Flight
  <2> HIDE DEF marked
  <2>3. Carrying(marked, pipe'.ids, c)
    BY <2>1, <2>2 DEF Carrying
  <2> QED
    BY <2>1, <2>3 DEF marked, flight
<1>12. \A g \in Slots : Carrying(flights'[g], pipe'.ids, c)
  BY <1>3, <1>9, <1>10, <1>11 DEF events
<1>13. flights' \in [Slots -> Flight]
  BY <1>3, <1>12 DEF Carrying
<1>14. Distinct(events) /\ Prints(events) = {Fingerprint(batch[i]) : i \in fit}
  <2>1. \A k \in DOMAIN order : order[k] \in fit /\ order[k] \in DOMAIN tried /\ k \in Nat
    BY <1>6, <1>7
  <2>2. /\ DOMAIN events = DOMAIN order
        /\ \A k \in DOMAIN order : Fingerprint(events[k]) = Fingerprint(batch[order[k]])
    BY <1>4, <2>1 DEF events
  <2>3. ASSUME NEW j \in DOMAIN order, NEW k \in DOMAIN order,
               Fingerprint(events[j]) = Fingerprint(events[k])
        PROVE  j = k
    <3>1. order[j] \in DOMAIN batch /\ order[k] \in DOMAIN batch
      BY <1>1, <1>4, <2>1
    <3>2. order[j] = order[k] /\ order[j] \in Nat
      BY <1>a, <1>4, <2>1, <2>2, <2>3, <3>1 DEF Distinct
    <3>3. ~(order[j] < order[k]) /\ ~(order[k] < order[j])
      BY <3>2
    <3> QED
      BY <1>7, <2>1, <3>3
  <2>4. Prints(events) = {Fingerprint(batch[i]) : i \in fit}
    BY <1>7, <2>1, <2>2 DEF Prints
  <2> QED
    BY <2>2, <2>3, <2>4 DEF Distinct
<1>15. Tidy(pipe', Air(flights) \cup Prints(events))
  <2> DEFINE spent == {tried[i] : i \in DOMAIN tried \ fit}
             gone == {Fingerprint(event) : event \in spent}
  <2>1. gone = {Fingerprint(batch[i]) : i \in (1..Len(batch)) \ fit}
    BY <1>4
  <2>2. Prints(batch) = {Fingerprint(batch[i]) : i \in 1..Len(batch)}
    BY <1>1 DEF Prints
  <2>3. gone \subseteq Prints(batch)
    BY <2>1, <2>2
  <2>4. Tidy(pipe', (Air(flights) \cup Prints(batch)) \ gone)
    <3>1. Popped(p).rest \in Pipe
      BY <1>1 DEF Sound
    <3>2. gone \subseteq Air(flights) \cup Prints(batch)
      BY <2>3
    <3> HIDE DEF spent
    <3>3. pipe' = Release(Popped(p).rest, spent)
      BY <1>2 DEF spent
    <3> QED
      BY <1>a, <3>1, <3>2, <3>3, ReleaseTidy
  <2>5. \A i, j \in 1..Len(batch) : Fingerprint(batch[i]) = Fingerprint(batch[j]) => i = j
    BY <1>a, <1>1 DEF Distinct
  <2>6. gone \cap Prints(events) = {} /\ gone \cup Prints(events) = Prints(batch)
    <3>1. fit \subseteq 1..Len(batch)
      BY <1>4, <1>6
    <3>2. ASSUME NEW i \in (1..Len(batch)) \ fit, NEW j \in fit PROVE Fingerprint(batch[i]) # Fingerprint(batch[j])
      BY <2>5, <3>1
    <3> HIDE DEF gone
    <3> QED
      BY <1>14, <2>1, <2>2, <3>1, <3>2
  <2> HIDE DEF gone
  <2>7. (Air(flights) \cup Prints(batch)) \ gone = Air(flights) \cup Prints(events)
    BY <1>a, <2>6
  <2> QED
    BY <2>4, <2>7
<1>16. LiveIn(pipe', flights')
  <2>1. flights[f].events = <<>> /\ LiveIn(pipe, flights)
    BY DEF Here, LiveIn
  <2>2. Air(flights) = Others(flights, f)
    BY <2>1, AirApart
  <2>3. flights[f] \in Flight /\ \A g \in Slots : flights[g] \in Flight
    BY DEF Here
  <2>4. \A g \in Slots : g # f => flights'[g].events = flights[g].events /\ flights'[g].stage = flights[g].stage
    BY <1>3, <2>3 DEF Flight
  <2>5. /\ Prints(flights'[f].events) = Prints(events) /\ Distinct(flights'[f].events)
        /\ flights'[f].stage \in {"none", "nap"} => flights'[f].events = <<>>
    <3>1. CASE fit = {}
      <4>1. flights'[f] = Idle
        BY <1>3, <3>1
      <4>2. Prints(events) = {}
        BY <1>14, <3>1
      <4> QED
        BY <4>1, <4>2, EmptyPrints DEF Idle
    <3>2. CASE fit # {}
      <4>1. flights'[f] = Boarded(events, others # {})
        BY <1>3, <3>2 DEF events
      <4>2. flights'[f].events = events /\ flights'[f].stage \in {"batch", "items"}
        BY <4>1 DEF Boarded
      <4> QED
        BY <1>14, <4>2
    <3> QED
      BY <3>1, <3>2
  <2>6. Prints(events) \cap Others(flights, f) = {}
    <3>1. Prints(events) \subseteq Prints(batch)
      <4>1. fit \subseteq DOMAIN batch
        BY <1>1, <1>4, <1>6
      <4> QED
        BY <1>14, <4>1 DEF Prints
    <3> QED
      BY <1>a, <2>2, <3>1
  <2> HIDE DEF events
  <2>7. Tidy(pipe', Others(flights, f) \cup Prints(flights'[f].events))
    BY <1>15, <2>2, <2>5
  <2> QED
    BY <2>1, <2>4, <2>5, <2>6, <2>7, FlightChanged
<1> QED
  BY <1>5, <1>12, <1>13, <1>16 DEF There

LEMMA FreeSlotIsFree ==
    ASSUME settings \in Settings, Cardinality(Flying) < settings.flights
    PROVE  FreeSlot \in Slots /\ flights[FreeSlot].stage = "none"
<1> DEFINE free == Slots \ Flying
<1>1. MaxFlights \in Nat /\ settings.flights \in Nat /\ settings.flights <= MaxFlights
  BY SyncAssumption
<1>2. IsFiniteSet(Slots) /\ Cardinality(Slots) = MaxFlights
  <2>1. MaxFlights > 0
    BY SyncAssumption
  <2>2. IsFiniteSet(1..MaxFlights) /\ Cardinality(1..MaxFlights) = IF 1 > MaxFlights THEN 0 ELSE MaxFlights - 1 + 1
    BY <1>1, FS_Interval
  <2> QED
    BY <1>1, <2>1, <2>2 DEF Slots
<1>3. IsFiniteSet(Flying) /\ Cardinality(Flying) \in Nat
  BY <1>2, FS_Subset, FS_CardinalityType DEF Flying
<1>4. Slots # Flying
  BY <1>1, <1>2, <1>3
<1>5. free # {} /\ free \in SUBSET Nat
  BY <1>4 DEF Slots, Flying
<1>6. FreeSlot \in free
  <2>1. \E f \in free : \A g \in free : f <= g
    BY <1>5, LeastNumber
  <2>2. FreeSlot = CHOOSE f \in free : \A g \in free : f <= g
    BY DEF FreeSlot
  <2> HIDE DEF free
  <2> QED
    BY <2>1, <2>2
<1> QED
  BY <1>6 DEF Flying

LEMMA Flushed ==
    ASSUME NEW c, Here(c), NEW p, Sound(p, c), p.ids = pipe.ids, batching \in BOOLEAN,
           settings \in Settings, Cardinality(Flying) < settings.flights,
           Tidy(p, Air(flights)), NEW memory, Flush(p, memory)
    PROVE  There(c)
<1> PICK slot : slot = FreeSlot
  OBVIOUS
<1>0. slot \in Slots /\ flights[slot].stage = "none"
  BY FreeSlotIsFree
<1>a. LiveIn(p, flights)
  BY DEF Here, LiveIn
<1>1. CASE pipe' = p /\ UNCHANGED flights
  BY <1>1, <1>a DEF Here, There
<1>2. CASE pipe' = p /\ flights' = [flights EXCEPT ![slot].stage = "nap"]
  <2>1. ASSUME NEW g \in Slots
        PROVE  /\ flights'[g] \in Flight /\ Carrying(flights'[g], pipe'.ids, c)
               /\ flights'[g].events = flights[g].events
               /\ g # slot => flights'[g].stage = flights[g].stage
    <3> DEFINE flight == flights[g]
               asleep == [flight EXCEPT !.stage = "nap"]
    <3>1. flight \in Flight /\ Carrying(flight, pipe'.ids, c)
      BY <1>2 DEF Here
    <3>2. flights'[g] = IF g = slot THEN asleep ELSE flight
      BY <1>2 DEF Here
    <3> HIDE DEF flight
    <3>3. /\ asleep \in Flight /\ asleep.stage = "nap" /\ asleep.events = flight.events
          /\ asleep.results = flight.results
      BY <3>1 DEF Flight
    <3> HIDE DEF asleep
    <3>4. Carrying(asleep, pipe'.ids, c)
      BY <3>1, <3>3 DEF Carrying
    <3> QED
      BY <3>1, <3>2, <3>3, <3>4 DEF flight
  <2>2. DOMAIN flights' = Slots /\ flights' = [g \in Slots |-> flights'[g]]
    BY <1>2 DEF Here
  <2>3. Sound(pipe', c)
    BY <1>2
  <2>4. flights[slot].events = <<>>
    BY <1>0, <1>a DEF LiveIn
  <2>5. LiveIn(p, flights')
    <3>1. /\ \A g \in Slots : g # slot => flights'[g].events = flights[g].events /\ flights'[g].stage = flights[g].stage
          /\ flights'[slot].events = flights[slot].events
      BY <1>0, <2>1
    <3> QED
      BY <1>0, <1>a, <2>4, <3>1, FlightGoesOn, SMTT(30)
  <2> QED
    BY <1>2, <2>1, <2>2, <2>3, <2>5 DEF There
<1>3. CASE Depart(p, slot)
  BY <1>0, <1>3, Departed
<1> QED
  BY <1>1, <1>2, <1>3 DEF Flush

-----------------------------------------------------------------------------
(* Answers.                                                                *)

(* What a row of the CRM is worth: a success is about an event that the    *)
(* CRM took, at this request or earlier.                                   *)
LEMMA RowHonest ==
    ASSUME settings \in Settings, CrmOK(crm), NEW events \in Seq(Event), NEW rows \in RowsFor(events),
           NEW i \in DOMAIN events
    PROVE  /\ RowResult(settings, events[i].type, rows[i]) \in Result
           /\ RowResult(settings, events[i].type, rows[i]).success
                => Taken(Applied(events, rows), events[i])
<1> DEFINE row == rows[i]
           result == RowResult(settings, events[i].type, row)
           e == events[i].snapshot.entity
           payload == events[i].snapshot.payload
           won == row.verdict = "ok" /\ (row.action = "ignored" => settings.markIgnored)
           again == row.verdict = "retry"
<1>1. events[i] \in Event /\ e \in Entities /\ payload \in Payloads /\ payload # "none"
  BY EventParts
<1>2. row \in Rows /\ row.ids \in SUBSET Ids /\ row.verdict \in {"ok", "retry", "refused", "absent"}
  BY SyncAssumption DEF RowsFor, Ids
<1>3. row.action = "ignored" => crm[e].payload = payload
  BY DEF RowsFor
<1>4. result \in Result /\ (result.success => row.verdict = "ok")
  <2>1. /\ result = [success |-> won, retryable |-> again, ids |-> row.ids, signal |-> result.signal]
        /\ result.signal \in {"none", "missing_ids", "ambiguous_action"}
    BY DEF RowResult
  <2>2. won \in BOOLEAN /\ again \in BOOLEAN /\ (won => row.verdict = "ok")
    OBVIOUS
  <2> HIDE DEF won, again, result, row
  <2> QED
    BY <1>2, <2>1, <2>2 DEF Result
<1> HIDE DEF result
<1>5. CASE row.verdict = "ok" /\ row.action # "ignored"
  BY <1>4, <1>5, AppliedGrows DEF result
<1>6. CASE row.action = "ignored"
  <2>1. crm[e].no \in Nat /\ crm[e].payload = payload
    BY <1>1, <1>3, <1>6 DEF CrmOK, Crm
  <2>2. payload \in crm[e].ever
    BY <1>1, <2>1 DEF CrmOK
  <2>3. Grows(crm, Applied(events, rows))
    BY AppliedGrows
  <2>4. Taken(Applied(events, rows), events[i])
    BY <1>1, <2>2, <2>3 DEF Taken, Grows
  <2> QED
    BY <1>4, <2>4 DEF result
<1> QED
  BY <1>4, <1>5, <1>6 DEF result

(* Whatever the CRM did with a request, what was true of it stays true. *)
LEMMA StillHere ==
    ASSUME NEW c, Here(crm), Grows(crm, c)
    PROVE  Here(c)
<1>1. Sound(pipe, c)
  BY SoundStays DEF Here
<1>2. Learns(pipe.ids, pipe.ids)
  BY DEF Learns
<1>3. \A g \in Slots : Carrying(flights[g], pipe.ids, c)
  BY <1>2, CarryingStays DEF Here
<1> QED
  BY <1>1, <1>3 DEF Here

LEMMA CrmStays == CrmOK(crm) => CrmOK(crm) /\ Grows(crm, crm)
BY DEF Grows

LEMMA StatusFails ==
    ASSUME NEW status
    PROVE  StatusResult(status) \in Result /\ ~StatusResult(status).success
BY DEF StatusResult, Failure, Result

LEMMA FailureFails == Failure(FALSE) \in Result /\ ~Failure(FALSE).success
BY DEF Failure, Result

LEMMA BatchSent ==
    ASSUME SyncInv, NEW f \in Slots, SendBatch(f)
    PROVE  SyncInv' /\ Answered(f)
<1> DEFINE events == flights[f].events
           All(result) == [i \in DOMAIN events |-> result]
           end == Len(events) + 1
           Goal == SyncInv' /\ Answered(f)
<1>1. /\ settings \in Settings /\ CrmOK(crm) /\ Here(crm) /\ batching \in BOOLEAN /\ yielded \in Nat
      /\ flights[f].stage = "batch" /\ settings' = settings /\ yielded' = yielded
  BY DEF SyncInv, Here, SendBatch
<1>2. events \in Seq(Event) /\ events # <<>> /\ DOMAIN events = 1..Len(events) /\ Len(events) \in Nat
  BY <1>1 DEF Here, Carrying, Flight
<1>3. ASSUME batching' \in BOOLEAN, CrmOK(crm'), There(crm'),
             NEW n \in Nat, n >= 1, Outcome(f, n), Writes(f, n)
      PROVE  Goal
  <2>1. Start(flights[f]) <= n
    BY <1>1, <1>3 DEF Start
  <2> QED
    BY <1>1, <1>3, <2>1 DEF SyncInv, Here, There, Answered
<1>a. ASSUME NEW rows, crm' \in {crm, Applied(events, rows)}
      PROVE  Writes(f, end)
  <2>1. ASSUME NEW e \in Entities
        PROVE  crm'[e].no = crm[e].no \/ \E i \in DOMAIN events : crm'[e].no = events[i].no
    BY <1>1, <1>2, <1>a, AppliedGrows
  <2>2. \A i \in DOMAIN events : 1 <= i /\ i < end
    BY <1>2
  <2>3. Start(flights[f]) = 1
    BY <1>1 DEF Start
  <2> HIDE DEF end
  <2> QED
    BY <2>1, <2>2, <2>3 DEF Writes
<1>b. end \in Nat /\ end >= 1
  BY <1>2
<1> HIDE DEF events, Goal, end
<1>4. ASSUME NEW rows, crm' \in {crm, Applied(events, rows)}
      PROVE  CrmOK(crm') /\ Grows(crm, crm') /\ Here(crm')
  BY <1>1, <1>2, <1>4, AppliedGrows, CrmStays, StillHere
<1>5. ASSUME NEW rows \in RowsFor(events), ~Malformed(rows), crm' = Applied(events, rows),
             Proceed(f, "batch", 0, BatchResults(events, rows)), UNCHANGED batching
      PROVE  Goal
  <2> DEFINE results == BatchResults(events, rows)
  <2>1. \A i \in DOMAIN events : results[i] = RowResult(settings, events[i].type, rows[i])
    BY <1>5 DEF BatchResults
  <2>2. DOMAIN results = DOMAIN events /\ results = [i \in DOMAIN events |-> results[i]]
    BY DEF BatchResults
  <2> HIDE DEF results
  <2>3. \A i \in DOMAIN events : results[i] \in Result /\ (results[i].success => Taken(crm', events[i]))
    BY <1>1, <1>2, <1>5, <2>1, RowHonest
  <2>4. results \in Seq(Result) /\ Len(results) = Len(events)
    BY <1>2, <2>2, <2>3
  <2>5. Honest(crm', events, results)
    BY <2>2, <2>3 DEF Honest
  <2>6. CrmOK(crm') /\ Here(crm')
    BY <1>4, <1>5
  <2>7. There(crm') /\ Outcome(f, end)
    BY <1>1, <1>2, <1>b, <1>5, <2>4, <2>5, <2>6, Proceeded DEF results, events
  <2> QED
    BY <1>1, <1>3, <1>a, <1>b, <1>5, <2>6, <2>7
<1>6. ASSUME NEW rows \in RowsFor(events), Malformed(rows), crm' \in {crm, Applied(events, All(FullRow))},
             GiveUp(f, TRUE) \/ Proceed(f, "batch", 0, BatchResults(events, rows)),
             UNCHANGED batching
      PROVE  Goal
  <2> DEFINE results == BatchResults(events, rows)
  <2>1. results = [i \in DOMAIN events |-> Failure(FALSE)]
    BY <1>6 DEF BatchResults
  <2> HIDE DEF results
  <2>2. results \in Seq(Result) /\ Len(results) = Len(events) /\ Honest(crm', events, results)
    <3>1. \A i \in DOMAIN events : results[i] \in Result /\ ~results[i].success
      BY <2>1, FailureFails
    <3>2. DOMAIN results = DOMAIN events /\ results \in [1..Len(events) -> Result]
      BY <1>2, <2>1, <3>1
    <3> QED
      BY <1>2, <3>1, <3>2 DEF Honest
  <2> HIDE DEF All
  <2>3. CrmOK(crm') /\ Here(crm')
    BY <1>4, <1>6
  <2>4. There(crm') /\ Outcome(f, end)
    <3>1. CASE GiveUp(f, TRUE)
      BY <2>3, <3>1, GivenUp
    <3>2. CASE Proceed(f, "batch", 0, BatchResults(events, rows))
      BY <1>1, <1>2, <1>b, <2>2, <2>3, <3>2, Proceeded DEF results, events
    <3> QED
      BY <1>6, <3>1, <3>2
  <2> QED
    BY <1>1, <1>3, <1>a, <1>b, <1>6, <2>3, <2>4
<1>7. ASSUME NEW status, Finalize(f, All(StatusResult(status))),
             crm' \in {crm, Applied(events, All(FullRow))}, UNCHANGED batching
      PROVE  Goal
  <2>1. /\ All(StatusResult(status)) \in [DOMAIN events -> Result]
        /\ Honest(crm', events, All(StatusResult(status)))
    BY StatusFails DEF Honest
  <2> HIDE DEF All
  <2>2. CrmOK(crm') /\ Here(crm')
    BY <1>4, <1>7
  <2>3. There(crm') /\ Outcome(f, end)
    BY <1>1, <1>7, <2>1, <2>2, Finalized DEF events
  <2> QED
    BY <1>1, <1>3, <1>a, <1>b, <1>7, <2>2, <2>3
<1>8. ASSUME batching' = FALSE, Proceed(f, "items", 0, <<>>), UNCHANGED crm
      PROVE  Goal
  <2> DEFINE results == <<>>
  <2>1. results \in Seq(Result) /\ Len(results) = 0 /\ Honest(crm', events, results)
    BY DEF Honest
  <2> HIDE DEF results
  <2> PICK at \in Nat, stage \in {"items"} : at = 0
    OBVIOUS
  <2>2. CrmOK(crm') /\ Here(crm') /\ Proceed(f, stage, at, results) /\ at <= Len(events)
    BY <1>1, <1>2, <1>8 DEF results
  <2> PICK next \in Nat : next = at + 1
    OBVIOUS
  <2>3. There(crm') /\ Outcome(f, next)
    BY <1>1, <1>2, <2>1, <2>2, Proceeded DEF events
  <2>4. next >= 1 /\ Writes(f, next)
    BY <1>8 DEF Writes
  <2> QED
    BY <1>3, <1>8, <2>2, <2>3, <2>4
<1>9. ASSUME TryAgain(f) \/ GiveUp(f, settings.failFast),
             crm' \in {crm, Applied(events, All(FullRow))}, UNCHANGED batching
      PROVE  Goal
  <2> HIDE DEF All
  <2>1. CrmOK(crm') /\ Here(crm')
    BY <1>4, <1>9
  <2>2. There(crm') /\ Outcome(f, end)
    BY <1>9, <2>1, GivenUp, TriedAgain
  <2> QED
    BY <1>1, <1>3, <1>a, <1>b, <1>9, <2>1, <2>2 DEF All
<1>10. \/ \E rows \in RowsFor(events) :
            /\ ~Malformed(rows) /\ crm' = Applied(events, rows)
            /\ Proceed(f, "batch", 0, BatchResults(events, rows)) /\ UNCHANGED batching
       \/ \E rows \in RowsFor(events) :
            /\ Malformed(rows) /\ crm' \in {crm, Applied(events, All(FullRow))}
            /\ GiveUp(f, TRUE) \/ Proceed(f, "batch", 0, BatchResults(events, rows))
            /\ UNCHANGED batching
       \/ /\ TryAgain(f) \/ Finalize(f, All(StatusResult("busy")))
          /\ UNCHANGED <<crm, batching>>
       \/ /\ crm' \in {crm, Applied(events, All(FullRow))}
          /\ \E status \in ForeignStatus : Finalize(f, All(StatusResult(status)))
          /\ UNCHANGED batching
       \/ batching' = FALSE /\ Proceed(f, "items", 0, <<>>) /\ UNCHANGED crm
       \/ /\ crm' \in {crm, Applied(events, All(FullRow))}
          /\ TryAgain(f) \/ GiveUp(f, settings.failFast)
          /\ UNCHANGED batching
  BY DEF SendBatch, events
<1>11. UNCHANGED crm => crm' \in {crm, Applied(events, All(FullRow))}
  OBVIOUS
<1> HIDE DEF All
<1> QED
  BY <1>5, <1>6, <1>7, <1>8, <1>9, <1>10, <1>11 DEF Goal

LEMMA OneSent ==
    ASSUME SyncInv, NEW f \in Slots, SendOne(f)
    PROVE  SyncInv' /\ Answered(f)
<1> DEFINE flight == flights[f]
           event == flight.events[flight.at]
           Extended(result) == IF flight.stage = "items" THEN Append(flight.results, result)
                               ELSE [flight.results EXCEPT ![flight.at] = result]
           Next1(result) == Proceed(f, flight.stage, flight.at, Extended(result))
           Held(row) == Applied(<<event>>, <<row>>)
           end == flight.at + 1
           Goal == SyncInv' /\ Answered(f)
<1>1. /\ settings \in Settings /\ CrmOK(crm) /\ Here(crm) /\ batching \in BOOLEAN /\ yielded \in Nat
      /\ settings' = settings /\ yielded' = yielded /\ batching' = batching
      /\ flight.stage \in {"items", "again"}
  BY DEF SyncInv, Here, SendOne
<1>2. flight \in Flight /\ Carrying(flight, pipe.ids, crm)
  BY <1>1, SMTT(30) DEF Here
<1>3. \/ \E rows \in RowsFor(<<event>>) :
            crm' = Held(rows[1]) /\ Next1(RowResult(settings, event.type, rows[1]))
      \/ (TryAgain(f) \/ Next1(StatusResult("busy"))) /\ UNCHANGED crm
      \/ /\ crm' \in {crm, Held(FullRow)}
         /\ \E status \in ForeignStatus : Next1(StatusResult(status))
      \/ /\ crm' \in {crm, Held(FullRow)}
         /\ TryAgain(f) \/ GiveUp(f, settings.failFast)
  BY DEF SendOne
<1> HIDE DEF flight
<1>4. /\ flight.events \in Seq(Event) /\ flight.results \in Seq(Result) /\ flight.at \in Nat
      /\ flight.at \in DOMAIN flight.events /\ flight.events # <<>>
      /\ flight.stage = "items" => flight.at = Len(flight.results) + 1
      /\ flight.stage = "again" => Len(flight.results) = Len(flight.events)
  BY <1>1, <1>2 DEF Carrying, Flight
<1>5. event \in Event /\ <<event>> \in Seq(Event) /\ DOMAIN <<event>> = {1} /\ <<event>>[1] = event
  BY <1>4
<1> HIDE DEF event
<1>6. ASSUME CrmOK(crm'), There(crm'), Outcome(f, end), Writes(f, end)
      PROVE  Goal
  <2>1. end \in Nat /\ Start(flights[f]) <= end
    BY <1>1, <1>4 DEF Start, flight
  <2> QED
    BY <1>1, <1>6, <2>1 DEF SyncInv, Here, There, Answered
<1>a. ASSUME NEW row, crm' \in {crm, Held(row)}
      PROVE  Writes(f, end)
  <2>1. ASSUME NEW e \in Entities
        PROVE  crm'[e].no = crm[e].no \/ crm'[e].no = event.no
    <3> DEFINE one == <<event>>
    <3>1. one \in Seq(Event) /\ \A i \in DOMAIN one : one[i] = event
      BY <1>5
    <3> HIDE DEF one
    <3>2. \/ Applied(one, <<row>>)[e].no = crm[e].no
          \/ \E i \in DOMAIN one : Applied(one, <<row>>)[e].no = one[i].no
      BY <1>1, <3>1, AppliedGrows
    <3>3. crm' \in {crm, Applied(one, <<row>>)}
      BY <1>a DEF one
    <3> QED
      BY <3>1, <3>2, <3>3
  <2>2. /\ flight.at \in DOMAIN flights[f].events /\ event = flights[f].events[flight.at]
        /\ Start(flights[f]) <= flight.at /\ flight.at < end
    BY <1>1, <1>4 DEF Start, flight, event
  <2> HIDE DEF end
  <2> QED
    BY <2>1, <2>2 DEF Writes
<1>b. end \in Nat
  BY <1>4
<1> HIDE DEF Goal, end
<1>7. ASSUME NEW row, crm' \in {crm, Held(row)}
      PROVE  CrmOK(crm') /\ Grows(crm, crm') /\ Here(crm')
  BY <1>1, <1>5, <1>7, AppliedGrows, CrmStays, StillHere
<1>8. ASSUME NEW row, crm' \in {crm, Held(row)}, NEW result \in Result,
             result.success => Taken(crm', event), Next1(result)
      PROVE  Goal
  <2> DEFINE results == Extended(result)
  <2>1. CrmOK(crm') /\ Here(crm')
    BY <1>7, <1>8
  <2>2. Honest(crm', flight.events, flight.results)
    BY <2>1 DEF Here, Carrying, flight
  <2>3. /\ results \in Seq(Result)
        /\ \A i \in DOMAIN results :
             \/ i = flight.at /\ results[i] = result
             \/ i \in DOMAIN flight.results /\ results[i] = flight.results[i]
        /\ flight.stage = "items" => Len(results) = flight.at
        /\ flight.stage = "again" => Len(results) = Len(flight.events)
    <3>1. CASE flight.stage = "items"
      <4>1. results = Append(flight.results, result)
        BY <3>1
      <4>2. /\ Len(flight.results) \in Nat /\ Append(flight.results, result) \in Seq(Result)
            /\ Len(Append(flight.results, result)) = Len(flight.results) + 1
            /\ \A i \in 1..Len(flight.results) : Append(flight.results, result)[i] = flight.results[i]
            /\ Append(flight.results, result)[Len(flight.results) + 1] = result
        BY <1>4, AppendProperties
      <4> HIDE DEF results
      <4> QED
        BY <1>4, <3>1, <4>1, <4>2
    <3>2. CASE flight.stage = "again"
      <4>1. results = [flight.results EXCEPT ![flight.at] = result]
        BY <3>2
      <4>2. flight.at \in 1..Len(flight.results)
        BY <1>4, <3>2
      <4>3. /\ [flight.results EXCEPT ![flight.at] = result] \in Seq(Result)
            /\ Len([flight.results EXCEPT ![flight.at] = result]) = Len(flight.results)
            /\ \A i \in 1..Len(flight.results) :
                 [flight.results EXCEPT ![flight.at] = result][i]
                   = IF i = flight.at THEN result ELSE flight.results[i]
        BY <1>4, <4>2, ExceptSeq
      <4> HIDE DEF results
      <4> QED
        BY <1>4, <3>2, <4>1, <4>3
    <3> QED
      BY <1>1, <3>1, <3>2
  <2> HIDE DEF results
  <2>4. Honest(crm', flight.events, results)
    BY <1>4, <1>8, <2>2, <2>3 DEF Honest, event
  <2>5. Proceed(f, flight.stage, flight.at, results)
    BY <1>8 DEF results
  <2> HIDE DEF Extended
  <2> PICK stage \in {"items", "again"} : stage = flight.stage
    BY <1>1
  <2> PICK at \in Nat : at = flight.at
    BY <1>4
  <2>6. There(crm') /\ Outcome(f, end)
    <3>1. /\ stage = "items" => Len(results) = at /\ at <= Len(flights[f].events)
          /\ stage # "items" => Len(results) = Len(flights[f].events)
          /\ flights[f].events # <<>> /\ Honest(crm', flights[f].events, results)
          /\ Proceed(f, stage, at, results)
      BY <1>1, <1>4, <2>3, <2>4, <2>5 DEF flight
    <3>2. stage = "items" => end = at + 1 /\ flights[f].stage \in {"batch", "items"}
      BY DEF end, flight
    <3> QED
      BY <1>1, <1>b, <2>1, <2>3, <3>1, <3>2, Proceeded
  <2> QED
    BY <1>6, <1>a, <1>8, <2>1, <2>6
<1>9. ASSUME NEW rows \in RowsFor(<<event>>), crm' = Held(rows[1]),
             Next1(RowResult(settings, event.type, rows[1]))
      PROVE  Goal
  <2> DEFINE row == rows[1]
             result == RowResult(settings, event.type, row)
  <2>1. <<row>> \in RowsFor(<<event>>) /\ <<row>>[1] = row
    <3>1. rows[1] \in Rows
      BY <1>5 DEF RowsFor
    <3>2. rows[1].action = "ignored" =>
            crm[event.snapshot.entity].payload = event.snapshot.payload
      BY <1>5 DEF RowsFor
    <3> HIDE DEF row
    <3>3. row \in Rows
      BY <3>1 DEF row
    <3>4. <<row>> \in [DOMAIN <<event>> -> Rows]
      BY <1>5, <3>3
    <3>5. <<row>>[1] = row
      OBVIOUS
    <3> QED
      BY <1>5, <3>2, <3>4, <3>5 DEF RowsFor, row
  <2> HIDE DEF row
  <2>2. result \in Result /\ (result.success => Taken(Held(row), event))
    <3>1. 1 \in DOMAIN <<event>>
      BY <1>5
    <3>2. /\ RowResult(settings, <<event>>[1].type, <<row>>[1]) \in Result
          /\ RowResult(settings, <<event>>[1].type, <<row>>[1]).success
               => Taken(Applied(<<event>>, <<row>>), <<event>>[1])
      BY <1>1, <1>5, <2>1, <3>1, RowHonest
    <3> QED
      BY <1>5, <2>1, <3>2
  <2>3. crm' = Held(row) /\ Next1(result)
    BY <1>9 DEF row
  <2> HIDE DEF result, Next1, Held
  <2> QED
    BY <1>8, <2>2, <2>3
<1>10. ASSUME NEW status, crm' \in {crm, Held(FullRow)}, Next1(StatusResult(status))
       PROVE  Goal
  <2> HIDE DEF Next1, Held
  <2> QED
    BY <1>8, <1>10, StatusFails
<1>11. ASSUME crm' \in {crm, Held(FullRow)}, TryAgain(f) \/ GiveUp(f, settings.failFast)
       PROVE  Goal
  <2> HIDE DEF Held
  <2>1. CrmOK(crm') /\ Here(crm')
    BY <1>7, <1>11
  <2>2. There(crm') /\ Outcome(f, end)
    BY <1>11, <2>1, GivenUp, TriedAgain
  <2> QED
    BY <1>6, <1>a, <1>11, <2>1, <2>2 DEF Held
<1>12. UNCHANGED crm => crm' \in {crm, Held(FullRow)}
  OBVIOUS
<1> HIDE DEF Next1, Held
<1> QED
  BY <1>3, <1>9, <1>10, <1>11, <1>12 DEF Goal

-----------------------------------------------------------------------------
(* Items.                                                                  *)

LEMMA ItemProcessed ==
    ASSUME SyncInv, NEW n \in settings.catalog, ProcessItem(n)
    PROVE  SyncInv'
<1> DEFINE event == Numbered(EventFor(settings, n, pipe.ids[n.entity], "none"), yielded + 1)
           added == AddEvent(pipe, event)
           Goal == SyncInv'
<1>1. /\ settings \in Settings /\ CrmOK(crm) /\ Here(crm) /\ batching \in BOOLEAN /\ yielded \in Nat
      /\ n \in Snapshots /\ n.entity \in Entities
  BY SyncAssumption DEF SyncInv, Here
<1>b. Cardinality(Flying) < settings.flights
  BY DEF ProcessItem
<1>2. /\ settings' = settings /\ yielded' = yielded + 1 /\ batching' = batching /\ crm' = crm
      /\ \/ UNCHANGED <<pipe, flights>>
         \/ pipe' = added /\ UNCHANGED flights
         \/ \E memory \in {"low", "high", "critical"} : Flush(added, memory)
  BY DEF ProcessItem
<1>3. event \in Event /\ Aware(pipe.ids, event)
  <2>1. pipe.ids[n.entity] \in SUBSET Ids /\ yielded + 1 \in Nat \ {0}
    BY <1>1 DEF Here, Sound, Pipe
  <2>2. /\ event \in Event /\ event.snapshot = n
        /\ event.type # "product_found" => RequiredId(event.type) \in pipe.ids[n.entity]
    BY <1>1, <2>1, EventIsTyped
  <2> HIDE DEF event
  <2> QED
    BY <2>2 DEF Aware
<1> HIDE DEF event
<1>4. Sound(added, crm) /\ added.ids = pipe.ids /\ Tidy(added, Air(flights))
  <2>1. pipe \in Pipe /\ Tidy(pipe, Air(flights)) /\ Sound(pipe, crm)
    BY <1>1 DEF Here, Sound, LiveIn
  <2> QED
    BY <1>3, <2>1, AddEventSound, AddTidy
<1> HIDE DEF added
<1>5. ASSUME There(crm)
      PROVE  Goal
  BY <1>1, <1>2, <1>5 DEF SyncInv, Here, There
<1> HIDE DEF Goal
<1>6. CASE UNCHANGED <<pipe, flights>>
  BY <1>1, <1>5, <1>6 DEF Here, There, Goal
<1>7. CASE pipe' = added /\ UNCHANGED flights
  BY <1>1, <1>4, <1>5, <1>7 DEF Here, There, LiveIn, Goal
<1>8. CASE \E memory \in {"low", "high", "critical"} : Flush(added, memory)
  BY <1>1, <1>b, <1>4, <1>5, <1>8, Flushed DEF Goal
<1> QED
  BY <1>2, <1>6, <1>7, <1>8 DEF Goal

LEMMA BatchLeaves ==
    ASSUME SyncInv, NEW f \in Slots, flights[f].stage \in {"none", "nap"}, Depart(pipe, f),
           UNCHANGED <<settings, yielded, batching, crm>>
    PROVE  SyncInv'
<1>1. /\ settings \in Settings /\ Here(crm) /\ batching \in BOOLEAN
      /\ Sound(pipe, crm) /\ Tidy(pipe, Air(flights))
  BY DEF SyncInv, Here, LiveIn
<1>2. There(crm)
  BY <1>1, Departed
<1> QED
  BY <1>2 DEF SyncInv, Here, There

-----------------------------------------------------------------------------
(* The theorems.                                                           *)

LEMMA SyncInit == Init => SyncInv
<1> SUFFICES ASSUME Init PROVE SyncInv
  OBVIOUS
<1>1. CrmOK(crm)
  BY DEF Init, CrmOK, Crm, NoRow
<1>2. Sound(pipe, crm)
  BY DEF Init, NewPipe, Sound, Pipe, AllAware
<1>3. flights \in [Slots -> Flight] /\ \A f \in Slots : flights[f] = Idle
  BY DEF Init, Idle, Flight
<1>4. \A f \in Slots : Carrying(flights[f], pipe.ids, crm)
  BY <1>3, IdleCarries
<1>5. LiveIn(pipe, flights)
  <2>1. \A f \in Slots : flights[f].events = <<>>
    BY <1>3 DEF Idle
  <2>2. Air(flights) = {}
    BY <2>1, EmptyPrints DEF Air
  <2>3. pipe.outstanding = {} /\ pipe.pending = <<>> /\ pipe.retry = <<>>
    BY DEF Init, NewPipe
  <2>4. Tidy(pipe, Air(flights))
    BY <2>2, <2>3, EmptyPrints DEF Tidy
  <2> QED
    BY <2>1, <2>4, EmptyPrints DEF LiveIn
<1> QED
  BY <1>1, <1>2, <1>3, <1>4, <1>5 DEF Init, SyncInv, Here

LEMMA SyncStep == SyncInv /\ [Next]_vars => SyncInv'
<1> SUFFICES ASSUME SyncInv, [Next]_vars PROVE SyncInv'
  OBVIOUS
<1>1. ASSUME UNCHANGED <<settings, yielded, pipe, flights, batching, crm>>
      PROVE  SyncInv'
  BY <1>1 DEF SyncInv, Here
<1>2. CASE ReadPage
  BY <1>1, <1>2 DEF ReadPage
<1>3. ASSUME NEW n \in settings.catalog, ProcessItem(n) PROVE SyncInv'
  BY <1>3, ItemProcessed
<1>4. ASSUME NEW f \in Slots, Step(f) PROVE SyncInv'
  <2>1. CASE WakeUp(f)
    BY <2>1, BatchLeaves DEF WakeUp
  <2>2. CASE SendBatch(f)
    BY <2>2, BatchSent
  <2>3. CASE SendOne(f)
    BY <2>3, OneSent
  <2> QED
    BY <1>4, <2>1, <2>2, <2>3 DEF Step
<1>5. CASE StartClosing
  BY <1>1, <1>5 DEF StartClosing
<1>6. CASE Finish
  <2>1. CASE FlushRemaining
    <3>1. 1 \in Slots /\ flights[1].stage = "none"
      BY <2>1, SyncAssumption DEF FlushRemaining, Flying, Slots
    <3> QED
      BY <2>1, <3>1, BatchLeaves DEF FlushRemaining
  <2>2. CASE Closed
    BY <1>1, <2>2 DEF Closed
  <2> QED
    BY <1>6, <2>1, <2>2 DEF Finish
<1>7. CASE UNCHANGED vars
  BY <1>1, <1>7 DEF vars
<1> QED
  BY <1>2, <1>3, <1>4, <1>5, <1>6, <1>7 DEF Next

(* What holds of the pipeline, its flights and the CRM after every step of *)
(* the spider, the flushes and the CRM.                                    *)
THEOREM SyncInvariant == Spec => []SyncInv
BY SyncInit, SyncStep, PTL DEF Spec

(* process_item skips a snapshot as already sent only when the CRM applied *)
(* its payload: answers that are lost, refused or late, batches that count *)
(* only as a whole and retries never make the run remember more.           *)
THEOREM RememberedIsApplied == Spec => []DeliveredIsApplied
<1>1. SyncInv => DeliveredIsApplied
  BY DEF SyncInv, Here, Sound, DeliveredIsApplied
<1> QED
  BY <1>1, SyncInvariant, PTL

(* A delta built from runtime ids is about an entity the CRM has, and its  *)
(* id is known, wherever the delta waits and however late it is sent.      *)
THEOREM DeltasKnowTheirEntity == Spec => []DeltaKnowsEntity
<1>1. SyncInv => DeltaKnowsEntity
  <2> SUFFICES ASSUME SyncInv, NEW l \in Live, EventOf(l).type # "product_found"
               PROVE  /\ crm[EventOf(l).snapshot.entity].no > 0
                      /\ RequiredId(EventOf(l).type) \in pipe.ids[EventOf(l).snapshot.entity]
    BY DEF DeltaKnowsEntity
  <2>0. PICK place \in {0} \cup Slots : l \in {place} \X DOMAIN EventsAt(place)
    BY DEF Live
  <2>1. l[1] = place /\ l[2] \in DOMAIN EventsAt(place)
    BY <2>0
  <2>2. EventsAt(place) \in Seq(Event) /\ AllAware(pipe.ids, EventsAt(place))
    <3>1. CASE place = 0
      <4>1. /\ pipe.pending \in Seq(Event) /\ pipe.retry \in Seq(Event)
            /\ AllAware(pipe.ids, pipe.pending) /\ AllAware(pipe.ids, pipe.retry)
        BY DEF SyncInv, Here, Sound, Pipe
      <4> QED
        BY <3>1, <4>1, AwareConcat DEF EventsAt, Work
    <3>2. CASE place # 0
      BY <2>1, <3>2 DEF SyncInv, Here, Carrying, Flight, EventsAt
    <3> QED
      BY <3>1, <3>2
  <2>3. EventOf(l) \in Event /\ Aware(pipe.ids, EventOf(l))
    BY <2>1, <2>2 DEF EventOf, AllAware
  <2>4. EventOf(l).snapshot.entity \in Entities
    BY <2>3, EventParts
  <2>5. RequiredId(EventOf(l).type) \in pipe.ids[EventOf(l).snapshot.entity]
    BY <2>3 DEF Aware
  <2> QED
    BY <2>4, <2>5 DEF SyncInv, Here, Sound
<1> QED
  BY <1>1, SyncInvariant, PTL


(* Every fingerprint kept for deduplication belongs to exactly one event   *)
(* that waits or is in flight: what is put back stays, what is done, given *)
(* up or tried often enough is released, and a resend adds no second one.  *)
THEOREM OutstandingAlwaysLive == Spec => []OutstandingIsLive
<1>1. SyncInv => OutstandingIsLive
  <2> SUFFICES ASSUME SyncInv PROVE OutstandingIsLive
    OBVIOUS
  <2> DEFINE places == {0} \cup Slots
             P(place) == Prints(EventsAt(place))
  <2>1. /\ pipe.pending \in Seq(Event) /\ pipe.retry \in Seq(Event)
        /\ Tidy(pipe, Air(flights)) /\ LiveIn(pipe, flights)
    BY DEF SyncInv, Here, Sound, Pipe, LiveIn
  <2>2. /\ EventsAt(0) = pipe.pending \o pipe.retry /\ 0 \notin Slots
        /\ \A f \in Slots : EventsAt(f) = flights[f].events
    BY DEF EventsAt, Work, Slots
  <2>3. P(0) = Prints(pipe.pending) \cup Prints(pipe.retry) /\ Distinct(EventsAt(0))
    <3>1. /\ Distinct(pipe.pending) /\ Distinct(pipe.retry)
          /\ Prints(pipe.pending) \cap Prints(pipe.retry) = {}
      BY <2>1 DEF Tidy
    <3>2. /\ Prints(pipe.pending \o pipe.retry) = Prints(pipe.pending) \cup Prints(pipe.retry)
          /\ Distinct(pipe.pending \o pipe.retry)
      BY <2>1, <3>1, PrintsConcat
    <3> QED
      BY <2>2, <3>2
  <2>4. \A f \in Slots : P(f) = Prints(flights[f].events) /\ Distinct(EventsAt(f)) /\ P(f) \subseteq Air(flights)
    BY <2>1, <2>2 DEF LiveIn, Air
  <2>5. pipe.outstanding = UNION {P(place) : place \in places}
    <3>1. Air(flights) = UNION {P(f) : f \in Slots}
      BY <2>4 DEF Air
    <3>2. pipe.outstanding = P(0) \cup Air(flights)
      BY <2>1, <2>3 DEF Tidy
    <3> HIDE DEF P
    <3> QED
      BY <3>1, <3>2
  <2>6. \A place, other \in places : place # other => P(place) \cap P(other) = {}
    <3>1. ASSUME NEW f \in Slots PROVE P(0) \cap P(f) = {}
      BY <2>1, <2>3, <2>4 DEF Tidy
    <3>2. \A f, g \in Slots : f # g => P(f) \cap P(g) = {}
      BY <2>1, <2>4 DEF LiveIn
    <3> HIDE DEF P
    <3> QED
      BY <3>1, <3>2
  <2>7. \A place \in places : Distinct(EventsAt(place))
    BY <2>3, <2>4
  <2>8. \A l \in Live : /\ l = <<l[1], l[2]>> /\ l[1] \in places /\ l[2] \in DOMAIN EventsAt(l[1])
                        /\ EventOf(l) = EventsAt(l[1])[l[2]]
    BY DEF Live, EventOf
  <2>9. \A place \in places : \A i \in DOMAIN EventsAt(place) :
          <<place, i>> \in Live /\ EventOf(<<place, i>>) = EventsAt(place)[i]
    BY DEF Live, EventOf
  <2> HIDE DEF places
  <2>10. {Fingerprint(EventOf(l)) : l \in Live} = UNION {P(place) : place \in places}
    <3>1. ASSUME NEW l \in Live PROVE Fingerprint(EventOf(l)) \in UNION {P(place) : place \in places}
      BY <2>8 DEF Prints
    <3>2. ASSUME NEW place \in places, NEW i \in DOMAIN EventsAt(place)
          PROVE  Fingerprint(EventsAt(place)[i]) \in {Fingerprint(EventOf(l)) : l \in Live}
      BY <2>9
    <3> QED
      BY <3>1, <3>2 DEF Prints
  <2>11. ASSUME NEW k \in Live, NEW l \in Live, Fingerprint(EventOf(k)) = Fingerprint(EventOf(l))
         PROVE  k = l
    <3>1. Fingerprint(EventOf(k)) \in P(k[1]) /\ Fingerprint(EventOf(l)) \in P(l[1])
      BY <2>8 DEF Prints
    <3>2. k[1] = l[1]
      BY <2>6, <2>8, <2>11, <3>1
    <3>3. k[2] = l[2]
      BY <2>7, <2>8, <2>11, <3>2 DEF Distinct
    <3> QED
      BY <2>8, <3>2, <3>3
  <2> QED
    BY <2>5, <2>10, <2>11 DEF OutstandingIsLive
<1> QED
  BY <1>1, SyncInvariant, PTL

-----------------------------------------------------------------------------
(* Order.  q is the queue of the events that were never sent, y how many   *)
(* items came.  A number has left when every event of the queue is newer.  *)

Left(n, q, y) == n <= y /\ \A x \in ToSet(q) : n < x.no
Tried(event, q, y) == event.attempts > 0 /\ Left(event.no, q, y)

InOrder(q, y) ==
    /\ \A i \in DOMAIN q : q[i].attempts = 0 /\ q[i].no <= y
    /\ \A i, j \in DOMAIN q : i < j => q[i].no < q[j].no

(* The first tries of a flight are newer than what precedes them, and,     *)
(* while nothing disturbed it, than what the CRM holds: then no other      *)
(* flight is at work.                                                      *)
Rising(flight) ==
    \A i, j \in DOMAIN flight.events :
        i < j /\ flight.events[j].attempts = 1 => flight.events[i].no < flight.events[j].no
Ahead(flight, c) ==
    \A i \in DOMAIN flight.events : \A e \in Entities :
        Start(flight) <= i /\ flight.events[i].attempts = 1 => c[e].no < flight.events[i].no
Solitary(F, f) == \A g \in Slots : g # f => F[g].stage \in {"none", "nap"}

Ordered(p, F, c, y) ==
    /\ InOrder(p.pending, y)
    /\ \A x \in ToSet(p.retry) : Tried(x, p.pending, y)
    /\ \A f \in Slots : \A x \in ToSet(F[f].events) : Tried(x, p.pending, y)
    /\ \A e \in Entities : Left(c[e].no, p.pending, y)
    /\ \A f \in Slots : /\ Rising(F[f])
                        /\ Undisturbed(F[f]) => Ahead(F[f], c) /\ Solitary(F, f)

OrderInv == Ordered(pipe, flights, crm, yielded)

(* An event's number and tries are numbers; another try keeps its number.  *)
LEMMA EventNumbers ==
    ASSUME NEW event \in Event
    PROVE  /\ event.no \in Nat /\ event.attempts \in Nat
           /\ Again(event).no = event.no /\ Again(event).attempts = event.attempts
BY DEF Event, Again

(* What a queue holds, by index and as a set.                              *)
LEMMA ElementsOf ==
    ASSUME NEW q \in Seq(Event)
    PROVE  /\ ToSet(q) \subseteq Event /\ \A i \in DOMAIN q : q[i] \in ToSet(q)
           /\ \A x \in ToSet(q) : \E i \in DOMAIN q : x = q[i]
BY DEF ToSet

(* After an answer. *)
LEMMA AnswerKeepsOrder ==
    ASSUME SyncInv, SyncInv', OrderInv, NEW f \in Slots, Answered(f), UNCHANGED yielded,
           flights[f].stage \in {"batch", "items", "again"}
    PROVE  OrderInv'
<1> PICK n \in Nat : Start(flights[f]) <= n /\ Outcome(f, n) /\ Writes(f, n)
  BY DEF Answered
<1>1. /\ \A g \in Slots : flights[g] \in Flight /\ flights[g].events \in Seq(Event)
      /\ \A g \in Slots : flights'[g] \in Flight
      /\ pipe.retry \in Seq(Event) /\ crm \in Crm /\ yielded \in Nat
      /\ \A e \in Entities : crm[e].no \in Nat /\ crm'[e].no \in Nat
  BY SMTT(30) DEF SyncInv, Here, Sound, Pipe, Flight, CrmOK, Crm
<1>2. /\ pipe'.pending = pipe.pending /\ yielded' = yielded
      /\ ToSet(pipe'.retry) \subseteq ToSet(pipe.retry) \cup {Again(x) : x \in ToSet(flights[f].events)}
      /\ \A g \in Slots : flights'[g].events \in {<<>>, flights[g].events}
      /\ \A g \in Slots : g # f => flights'[g] = flights[g]
  BY DEF Outcome, QueuesFrom
<1> DEFINE q == pipe.pending
           y == yielded
<1>3. /\ InOrder(q, y) /\ \A x \in ToSet(pipe.retry) : Tried(x, q, y)
      /\ \A g \in Slots : \A x \in ToSet(flights[g].events) : Tried(x, q, y)
      /\ \A e \in Entities : Left(crm[e].no, q, y)
  BY DEF OrderInv, Ordered
<1>4. \A x \in ToSet(pipe'.retry) : Tried(x, q, y)
  <2>1. ASSUME NEW x \in ToSet(flights[f].events) PROVE Tried(Again(x), q, y)
    <3>1. x \in Event /\ Tried(x, q, y)
      BY <1>1, <1>3, ElementsOf
    <3> QED
      BY <3>1, EventNumbers DEF Tried
  <2> QED
    BY <1>2, <1>3, <2>1
<1>5. \A g \in Slots : \A x \in ToSet(flights'[g].events) : Tried(x, q, y)
  <2>1. ToSet(<<>>) = {}
    BY DEF ToSet
  <2> QED
    BY <1>2, <1>3, <2>1
<1>6. \A e \in Entities : Left(crm'[e].no, q, y)
  <2> SUFFICES ASSUME NEW e \in Entities PROVE Left(crm'[e].no, q, y)
    OBVIOUS
  <2>1. \A i \in DOMAIN flights[f].events : Left(flights[f].events[i].no, q, y)
    BY <1>1, <1>3, ElementsOf DEF Tried
  <2> QED
    BY <1>3, <2>1 DEF Writes
<1>7. \A g \in Slots : Rising(flights'[g])
  BY <1>2 DEF OrderInv, Ordered, Rising
<1>8. ASSUME NEW g \in Slots, Undisturbed(flights'[g])
      PROVE  Ahead(flights'[g], crm') /\ Solitary(flights', g)
  <2>1. g = f
    <3> SUFFICES ASSUME g # f PROVE FALSE
      OBVIOUS
    <3>1. Solitary(flights, g)
      BY <1>2, <1>8 DEF OrderInv, Ordered
    <3> QED
      BY <3>1 DEF Solitary
  <2>2. /\ Undisturbed(flights[f]) /\ flights'[f].stage = "items" /\ flights'[f].at = n
    BY <1>8, <2>1 DEF Outcome
  <2>3. Solitary(flights', f) /\ Ahead(flights[f], crm) /\ Rising(flights[f])
    BY <1>2, <2>2 DEF OrderInv, Ordered, Solitary
  <2>4. Ahead(flights'[f], crm')
    <3> SUFFICES ASSUME NEW i \in DOMAIN flights'[f].events, NEW e \in Entities, n <= i,
                        flights'[f].events[i].attempts = 1
                 PROVE  crm'[e].no < flights'[f].events[i].no
      BY <2>2 DEF Ahead, Start
    <3> DEFINE events == flights[f].events
    <3>1. flights'[f].events = events /\ i \in DOMAIN events
      BY <1>2
    <3>2. /\ DOMAIN events = 1..Len(events) /\ Len(events) \in Nat /\ i \in Nat
          /\ \A k \in DOMAIN events : events[k].no \in Nat
      BY <1>1, <3>1, EventNumbers
    <3>3. Start(flights[f]) \in Nat
      BY <1>1 DEF Start, Flight
    <3>4. CASE crm'[e].no = crm[e].no
      <4>1. Start(flights[f]) <= i
        BY <3>2, <3>3
      <4> QED
        BY <2>3, <3>1, <3>4, <4>1 DEF Ahead
    <3>5. CASE \E k \in DOMAIN events : k < n /\ crm'[e].no = events[k].no
      <4>1. PICK k \in DOMAIN events : k < n /\ crm'[e].no = events[k].no
        BY <3>5
      <4>2. k < i
        BY <3>2, <4>1
      <4> QED
        BY <2>3, <3>1, <4>1, <4>2 DEF Rising
    <3> QED
      BY <3>4, <3>5 DEF Writes
  <2> QED
    BY <2>1, <2>3, <2>4
<1>9. Ordered(pipe', flights', crm', yielded')
  BY <1>2, <1>3, <1>4, <1>5, <1>6, <1>7, <1>8 DEF Ordered
<1> QED
  BY <1>9 DEF OrderInv

(* A new item. *)
LEMMA AddKeepsOrder ==
    ASSUME NEW p \in Pipe, NEW F \in [Slots -> Flight], NEW c \in Crm, NEW y \in Nat, Ordered(p, F, c, y)
    PROVE  /\ Ordered(p, F, c, y + 1)
           /\ \A event \in Event : event.no = y + 1 /\ event.attempts = 0
                => Ordered(AddEvent(p, event), F, c, y + 1)
<1>1. /\ p.pending \in Seq(Event) /\ p.retry \in Seq(Event)
      /\ \A f \in Slots : F[f].events \in Seq(Event)
      /\ \A e \in Entities : c[e].no \in Nat
  BY DEF Pipe, Flight, Crm
<1>2. ASSUME NEW n \in Nat, Left(n, p.pending, y) PROVE Left(n, p.pending, y + 1)
  BY <1>2 DEF Left
<1>3. ASSUME NEW x \in Event, Tried(x, p.pending, y) PROVE Tried(x, p.pending, y + 1)
  BY <1>2, <1>3, EventNumbers DEF Tried
<1>4. InOrder(p.pending, y + 1)
  <2>1. \A i \in DOMAIN p.pending : p.pending[i].no \in Nat
    BY <1>1, EventNumbers
  <2> QED
    BY <2>1 DEF Ordered, InOrder
<1>5. Ordered(p, F, c, y + 1)
  <2>1. \A x \in ToSet(p.retry) : Tried(x, p.pending, y + 1)
    BY <1>1, <1>3, ElementsOf DEF Ordered
  <2>2. \A f \in Slots : \A x \in ToSet(F[f].events) : Tried(x, p.pending, y + 1)
    BY <1>1, <1>3, ElementsOf DEF Ordered
  <2>3. \A e \in Entities : Left(c[e].no, p.pending, y + 1)
    BY <1>1, <1>2 DEF Ordered
  <2> QED
    BY <1>4, <2>1, <2>2, <2>3 DEF Ordered
<1>6. ASSUME NEW event \in Event, event.no = y + 1, event.attempts = 0
      PROVE  Ordered(AddEvent(p, event), F, c, y + 1)
  <2> DEFINE q == Append(p.pending, event)
             added == [p EXCEPT !.outstanding = @ \cup {Fingerprint(event)}, !.pending = Append(@, event)]
             m == Len(p.pending)
  <2>1. AddEvent(p, event) \in {p, added} /\ added.pending = q /\ added.retry = p.retry
    BY DEF AddEvent, Pipe
  <2> HIDE DEF added
  <2>2. /\ m \in Nat /\ DOMAIN p.pending = 1..m /\ DOMAIN q = 1..(m + 1) /\ q[m + 1] = event
        /\ \A i \in 1..m : q[i] = p.pending[i]
        /\ \A i \in 1..m : p.pending[i] \in Event
    BY <1>1
  <2> HIDE DEF q, m
  <2>3. \A i \in DOMAIN q : i \in 1..m \/ i = m + 1
    BY <2>2
  <2>4. ToSet(q) \subseteq ToSet(p.pending) \cup {event}
    BY <2>2, <2>3 DEF ToSet
  <2>5. \A i \in 1..m : p.pending[i].no \in Nat /\ p.pending[i].no <= y /\ p.pending[i].attempts = 0
    BY <2>2, EventNumbers DEF Ordered, InOrder
  <2>6. InOrder(q, y + 1)
    <3>1. \A i \in DOMAIN q : q[i].attempts = 0 /\ q[i].no <= y + 1
      BY <1>6, <2>2, <2>3, <2>5
    <3>2. ASSUME NEW i \in DOMAIN q, NEW j \in DOMAIN q, i < j PROVE q[i].no < q[j].no
      <4>1. i \in 1..m
        BY <2>2, <3>2
      <4>2. CASE j \in 1..m
        BY <2>2, <3>2, <4>1, <4>2 DEF Ordered, InOrder
      <4>3. CASE j = m + 1
        BY <1>6, <2>2, <2>5, <4>1, <4>3
      <4> QED
        BY <2>3, <4>2, <4>3
    <3> QED
      BY <3>1, <3>2 DEF InOrder
  <2>7. ASSUME NEW n \in Nat, Left(n, p.pending, y) PROVE Left(n, q, y + 1)
    BY <1>6, <2>4, <2>7 DEF Left
  <2>8. ASSUME NEW x \in Event, Tried(x, p.pending, y) PROVE Tried(x, q, y + 1)
    BY <2>7, <2>8, EventNumbers DEF Tried
  <2>9. \A x \in ToSet(p.retry) : Tried(x, q, y + 1)
    BY <1>1, <2>8, ElementsOf DEF Ordered
  <2>10. \A f \in Slots : \A x \in ToSet(F[f].events) : Tried(x, q, y + 1)
    BY <1>1, <2>8, ElementsOf DEF Ordered
  <2>11. \A e \in Entities : Left(c[e].no, q, y + 1)
    BY <1>1, <2>7 DEF Ordered
  <2>12. Ordered(added, F, c, y + 1)
    BY <2>1, <2>6, <2>9, <2>10, <2>11 DEF Ordered
  <2> QED
    BY <1>5, <2>1, <2>12
<1> QED
  BY <1>5, <1>6

(* A queue, cut in two. *)
LEMMA CutParts ==
    ASSUME NEW q \in Seq(Event), NEW n \in Nat
    PROVE  LET head == FirstOf(q, n)
               tail == Without(q, Len(head))
           IN \E m \in Nat :
                /\ DOMAIN q = 1..Len(q) /\ Len(q) \in Nat /\ m <= Len(q) /\ m <= n
                /\ Len(head) = m /\ DOMAIN head = 1..m /\ \A i \in 1..m : head[i] = q[i]
                /\ DOMAIN tail = 1..(Len(q) - m) /\ \A i \in 1..(Len(q) - m) : tail[i] = q[m + i]
<1> DEFINE m == IF Len(q) < n THEN Len(q) ELSE n
           head == SubSeq(q, 1, m)
           tail == SubSeq(q, m + 1, Len(q))
<1>1. Len(q) \in Nat /\ m \in Nat /\ m <= Len(q) /\ m <= n /\ DOMAIN q = 1..Len(q)
  OBVIOUS
<1>2. FirstOf(q, n) = head
  BY DEF FirstOf
<1> HIDE DEF m
<1>3. /\ Len(head) = m /\ DOMAIN head = 1..m /\ \A i \in 1..m : head[i] = q[i]
      /\ DOMAIN tail = 1..(Len(q) - m) /\ \A i \in 1..(Len(q) - m) : tail[i] = q[m + i]
  BY <1>1
<1>4. Without(q, Len(head)) = tail
  BY <1>3 DEF Without
<1> HIDE DEF head, tail
<1> QED
  BY <1>1, <1>2, <1>3, <1>4

(* Both parts of a queue that is cut hold nothing but its events.          *)
LEMMA CutElements ==
    ASSUME NEW q \in Seq(Event), NEW n \in Nat
    PROVE  /\ ToSet(FirstOf(q, n)) \subseteq ToSet(q)
           /\ ToSet(Without(q, Len(FirstOf(q, n)))) \subseteq ToSet(q)
<1> DEFINE head == FirstOf(q, n)
           tail == Without(q, Len(head))
<1>1. PICK m \in Nat :
        /\ DOMAIN q = 1..Len(q) /\ Len(q) \in Nat /\ m <= Len(q) /\ m <= n
        /\ Len(head) = m /\ DOMAIN head = 1..m /\ \A i \in 1..m : head[i] = q[i]
        /\ DOMAIN tail = 1..(Len(q) - m) /\ \A i \in 1..(Len(q) - m) : tail[i] = q[m + i]
  BY CutParts
<1> HIDE DEF head, tail
<1>2. (\A i \in 1..m : i \in DOMAIN q) /\ (\A i \in 1..(Len(q) - m) : m + i \in DOMAIN q)
  BY <1>1
<1>3. ToSet(head) \subseteq ToSet(q) /\ ToSet(tail) \subseteq ToSet(q)
  BY <1>1, <1>2 DEF ToSet
<1> QED
  BY <1>3 DEF head, tail

(* Both parts keep the order, and what is cut off in front has left.       *)
LEMMA CutInOrder ==
    ASSUME NEW q \in Seq(Event), NEW n \in Nat, NEW y \in Nat, InOrder(q, y)
    PROVE  LET head == FirstOf(q, n)
               tail == Without(q, Len(head))
           IN /\ InOrder(head, y) /\ InOrder(tail, y)
              /\ \A x \in ToSet(head) : Left(x.no, tail, y)
<1> DEFINE head == FirstOf(q, n)
           tail == Without(q, Len(head))
<1>1. PICK m \in Nat :
        /\ DOMAIN q = 1..Len(q) /\ Len(q) \in Nat /\ m <= Len(q) /\ m <= n
        /\ Len(head) = m /\ DOMAIN head = 1..m /\ \A i \in 1..m : head[i] = q[i]
        /\ DOMAIN tail = 1..(Len(q) - m) /\ \A i \in 1..(Len(q) - m) : tail[i] = q[m + i]
  BY CutParts
<1> HIDE DEF head, tail
<1>2. /\ \A i \in 1..m : i \in DOMAIN q
      /\ \A i \in 1..(Len(q) - m) : m + i \in DOMAIN q
      /\ \A i \in 1..m, j \in 1..(Len(q) - m) : i < m + j
      /\ \A i, j \in 1..(Len(q) - m) : i < j => m + i < m + j
  BY <1>1
<1>3. /\ \A i \in DOMAIN q : q[i].attempts = 0 /\ q[i].no <= y
      /\ \A i, j \in DOMAIN q : i < j => q[i].no < q[j].no
  BY DEF InOrder
<1>4. InOrder(head, y)
  BY <1>1, <1>2, <1>3 DEF InOrder
<1>5. InOrder(tail, y)
  <2>1. ASSUME NEW i \in 1..(Len(q) - m)
        PROVE  tail[i] = q[m + i] /\ tail[i].attempts = 0 /\ tail[i].no <= y
    BY <1>1, <1>2, <1>3
  <2>2. ASSUME NEW i \in 1..(Len(q) - m), NEW j \in 1..(Len(q) - m), i < j
        PROVE  tail[i].no < tail[j].no
    <3>1. m + i \in DOMAIN q /\ m + j \in DOMAIN q /\ m + i < m + j
      BY <1>2, <2>2
    <3> QED
      BY <1>3, <2>1, <3>1
  <2> QED
    BY <1>1, <2>1, <2>2 DEF InOrder
<1>6. ASSUME NEW x \in ToSet(head) PROVE Left(x.no, tail, y)
  <2>1. PICK i \in 1..m : x = q[i] /\ i \in DOMAIN q
    BY <1>1, <1>2 DEF ToSet
  <2>2. ASSUME NEW z \in ToSet(tail) PROVE x.no < z.no
    <3>1. PICK j \in 1..(Len(q) - m) : z = q[m + j] /\ m + j \in DOMAIN q
      BY <1>1, <1>2 DEF ToSet
    <3> QED
      BY <1>2, <1>3, <2>1, <3>1
  <2> QED
    BY <1>3, <2>1, <2>2 DEF Left
<1> QED
  BY <1>4, <1>5, <1>6 DEF head, tail

(* What has left has left a queue with fewer events, too.                  *)
LEMMA LeftStays ==
    ASSUME NEW n, NEW q, NEW r, NEW y, ToSet(r) \subseteq ToSet(q), Left(n, q, y)
    PROVE  Left(n, r, y)
BY DEF Left

(* The batch that is popped: the events that were sent before come first,  *)
(* and those that were not are newer than all before them.                 *)
LEMMA PoppedInOrder ==
    ASSUME settings \in Settings, NEW p \in Pipe, NEW y \in Nat, InOrder(p.pending, y),
           \A x \in ToSet(p.retry) : Tried(x, p.pending, y),
           Popped(p).batch \in Seq(Event)
    PROVE  LET batch == Popped(p).batch
               rest  == Popped(p).rest
           IN /\ InOrder(rest.pending, y) /\ ToSet(rest.pending) \subseteq ToSet(p.pending)
              /\ ToSet(rest.retry) \subseteq ToSet(p.retry)
              /\ \A i \in DOMAIN batch : Left(batch[i].no, rest.pending, y)
              /\ \A i \in DOMAIN batch : batch[i].attempts = 0 =>
                   /\ batch[i] \in ToSet(p.pending)
                   /\ \A j \in DOMAIN batch : j < i => batch[j].no < batch[i].no
<1> DEFINE again == FirstOf(p.retry, AgainAtMost)
           new == FirstOf(p.pending, BatchSize - Len(again))
           batch == Popped(p).batch
           rest == Popped(p).rest
           k == Len(again)
           m == Len(new)
<1>1. /\ p.retry \in Seq(Event) /\ p.pending \in Seq(Event)
      /\ AgainAtMost \in Nat /\ BatchSize \in Nat /\ AgainAtMost <= BatchSize
  BY AgainFits DEF Pipe
<1>2. /\ batch = again \o new /\ rest.retry = Without(p.retry, Len(again))
      /\ rest.pending = Without(p.pending, Len(new))
  BY <1>1 DEF Popped, Pipe
<1>3. /\ k \in Nat /\ k <= AgainAtMost /\ DOMAIN again = 1..k
      /\ ToSet(again) \subseteq ToSet(p.retry) /\ ToSet(rest.retry) \subseteq ToSet(p.retry)
  <2>1. k \in Nat /\ k <= AgainAtMost /\ DOMAIN again = 1..k
    BY <1>1, CutParts
  <2>2. /\ ToSet(again) \subseteq ToSet(p.retry)
        /\ ToSet(Without(p.retry, Len(again))) \subseteq ToSet(p.retry)
    BY <1>1, CutElements
  <2> QED
    BY <1>2, <2>1, <2>2
<1>a. again \in Seq(Event)
  <2>1. \A i \in 1..k : again[i] \in ToSet(again)
    BY <1>3 DEF ToSet
  <2>2. ToSet(p.retry) \subseteq Event
    BY <1>1, ElementsOf
  <2>3. again = SubSeq(p.retry, 1, IF Len(p.retry) < AgainAtMost THEN Len(p.retry) ELSE AgainAtMost)
    BY DEF FirstOf
  <2> QED
    BY <1>1, <2>3
<1> HIDE DEF again, k
<1>4. BatchSize - Len(again) \in Nat
  BY <1>1, <1>3 DEF k
<1>5. /\ m \in Nat /\ DOMAIN new = 1..m /\ ToSet(new) \subseteq ToSet(p.pending)
      /\ ToSet(rest.pending) \subseteq ToSet(p.pending)
      /\ InOrder(new, y) /\ InOrder(rest.pending, y) /\ \A x \in ToSet(new) : Left(x.no, rest.pending, y)
  BY <1>1, <1>2, <1>4, CutParts, CutElements, CutInOrder
<1>b. new \in Seq(Event)
  BY <1>1, <1>4 DEF FirstOf
<1> HIDE DEF new, m, rest
<1>6. /\ DOMAIN batch = 1..(k + m) /\ \A i \in 1..k : batch[i] = again[i]
      /\ \A i \in 1..m : batch[k + i] = new[i]
  BY <1>2, <1>3, <1>5, <1>a, <1>b DEF k, m
<1> HIDE DEF batch
<1>7. ASSUME NEW i \in DOMAIN batch
      PROVE  \/ i \in 1..k /\ batch[i] = again[i] /\ batch[i] \in ToSet(again)
             \/ i - k \in 1..m /\ i > k /\ batch[i] = new[i - k] /\ batch[i] \in ToSet(new)
  <2>1. i \notin 1..k => i - k \in 1..m /\ i > k /\ k + (i - k) = i
    BY <1>3, <1>5, <1>6
  <2> QED
    BY <1>3, <1>5, <1>6, <2>1 DEF ToSet
<1>8. \A x \in ToSet(again) : Tried(x, p.pending, y)
  BY <1>3
<1>9. ASSUME NEW i \in DOMAIN batch PROVE Left(batch[i].no, rest.pending, y)
  <2>1. ASSUME NEW x \in ToSet(again) PROVE Left(x.no, rest.pending, y)
    BY <1>5, <1>8, LeftStays DEF Tried
  <2> QED
    BY <1>5, <1>7, <2>1
<1>10. ASSUME NEW i \in DOMAIN batch, batch[i].attempts = 0
       PROVE  /\ batch[i] \in ToSet(p.pending)
              /\ \A j \in DOMAIN batch : j < i => batch[j].no < batch[i].no
  <2>1. i - k \in 1..m /\ i > k /\ batch[i] = new[i - k] /\ batch[i] \in ToSet(new)
    BY <1>7, <1>8, <1>10 DEF Tried
  <2>2. batch[i] \in ToSet(p.pending)
    BY <1>5, <2>1
  <2>3. ASSUME NEW j \in DOMAIN batch, j < i PROVE batch[j].no < batch[i].no
    <3>1. CASE batch[j] \in ToSet(again)
      BY <1>8, <2>2, <3>1 DEF Tried, Left
    <3>2. CASE j - k \in 1..m /\ batch[j] = new[j - k]
      <4>1. j - k < i - k /\ j - k \in DOMAIN new /\ i - k \in DOMAIN new
        BY <1>3, <1>5, <1>6, <2>1, <2>3, <3>2
      <4> QED
        BY <1>5, <2>1, <3>2, <4>1 DEF InOrder
    <3> QED
      BY <1>7, <3>1, <3>2
  <2> QED
    BY <2>2, <2>3
<1> QED
  BY <1>3, <1>5, <1>9, <1>10 DEF batch, rest

(* A flight starts: its events are counted as tried.                       *)
LEMMA DepartKeepsOrder ==
    ASSUME settings \in Settings, NEW p, NEW c \in Crm, Sound(p, c), NEW y \in Nat, flights \in [Slots -> Flight],
           Ordered(p, flights, c, y), NEW f \in Slots, Depart(p, f)
    PROVE  Ordered(pipe', flights', c, y)
<1> DEFINE batch == Popped(p).batch
           rest == Popped(p).rest
           tried == [i \in DOMAIN batch |-> [batch[i] EXCEPT !.attempts = @ + 1]]
           fit == {i \in DOMAIN tried : ~Spent(tried[i])}
           others == Inflight \ {f}
<1>1. /\ batch \in Seq(Event) /\ rest \in Pipe /\ p \in Pipe
      /\ p.pending \in Seq(Event) /\ p.retry \in Seq(Event)
  BY PoppedSound DEF Sound, Pipe
<1>2. /\ InOrder(rest.pending, y) /\ ToSet(rest.pending) \subseteq ToSet(p.pending)
      /\ ToSet(rest.retry) \subseteq ToSet(p.retry)
      /\ \A i \in DOMAIN batch : Left(batch[i].no, rest.pending, y)
      /\ \A i \in DOMAIN batch : batch[i].attempts = 0 =>
           /\ batch[i] \in ToSet(p.pending)
           /\ \A j \in DOMAIN batch : j < i => batch[j].no < batch[i].no
  BY <1>1, PoppedInOrder DEF Ordered
<1>3. pipe' = Release(rest, {tried[i] : i \in DOMAIN tried \ fit})
  BY DEF Depart
<1>4. PICK order \in Ascending(fit) :
        flights' = [g \in Slots |->
              IF g = f
              THEN IF fit = {} THEN Idle
                   ELSE Boarded([k \in DOMAIN order |-> tried[order[k]]], others # {})
              ELSE IF g \in others /\ fit # {} THEN [flights[g] EXCEPT !.disturbed = TRUE]
              ELSE flights[g]]
  BY DEF Depart
<1> HIDE DEF batch, rest
<1>5. ASSUME NEW i \in DOMAIN batch
      PROVE  /\ tried[i].no = batch[i].no /\ tried[i].attempts = batch[i].attempts + 1
             /\ batch[i].attempts \in Nat /\ batch[i].no \in Nat
  <2>1. batch[i] \in Event
    BY <1>1
  <2> QED
    BY <2>1 DEF Event
<1>6. fit \subseteq DOMAIN batch
  OBVIOUS
<1>7. /\ order \in [1..Cardinality(fit) -> fit]
      /\ \A i, j \in DOMAIN order : i < j => order[i] < order[j]
  BY DEF Ascending
<1>8. pipe'.pending = rest.pending /\ pipe'.retry = rest.retry
  BY <1>1, <1>3, ReleaseQueues
<1> HIDE DEF tried, fit, others
<1> DEFINE events == [k \in DOMAIN order |-> tried[order[k]]]
           q == rest.pending
<1>9. ASSUME NEW k \in DOMAIN events
      PROVE  /\ k \in DOMAIN order /\ order[k] \in DOMAIN batch
             /\ events[k].no = batch[order[k]].no
             /\ events[k].attempts = batch[order[k]].attempts + 1
             /\ batch[order[k]].attempts \in Nat
  BY <1>5, <1>6, <1>7
<1>10. \A k \in DOMAIN events : Tried(events[k], q, y)
  BY <1>2, <1>9 DEF Tried
<1>11. ASSUME NEW i \in DOMAIN events, NEW j \in DOMAIN events, i < j, events[j].attempts = 1
       PROVE  events[i].no < events[j].no
  <2>1. order[i] < order[j] /\ batch[order[j]].attempts = 0
    BY <1>7, <1>9, <1>11
  <2> QED
    BY <1>2, <1>9, <2>1
<1>12. ASSUME NEW i \in DOMAIN events, NEW e \in Entities, events[i].attempts = 1
       PROVE  c[e].no < events[i].no
  <2>1. batch[order[i]] \in ToSet(p.pending)
    BY <1>2, <1>9, <1>12
  <2> QED
    BY <1>9, <2>1 DEF Ordered, Left
<1> HIDE DEF events
<1>13. ASSUME NEW g \in Slots
       PROVE  /\ flights[g] \in Flight /\ flights[g].events \in Seq(Event)
              /\ g # f => flights'[g].events = flights[g].events /\ flights'[g].stage = flights[g].stage
              /\ g # f /\ (g \notin others \/ fit = {}) => flights'[g] = flights[g]
              /\ g # f /\ ~flights'[g].disturbed => flights'[g] = flights[g] /\ (g \notin others \/ fit = {})
  <2>1. flights[g] \in Flight
    OBVIOUS
  <2>2. g # f => flights'[g] = IF g \in others /\ fit # {} THEN [flights[g] EXCEPT !.disturbed = TRUE]
                                ELSE flights[g]
    BY <1>4
  <2> QED
    BY <2>1, <2>2 DEF Flight
<1>14. /\ fit = {} => flights'[f] = Idle
       /\ fit # {} => flights'[f] = Boarded(events, others # {})
  BY <1>4 DEF events
<1>15. /\ Idle.events = <<>> /\ Idle.stage = "none"
       /\ Boarded(events, others # {}).events = events
       /\ Boarded(events, others # {}).disturbed = (others # {})
  BY DEF Idle, Boarded
<1>16. flights'[f].events \in {<<>>, events}
  BY <1>14, <1>15
<1>17. \A x \in ToSet(pipe'.retry) : Tried(x, q, y)
  BY <1>2, <1>8, LeftStays DEF Ordered, Tried
<1>18. ASSUME NEW g \in Slots, NEW x \in ToSet(flights'[g].events) PROVE Tried(x, q, y)
  <2>1. CASE g = f
    <3>1. x \in ToSet(events)
      BY <1>16, <1>18, <2>1 DEF ToSet
    <3> QED
      BY <1>10, <3>1 DEF ToSet
  <2>2. CASE g # f
    <3>1. Tried(x, p.pending, y)
      BY <1>13, <1>18, <2>2 DEF Ordered
    <3> QED
      BY <1>2, <3>1, LeftStays DEF Tried
  <2> QED
    BY <2>1, <2>2
<1>19. \A e \in Entities : Left(c[e].no, q, y)
  BY <1>2, LeftStays DEF Ordered
<1>20. ASSUME NEW g \in Slots PROVE Rising(flights'[g])
  <2>1. CASE g = f
    BY <1>11, <1>16, <2>1 DEF Rising
  <2>2. CASE g # f
    BY <1>13, <2>2 DEF Ordered, Rising
  <2> QED
    BY <2>1, <2>2
<1>21. ASSUME NEW g \in Slots, Undisturbed(flights'[g])
       PROVE  Ahead(flights'[g], c) /\ Solitary(flights', g)
  <2>1. CASE g = f
    <3>1. fit # {} /\ flights'[f].events = events /\ others = {}
      BY <1>14, <1>15, <1>21, <2>1 DEF Undisturbed
    <3>2. Ahead(flights'[f], c)
      BY <1>12, <3>1 DEF Ahead
    <3>3. ASSUME NEW h \in Slots, h # f PROVE flights'[h].stage \in {"none", "nap"}
      <4>1. h \notin Inflight
        BY <3>1, <3>3 DEF others
      <4>2. flights[h].stage \in {"none", "nap"}
        BY <4>1 DEF Inflight, Flying
      <4> QED
        BY <1>13, <3>3, <4>2
    <3> QED
      BY <2>1, <3>2, <3>3 DEF Solitary
  <2>2. CASE g # f
    <3>1. flights'[g] = flights[g] /\ (g \notin others \/ fit = {})
      BY <1>13, <1>21, <2>2 DEF Undisturbed
    <3>2. Ahead(flights[g], c) /\ Solitary(flights, g)
      BY <1>21, <3>1 DEF Ordered
    <3>3. g \in others
      BY <1>21, <2>2, <3>1 DEF others, Inflight, Flying, Undisturbed
    <3>4. flights'[f].stage = "none"
      BY <1>14, <1>15, <3>1, <3>3
    <3>5. \A h \in Slots : h # g => flights'[h].stage \in {"none", "nap"}
      BY <1>13, <3>2, <3>4 DEF Solitary
    <3> QED
      BY <3>1, <3>2, <3>5 DEF Solitary
  <2> QED
    BY <2>1, <2>2
<1> QED
  BY <1>2, <1>8, <1>17, <1>18, <1>19, <1>20, <1>21 DEF Ordered

(* A flush starts a flight or leaves the queues alone.                     *)
LEMMA FlushKeepsOrder ==
    ASSUME NEW p, NEW c \in Crm, Sound(p, c), NEW y \in Nat, flights \in [Slots -> Flight],
           settings \in Settings, Cardinality(Flying) < settings.flights,
           Ordered(p, flights, c, y), NEW memory, Flush(p, memory)
    PROVE  Ordered(pipe', flights', c, y)
<1> PICK slot : slot = FreeSlot
  OBVIOUS
<1>0. slot \in Slots /\ flights[slot].stage = "none"
  BY FreeSlotIsFree
<1>1. CASE pipe' = p /\ UNCHANGED flights
  BY <1>1
<1>2. CASE pipe' = p /\ flights' = [flights EXCEPT ![slot].stage = "nap"]
  <2>1. ASSUME NEW g \in Slots
        PROVE  /\ flights'[g].events = flights[g].events
               /\ g # slot => flights'[g] = flights[g]
               /\ flights'[slot].stage = "nap"
    BY <1>0, <1>2 DEF Flight
  <2>2. \A g \in Slots : Rising(flights'[g])
    BY <2>1 DEF Ordered, Rising
  <2>3. ASSUME NEW g \in Slots, Undisturbed(flights'[g])
        PROVE  Ahead(flights'[g], c) /\ Solitary(flights', g)
    <3>1. g # slot /\ flights'[g] = flights[g]
      BY <1>0, <2>1, <2>3 DEF Undisturbed
    <3>2. Ahead(flights[g], c) /\ Solitary(flights, g)
      BY <2>3, <3>1 DEF Ordered
    <3>3. Solitary(flights', g)
      BY <1>0, <2>1, <3>2 DEF Solitary
    <3> QED
      BY <3>1, <3>2, <3>3
  <2> QED
    BY <1>2, <2>1, <2>2, <2>3 DEF Ordered
<1>3. CASE Depart(p, slot)
  BY <1>0, <1>3, DepartKeepsOrder
<1> QED
  BY <1>1, <1>2, <1>3 DEF Flush

-----------------------------------------------------------------------------
(* The order holds initially and after every step.                         *)

LEMMA InitOrder == Init => OrderInv
<1> SUFFICES ASSUME Init PROVE OrderInv
  OBVIOUS
<1>1. /\ pipe.pending = <<>> /\ pipe.retry = <<>> /\ yielded = 0
      /\ \A f \in Slots : flights[f].events = <<>> /\ flights[f].stage = "none"
      /\ \A e \in Entities : crm[e].no = 0
  BY DEF Init, NewPipe, Idle, NoRow
<1>2. InOrder(pipe.pending, yielded) /\ ToSet(<<>>) = {}
  BY <1>1 DEF InOrder, ToSet
<1>3. \A f \in Slots : Rising(flights[f]) /\ ~Undisturbed(flights[f])
  BY <1>1 DEF Rising, Undisturbed
<1>4. \A e \in Entities : Left(crm[e].no, pipe.pending, yielded)
  BY <1>1, <1>2 DEF Left
<1> QED
  BY <1>1, <1>2, <1>3, <1>4 DEF OrderInv, Ordered

(* Whatever a step does, the order holds after it; the CRM is written by   *)
(* requests only.                                                          *)
LEMMA OrderStep ==
    ASSUME SyncInv, OrderInv, [Next]_vars
    PROVE  /\ OrderInv'
           /\ UNCHANGED crm \/ \E f \in Slots : Answered(f) /\ flights[f].stage \in {"batch", "items", "again"}
<1>0. SyncInv'
  BY SyncStep
<1>1. /\ flights \in [Slots -> Flight] /\ pipe \in Pipe /\ crm \in Crm /\ yielded \in Nat
      /\ Sound(pipe, crm) /\ settings \in Settings
  BY DEF SyncInv, Here, Sound, CrmOK
<1> DEFINE Goal == /\ OrderInv'
                   /\ UNCHANGED crm \/ \E f \in Slots : Answered(f) /\ flights[f].stage \in {"batch", "items", "again"}
<1>2. ASSUME UNCHANGED <<yielded, pipe, flights, crm>> PROVE Goal
  BY <1>2 DEF OrderInv
<1>3. ASSUME NEW f \in Slots, Depart(pipe, f), UNCHANGED <<yielded, crm>> PROVE Goal
  <2>1. Ordered(pipe', flights', crm, yielded)
    BY <1>1, <1>3, DepartKeepsOrder DEF OrderInv
  <2> QED
    BY <1>3, <2>1 DEF OrderInv
<1>4. ASSUME NEW f \in Slots, Answered(f), UNCHANGED yielded,
             flights[f].stage \in {"batch", "items", "again"}
      PROVE  Goal
  BY <1>0, <1>4, AnswerKeepsOrder
<1> HIDE DEF Goal
<1>5. CASE ReadPage
  BY <1>2, <1>5 DEF ReadPage, Goal
<1>6. ASSUME NEW n \in settings.catalog, ProcessItem(n) PROVE Goal
  <2> DEFINE event == Numbered(EventFor(settings, n, pipe.ids[n.entity], "none"), yielded + 1)
             added == AddEvent(pipe, event)
  <2>1. n \in Snapshots /\ n.entity \in Entities /\ Cardinality(Flying) < settings.flights
    BY <1>1, <1>6, SyncAssumption DEF ProcessItem
  <2>2. /\ yielded' = yielded + 1 /\ crm' = crm
        /\ \/ UNCHANGED <<pipe, flights>>
           \/ pipe' = added /\ UNCHANGED flights
           \/ \E memory \in {"low", "high", "critical"} : Flush(added, memory)
    BY <1>6 DEF ProcessItem
  <2>3. event \in Event /\ Aware(pipe.ids, event) /\ event.no = yielded + 1 /\ event.attempts = 0
    <3>1. pipe.ids[n.entity] \in SUBSET Ids /\ yielded + 1 \in Nat \ {0}
      BY <1>1, <2>1 DEF Pipe
    <3>2. /\ event \in Event /\ event.snapshot = n
          /\ event.type # "product_found" => RequiredId(event.type) \in pipe.ids[n.entity]
      BY <1>1, <2>1, <3>1, EventIsTyped
    <3>3. event.no = yielded + 1 /\ event.attempts = 0
      BY DEF Numbered
    <3> HIDE DEF event
    <3> QED
      BY <3>2, <3>3 DEF Aware
  <2> HIDE DEF event
  <2>4. Sound(added, crm)
    BY <1>1, <2>3, AddEventSound
  <2>5. Ordered(pipe, flights, crm, yielded + 1) /\ Ordered(added, flights, crm, yielded + 1)
    BY <1>1, <2>3, AddKeepsOrder DEF OrderInv
  <2> HIDE DEF added
  <2>6. Ordered(pipe', flights', crm, yielded + 1)
    <3>1. CASE UNCHANGED <<pipe, flights>>
      BY <2>5, <3>1
    <3>2. CASE pipe' = added /\ UNCHANGED flights
      BY <2>5, <3>2
    <3>3. CASE \E memory \in {"low", "high", "critical"} : Flush(added, memory)
      BY <1>1, <2>1, <2>4, <2>5, <3>3, FlushKeepsOrder
    <3> QED
      BY <2>2, <3>1, <3>2, <3>3
  <2> QED
    BY <2>2, <2>6 DEF OrderInv, Goal
<1>7. ASSUME NEW f \in Slots, Step(f) PROVE Goal
  <2>1. CASE WakeUp(f)
    BY <1>3, <2>1 DEF WakeUp
  <2>2. CASE SendBatch(f)
    <3>1. flights[f].stage = "batch" /\ UNCHANGED yielded
      BY <2>2 DEF SendBatch
    <3> QED
      BY <1>4, <2>2, <3>1, BatchSent
  <2>3. CASE SendOne(f)
    <3>1. flights[f].stage \in {"items", "again"} /\ UNCHANGED yielded
      BY <2>3 DEF SendOne
    <3> QED
      BY <1>4, <2>3, <3>1, OneSent
  <2> QED
    BY <1>7, <2>1, <2>2, <2>3 DEF Step
<1>8. CASE StartClosing
  BY <1>2, <1>8 DEF StartClosing, Goal
<1>9. CASE Finish
  <2>1. CASE FlushRemaining
    <3>1. 1 \in Slots
      BY SyncAssumption DEF Slots
    <3> QED
      BY <1>3, <2>1, <3>1 DEF FlushRemaining, Goal
  <2>2. CASE Closed
    BY <1>2, <2>2 DEF Closed, Goal
  <2> QED
    BY <1>9, <2>1, <2>2 DEF Finish, Goal
<1>10. CASE UNCHANGED vars
  BY <1>2, <1>10 DEF vars, Goal
<1>11. Goal
  BY <1>5, <1>6, <1>7, <1>8, <1>9, <1>10 DEF Next, Goal
<1> QED
  BY <1>11 DEF Goal

(* The inductive invariant of the order holds throughout.                  *)
LEMMA AlwaysOrdered == Spec => []OrderInv
<1>1. SyncInv /\ OrderInv /\ [Next]_vars => OrderInv'
  BY OrderStep
<1> QED
  BY <1>1, InitOrder, SyncInvariant, PTL DEF Spec

(* The CRM goes back to an older snapshot of an entity only by an event    *)
(* that was tried before, is sent once more by itself, or flies while      *)
(* another flight or a repeated request may have overtaken it.             *)
THEOREM OlderIsARepeat == Spec => OlderOnlyByRepeat
<1> DEFINE Repeated ==
      \A e \in Entities : crm'[e].no < crm[e].no =>
         \E f \in Flying : \E i \in DOMAIN flights[f].events :
            /\ flights[f].events[i].no = crm'[e].no
            /\ \/ flights[f].events[i].attempts > 1
               \/ flights[f].stage = "again" \/ flights[f].disturbed
<1>1. ASSUME SyncInv, OrderInv, [Next]_vars, NEW e \in Entities, crm'[e].no < crm[e].no
      PROVE  \E f \in Flying : \E i \in DOMAIN flights[f].events :
                /\ flights[f].events[i].no = crm'[e].no
                /\ \/ flights[f].events[i].attempts > 1
                   \/ flights[f].stage = "again" \/ flights[f].disturbed
  <2>1. crm[e].no \in Nat /\ crm # crm'
    BY <1>1 DEF SyncInv, CrmOK, Crm
  <2>2. PICK f \in Slots : Answered(f) /\ flights[f].stage \in {"batch", "items", "again"}
    BY <1>1, <2>1, OrderStep
  <2>3. PICK i \in DOMAIN flights[f].events :
          Start(flights[f]) <= i /\ crm'[e].no = flights[f].events[i].no
    BY <1>1, <2>1, <2>2 DEF Answered, Writes
  <2>4. flights[f].events[i].attempts \in Nat /\ flights[f].events[i].attempts > 0
    <3>1. flights[f].events \in Seq(Event)
      BY <1>1 DEF SyncInv, Here, Flight
    <3>2. flights[f].events[i] \in Event /\ flights[f].events[i] \in ToSet(flights[f].events)
      BY <3>1, ElementsOf
    <3> QED
      BY <1>1, <3>2, EventNumbers DEF OrderInv, Ordered, Tried
  <2>5. \/ flights[f].events[i].attempts > 1
        \/ flights[f].stage = "again" \/ flights[f].disturbed
    <3> SUFFICES ASSUME flights[f].events[i].attempts = 1, Undisturbed(flights[f]) PROVE FALSE
      BY <2>2, <2>4 DEF Undisturbed
    <3>1. Ahead(flights[f], crm)
      BY <1>1 DEF OrderInv, Ordered
    <3>2. crm[e].no < crm'[e].no /\ crm'[e].no \in Nat
      <4>1. crm'[e].no \in Nat
        BY <1>1, SyncStep DEF SyncInv, CrmOK, Crm
      <4> QED
        BY <2>3, <3>1, <4>1 DEF Ahead
    <3> QED
      BY <1>1, <2>1, <3>2
  <2> QED
    BY <2>2, <2>3, <2>5 DEF Flying
<1>2. SyncInv /\ OrderInv /\ [Next]_vars => [Repeated]_vars
  BY <1>1
<1> QED
  BY <1>2, AlwaysOrdered, SyncInvariant, PTL DEF Spec, OlderOnlyByRepeat

-----------------------------------------------------------------------------
(* The typed fields of a page.                                             *)

(* A text is read as a natural number, or not at all. *)
LEMMA TextIsRead ==
    ASSUME NEW f, NEW row \in SpecRows
    PROVE  ReadField(f, row.text) \in Nat \cup {Unread}
<1> DEFINE text == row.text
<1>1. \A g : ReadNumber(g, text) \in Nat \cup {Unread}
  <2> SUFFICES ASSUME NEW g PROVE ReadNumber(g, text) \in Nat \cup {Unread}
    OBVIOUS
  <2>1. Readable(g) \subseteq Nat
    <3> DEFINE Names == {"ram_gb", "display_size_inch", "battery_mah", "battery_wh", "weight_g",
                         "weight_kg", "main_camera_mp", "front_camera_mp", "power_w", "hdmi_count"}
    <3>1. CASE g = "ram_gb"
      <4>1. Readable(g) = 0..64
        BY <3>1 DEF Readable
      <4> QED
        BY <4>1
    <3>2. CASE g = "display_size_inch"
      <4>1. Readable(g) = 10..1000
        BY <3>2 DEF Readable
      <4> QED
        BY <4>1
    <3>3. CASE g = "battery_mah"
      <4>1. Readable(g) = 500..20000
        BY <3>3 DEF Readable
      <4> QED
        BY <4>1
    <3>4. CASE g = "battery_wh"
      <4>1. Readable(g) = 10..200
        BY <3>4, SMTT(30) DEF Readable
      <4> QED
        BY <4>1
    <3>5. CASE g = "weight_g"
      <4>1. Readable(g) = 50..50000
        BY <3>5, SMTT(30) DEF Readable
      <4> QED
        BY <4>1
    <3>6. CASE g = "weight_kg"
      <4>1. Readable(g) = 100..50000
        BY <3>6 DEF Readable
      <4> QED
        BY <4>1
    <3>7. CASE g = "main_camera_mp"
      <4>1. Readable(g) = 1..200
        BY <3>7 DEF Readable
      <4> QED
        BY <4>1
    <3>8. CASE g = "front_camera_mp"
      <4>1. Readable(g) = 1..200
        BY <3>8 DEF Readable
      <4> QED
        BY <4>1
    <3>9. CASE g = "power_w"
      <4>1. Readable(g) = Nat \ {0}
        BY <3>9 DEF Readable
      <4> QED
        BY <4>1
    <3>10. CASE g = "hdmi_count"
      <4>1. Readable(g) = Nat \ {0}
        BY <3>10 DEF Readable
      <4> QED
        BY <4>1
    <3>11. CASE g \notin Names
      <4>1. /\ g # "ram_gb" /\ g # "display_size_inch" /\ g # "battery_mah" /\ g # "battery_wh"
            /\ g # "weight_g" /\ g # "weight_kg" /\ g \notin {"main_camera_mp", "front_camera_mp"}
            /\ g \notin {"power_w", "hdmi_count"}
        BY <3>11
      <4>2. Readable(g) = Nat
        BY <4>1 DEF Readable
      <4> QED
        BY <4>2
    <3> QED
      BY <3>1, <3>2, <3>3, <3>4, <3>5, <3>6, <3>7, <3>8, <3>9, <3>10, <3>11
  <2> QED
    BY <2>1 DEF ReadNumber
<1>2. ReadBoolean(f, text) \in Nat \cup {Unread}
  BY DEF ReadBoolean
<1>3. ReadSimCount(text) \in Nat \cup {Unread}
  <2> DEFINE Kinds == {"esim", "nano-sim", "micro-sim"}
             places == {i \in DOMAIN text.words : text.words[i] \in Kinds}
             counts == {text.tokens[i].number : i \in {j \in DOMAIN text.tokens :
                           text.tokens[j].unit = "sim" /\ text.tokens[j].number \in 1..4}}
  <2>1. Cardinality(places) \in Nat
    <3>1. text.words \in Seq(STRING)
      BY PayloadAssumption DEF PayloadAssumption
    <3>2. IsFiniteSet(DOMAIN text.words)
      BY <3>1, FS_Interval, LenProperties
    <3>3. places \subseteq DOMAIN text.words
      OBVIOUS
    <3> HIDE DEF places
    <3> QED
      BY <3>2, <3>3, FS_Subset, FS_CardinalityType
  <2>2. counts # {} => (CHOOSE n \in counts : TRUE) \in counts
    <3> HIDE DEF counts
    <3> QED
      OBVIOUS
  <2>3. counts \subseteq Nat
    OBVIOUS
  <2> DEFINE kinds == Cardinality(places)
             some == CHOOSE n \in counts : TRUE
  <2>4. ReadSimCount(text) =
          IF text.word = "dual" \/ 2 \in counts THEN 2
          ELSE IF text.word = "single" \/ 1 \in counts THEN 1
          ELSE IF counts # {} THEN some
          ELSE IF kinds > 4 THEN 4
          ELSE IF kinds > 0 THEN kinds ELSE Unread
    BY DEF ReadSimCount
  <2>5. counts # {} => some \in Nat
    BY <2>2, <2>3
  <2> HIDE DEF counts, kinds, some, places
  <2>6. kinds \in Nat
    BY <2>1 DEF kinds
  <2> QED
    BY <2>4, <2>5, <2>6
<1>4. ReadRefreshRate(text) \in Nat \cup {Unread}
  BY <1>1 DEF ReadRefreshRate
<1>5. ReadWarranty(text) \in Nat \cup {Unread}
  BY <1>1 DEF ReadWarranty
<1> QED
  BY <1>1, <1>2, <1>3, <1>4, <1>5, Zenon DEF ReadField

(* What a row is read to say of a field is what its text says of it, it    *)
(* could be true, and the field is one the category and the store have.    *)
Telling(c, at, row, category, store) ==
    /\ c.at = at /\ c.value = ReadField(c.field, row.text) /\ c.value \in Nat
    /\ c.score \in 35..98 /\ Plausible(c.field, c.value)
    /\ c.field \in EnabledFields[CategoryKey(category)] \ Disabled(store)

LEMMA CollectedIsRead ==
    ASSUME NEW at, NEW row \in SpecRows, NEW target, NEW category, NEW store,
           Collect(at, row, target, category, store).value # Unread
    PROVE  Telling(Collect(at, row, target, category, store), at, row, category, store)
<1> DEFINE c == Collect(at, row, target, category, store)
<1> DEFINE f == target.field
           value == ReadField(f, row.text)
           room == ReadField("storage_gb", row.text)
           swapped == f = "ram_gb" /\ value = Unread /\ room # Unread
                        /\ Plausible("storage_gb", room)
<1>1. \A g : Score(target, g, row.text, swapped) \in 35..98
  <2> SUFFICES ASSUME NEW g PROVE Score(target, g, row.text, swapped) \in 35..98
    OBVIOUS
  <2>1. \A n \in Int : Clamped(n) \in 35..98
    BY DEF Clamped
  <2> QED
    BY <2>1 DEF Score
<1>2. f \notin Disabled(store) /\ f \in EnabledFields[CategoryKey(category)]
  BY DEF Collect
<1>3. ASSUME swapped PROVE Telling(c, at, row, category, store)
  <2>1. /\ c.at = at /\ c.field = "storage_gb" /\ c.value = room
        /\ c.score = Score(target, "storage_gb", row.text, swapped)
    BY <1>2, <1>3 DEF Collect
  <2>2. CategoryKey(category) \in DOMAIN EnabledFields
    BY TypedSpecsAssumption DEF TypedSpecsAssumption, CategoryKey
  <2>3. "storage_gb" \in EnabledFields[CategoryKey(category)]
    BY <1>2, <1>3, <2>2, TypedSpecsAssumption DEF TypedSpecsAssumption
  <2>4. "storage_gb" \notin Disabled(store)
    BY <1>2, <1>3, TypedSpecsAssumption DEF TypedSpecsAssumption, Disabled
  <2>5. room \in Nat
    BY <1>3, TextIsRead
  <2> HIDE DEF c
  <2> QED
    BY <1>1, <1>3, <2>1, <2>3, <2>4, <2>5 DEF Telling
<1>4. ASSUME ~swapped PROVE Telling(c, at, row, category, store)
  <2>1. /\ c.at = at /\ c.field = f /\ c.value = value
        /\ c.score = Score(target, f, row.text, swapped)
        /\ value # Unread /\ Plausible(f, value)
    BY <1>2, <1>4 DEF Collect
  <2>2. value \in Nat
    BY <2>1, TextIsRead
  <2> HIDE DEF c
  <2> QED
    BY <1>1, <1>2, <2>1, <2>2 DEF Telling
<1> QED
  BY <1>3, <1>4

-----------------------------------------------------------------------------
(* Resolution.                                                             *)

(* What a table says: rows that can be ordered, each with a value for the  *)
(* field, and what one row says of a field is one thing.                   *)
Evidence(given) ==
    /\ IsFiniteSet(given)
    /\ \A c \in given : c.at \in Nat /\ c.value \in Nat /\ c.score \in 35..98
    /\ \A c, d \in given : c.at = d.at /\ c.field = d.field => c.value = d.value

LEMMA FiniteImage ==
    ASSUME NEW S, IsFiniteSet(S), NEW f, f = [x \in S |-> f[x]]
    PROVE  IsFiniteSet({f[x] : x \in S})
<1> DEFINE T == {f[x] : x \in S}
<1>1. f \in [S -> T]
  OBVIOUS
<1>2. \A y \in T : \E x \in S : f[x] = y
  OBVIOUS
<1> HIDE DEF T
<1>3. f \in Surjection(S, T)
  BY <1>1, <1>2 DEF Surjection
<1> QED
  BY <1>3, FS_Surjection DEF T

LEMMA ReadIsEvidence ==
    ASSUME NEW table \in Seq(SpecRows), NEW category, NEW store
    PROVE  LET read == Read(Collected(table, category, store))
           IN /\ Evidence(read)
              /\ \A c \in read : c.at \in DOMAIN table /\ Telling(c, c.at, table[c.at], category, store)
<1> DEFINE Given(i) == {Collect(i, table[i], target, category, store) :
                           target \in Targets(table[i].label, category, store)}
           all == Collected(table, category, store)
           read == Read(all)
<1>1. all = UNION {Given(i) : i \in DOMAIN table}
  BY Zenon DEF Collected
<1>2. DOMAIN table \subseteq Nat /\ IsFiniteSet(DOMAIN table)
  <2>1. DOMAIN table = 1..Len(table) /\ Len(table) \in Int
    BY LenProperties
  <2>2. IsFiniteSet(1..Len(table))
    BY <2>1, FS_Interval
  <2> QED
    BY <2>1, <2>2
<1>3. ASSUME NEW i \in DOMAIN table PROVE IsFiniteSet(Given(i))
  <2> DEFINE label == table[i].label
             rules == Applicable(label, category, store)
             best == {b \in rules : \A o \in rules : o.field = b.field => RuleRank(o) <= RuleRank(b)}
             own == [label |-> label, field |-> label, priority |-> 0, deprecated |-> FALSE]
             by(r) == [label |-> label, field |-> r.field, priority |-> r.priority,
                       deprecated |-> r.deprecated]
  <2>1. IsFiniteSet(best)
    <3>1. best \subseteq SpecRules
      BY DEF Applicable
    <3> QED
      BY <3>1, FS_Subset, TypedSpecsAssumption DEF TypedSpecsAssumption
  <2>2. Targets(label, category, store) = IF label \in TypedFields THEN {own}
                                          ELSE {by(r) : r \in best}
    BY DEF Targets
  <2>3. IsFiniteSet({own})
    BY FS_Singleton
  <2>4. IsFiniteSet({by(r) : r \in best})
    <3> DEFINE f == [r \in best |-> by(r)]
    <3>1. {f[r] : r \in best} = {by(r) : r \in best}
      OBVIOUS
    <3>2. f = [r \in best |-> f[r]]
      OBVIOUS
    <3> HIDE DEF best, f
    <3>3. IsFiniteSet({f[r] : r \in best})
      BY <2>1, <3>2, FiniteImage
    <3> QED
      BY <3>1, <3>3, Zenon
  <2>5. IsFiniteSet(Targets(label, category, store))
    <3> HIDE DEF best, own, by, rules, label
    <3> QED
      BY <2>2, <2>3, <2>4
  <2> DEFINE targets == Targets(label, category, store)
             f == [target \in targets |-> Collect(i, table[i], target, category, store)]
  <2>6. {f[target] : target \in targets} = Given(i)
    OBVIOUS
  <2>7. f = [target \in targets |-> f[target]]
    OBVIOUS
  <2> HIDE DEF f, targets, Given
  <2>8. IsFiniteSet({f[target] : target \in targets})
    BY <2>5, <2>7, FiniteImage DEF targets
  <2> QED
    BY <2>6, <2>8, Zenon
<1>4. IsFiniteSet(read)
  <2>1. IsFiniteSet({Given(i) : i \in DOMAIN table})
    <3> DEFINE f == [i \in DOMAIN table |-> Given(i)]
    <3> HIDE DEF Given
    <3>1. {f[i] : i \in DOMAIN table} = {Given(i) : i \in DOMAIN table}
      OBVIOUS
    <3>2. f = [i \in DOMAIN table |-> f[i]]
      OBVIOUS
    <3> HIDE DEF f
    <3> QED
      BY <1>2, <3>1, <3>2, FiniteImage
  <2>2. IsFiniteSet(all)
    <3> HIDE DEF Given, all
    <3> QED
      BY <1>1, <1>3, <2>1, FS_UNION
  <2> HIDE DEF all
  <2>3. read \subseteq all
    BY DEF Read
  <2> QED
    BY <2>2, <2>3, FS_Subset
<1>5. ASSUME NEW c \in read
      PROVE  c.at \in DOMAIN table /\ Telling(c, c.at, table[c.at], category, store)
  <2>1. c \in all /\ c.value # Unread
    <3> HIDE DEF all
    <3> QED
      BY DEF Read
  <2>2. PICK i \in DOMAIN table : c \in Given(i)
    BY <1>1, <2>1
  <2>3. PICK target : c = Collect(i, table[i], target, category, store)
    BY <2>2
  <2>4. table[i] \in SpecRows
    BY <2>2
  <2> HIDE DEF all, Given
  <2>5. Telling(c, i, table[i], category, store)
    BY <2>1, <2>3, <2>4, CollectedIsRead
  <2>6. c.at = i
    BY <2>5 DEF Telling
  <2> QED
    BY <2>2, <2>5, <2>6
<1> HIDE DEF read
<1>6. Evidence(read)
  BY <1>2, <1>4, <1>5 DEF Evidence, Telling
<1> QED
  BY <1>5, <1>6 DEF read

(* The first row and the surest one are there. *)
LEMMA FirstIs ==
    ASSUME NEW given, Evidence(given), given # {}
    PROVE  First(given) \in given /\ \A d \in given : First(given).at <= d.at
<1> DEFINE places == {c.at : c \in given}
<1>1. places \in SUBSET Nat /\ places # {}
  BY DEF Evidence
<1>2. PICK m \in places : \A k \in places : m <= k
  BY <1>1, LeastNumber
<1>3. PICK c \in given : c.at = m
  BY <1>2
<1>4. \A d \in given : c.at <= d.at
  BY <1>2, <1>3
<1> QED
  BY <1>4, Zenon DEF First

LEMMA SurestIs ==
    ASSUME NEW given, Evidence(given), given # {}
    PROVE  /\ Surest(given) \in given
           /\ \A d \in given : \/ d.score < Surest(given).score
                               \/ d.score = Surest(given).score /\ Surest(given).at <= d.at
<1> DEFINE doubts == {98 - c.score : c \in given}
<1>1. doubts \in SUBSET Nat /\ doubts # {}
  BY DEF Evidence
<1>2. PICK m \in doubts : \A k \in doubts : m <= k
  BY <1>1, LeastNumber
<1> DEFINE sure == {c \in given : c.score = 98 - m}
<1>3. sure # {} /\ Evidence(sure)
  <2>1. sure # {}
    <3>1. PICK c \in given : m = 98 - c.score
      BY <1>2
    <3>2. c.score = 98 - m
      BY <3>1 DEF Evidence
    <3> QED
      BY <3>2
  <2>2. sure \subseteq given
    OBVIOUS
  <2>3. IsFiniteSet(sure)
    <3> HIDE DEF sure
    <3> QED
      BY <2>2, FS_Subset DEF Evidence
  <2> HIDE DEF sure
  <2> QED
    BY <2>1, <2>2, <2>3 DEF Evidence
<1> DEFINE c == First(sure)
<1>4. c \in sure /\ \A d \in sure : c.at <= d.at
  BY <1>3, FirstIs
<1>5. c \in given /\ \A d \in given : d.score < c.score \/ (d.score = c.score /\ c.at <= d.at)
  <2> SUFFICES ASSUME NEW d \in given, ~(d.score < c.score)
               PROVE  d.score = c.score /\ c.at <= d.at
    BY <1>4
  <2>1. c.score = 98 - m /\ m \in Nat /\ d.score \in 35..98 /\ c.score \in 35..98
    BY <1>1, <1>4 DEF Evidence
  <2>2. m <= 98 - d.score
    BY <1>2
  <2>3. d.score = 98 - m
    BY <2>1, <2>2
  <2> QED
    BY <1>4, <2>1, <2>3
<1> HIDE DEF c
<1> QED
  BY <1>5, Zenon DEF Surest

(* The best confidence is that of the surest row. *)
LEMMA BestIsSurest ==
    ASSUME NEW given, Evidence(given), given # {}
    PROVE  Max({c.score : c \in given}) = Surest(given).score
<1> DEFINE S == {c.score : c \in given}
           best == Surest(given).score
<1>1. best \in S /\ best \in Int
  BY SurestIs DEF Evidence
<1>2. \A n \in S : n \in Int /\ best >= n
  BY <1>1, SurestIs DEF Evidence
<1> HIDE DEF S, best
<1>3. \A n \in S : (\A m \in S : n >= m) => n = best
  BY <1>1, <1>2
<1>4. (CHOOSE n \in S : \A m \in S : n >= m) = best
  BY <1>1, <1>2, <1>3
<1> QED
  BY <1>4 DEF S, best, Max

(* More rows that agree make a field surer. *)
LEMMA MergedGrows ==
    ASSUME NEW few, NEW many, Evidence(many), few \subseteq many, few # {}
    PROVE  /\ MergedConfidence(few) \in Int /\ MergedConfidence(many) \in Int
           /\ MergedConfidence(few) <= MergedConfidence(many)
<1>1. IsFiniteSet(few) /\ Cardinality(few) <= Cardinality(many)
  BY FS_Subset DEF Evidence
<1>2. Evidence(few)
  BY <1>1 DEF Evidence
<1> DEFINE a == Surest(few).score
           b == Surest(many).score
           m == Cardinality(few)
           n == Cardinality(many)
<1>3. a \in 35..98 /\ b \in 35..98 /\ a <= b
  <2>1. Surest(few) \in many /\ Surest(many) \in many
    BY <1>2, SurestIs
  <2>2. a \in 35..98 /\ b \in 35..98
    BY <2>1 DEF Evidence
  <2> QED
    BY <2>1, <2>2, SurestIs
<1>4. m \in Nat /\ n \in Nat /\ m <= n
  BY <1>1, FS_CardinalityType DEF Evidence
<1>5. /\ Max({c.score : c \in few}) = a
      /\ Max({c.score : c \in many}) = b
  BY <1>2, BestIsSurest
<1> DEFINE bump(k) == IF k > 3 THEN 12 ELSE 4 * (k - 1)
           sum(s, k) == IF s + bump(k) > 98 THEN 98 ELSE s + bump(k)
<1>6. MergedConfidence(few) = sum(a, m) /\ MergedConfidence(many) = sum(b, n)
  BY <1>5, Zenon DEF MergedConfidence
<1> HIDE DEF a, b, m, n
<1>7. /\ sum(a, m) \in Int /\ sum(b, n) \in Int
      /\ sum(a, m) <= sum(b, n)
  BY <1>3, <1>4
<1> QED
  BY <1>6, <1>7

(* What Resolve decides on. *)
Agreed(given) == \A c \in given : c.value = First(given).value
Chosen(given) == IF Agreed(given) THEN First(given).value ELSE Surest(given).value
Supporters(f, given) ==
    {c \in given : Compatible(c.value, Chosen(given)) /\ (Agreed(given) \/ Plausible(f, c.value))}

(* A field is typed: its rows are close, the value could be true, and it   *)
(* is sure enough.                                                         *)
Typed(f, given, category) ==
    /\ \E c \in given : Plausible(f, c.value)
    /\ \A c \in given : Compatible(c.value, First(given).value)
    /\ Plausible(f, Chosen(given))
    /\ ~(MergedConfidence(Supporters(f, given)) < MinConfidence(category))

LEMMA ResolveIs ==
    ASSUME NEW f, NEW given, NEW category
    PROVE  LET result == Resolve(f, given, category)
           IN /\ result.reason = "none" <=> Typed(f, given, category)
              /\ result.reason = "none" =>
                    /\ result.value = Chosen(given)
                    /\ result.confidence = MergedConfidence(Supporters(f, given))
<1> DEFINE conflict == IF Agreed(given) THEN {} ELSE {"conflicting values"}
           sure == MergedConfidence(Supporters(f, given))
           none(reason, warning) ==
               [value |-> Unread, confidence |-> 0, reason |-> reason, warnings |-> warning]
<1>1. Resolve(f, given, category) =
        IF \A c \in given : ~Plausible(f, c.value)
        THEN none("plausibility", {"implausible value"})
        ELSE IF ~(\A c \in given : Compatible(c.value, First(given).value))
        THEN none("conflict", {"conflicting values"})
        ELSE IF ~Plausible(f, Chosen(given))
        THEN none("plausibility", conflict \cup {"implausible value"})
        ELSE IF sure < MinConfidence(category)
        THEN none("confidence", conflict \cup {"low confidence"})
        ELSE [value |-> Chosen(given), confidence |-> sure, reason |-> "none", warnings |-> conflict]
  BY Zenon DEF Resolve, Agreed, Chosen, Supporters
<1> DEFINE result == Resolve(f, given, category)
<1> HIDE DEF conflict, sure
<1>2. CASE Typed(f, given, category)
  <2>1. result = [value |-> Chosen(given), confidence |-> sure, reason |-> "none",
                  warnings |-> conflict]
    BY <1>1, <1>2 DEF Typed, sure
  <2> QED
    BY <1>2, <2>1 DEF sure
<1>3. CASE ~Typed(f, given, category)
  <2>1. \E reason \in {"plausibility", "conflict", "confidence"} : \E warning : result = none(reason, warning)
    BY <1>1, <1>3 DEF Typed, sure
  <2>2. result.reason # "none"
    BY <2>1
  <2> QED
    BY <1>3, <2>2
<1> QED
  BY <1>2, <1>3

(* The value is one a row gave, and that row supports it. *)
LEMMA ChosenIsGiven ==
    ASSUME NEW f, NEW given, Evidence(given), given # {}
    PROVE  /\ \E c \in given : c.value = Chosen(given)
           /\ Plausible(f, Chosen(given)) => Supporters(f, given) # {}
<1>1. PICK c \in given : c.value = Chosen(given)
  BY FirstIs, SurestIs DEF Chosen
<1>2. Compatible(c.value, c.value)
  BY DEF Evidence, Compatible, Distance
<1> QED
  BY <1>1, <1>2 DEF Supporters

LEMMA MinConfidenceType == \A category : MinConfidence(category) \in Int
  BY DEF MinConfidence

LEMMA SureEnough ==
    ASSUME NEW f, NEW given, Evidence(given), given # {}, NEW category, Typed(f, given, category)
    PROVE  MergedConfidence(Supporters(f, given)) >= MinConfidence(category)
<1>1. Supporters(f, given) # {} /\ Supporters(f, given) \subseteq given
  BY ChosenIsGiven DEF Typed, Supporters
<1>2. MergedConfidence(Supporters(f, given)) \in Int
  BY <1>1, MergedGrows
<1> QED
  BY <1>2, MinConfidenceType DEF Typed

-----------------------------------------------------------------------------
(* The fields are accounted for.                                           *)

LEMMA AboutIsEvidence ==
    ASSUME NEW read, Evidence(read), NEW f \in FieldsOf(read)
    PROVE  Evidence(About(f, read)) /\ About(f, read) # {} /\ About(f, read) \subseteq read
<1>1. About(f, read) \subseteq read /\ About(f, read) # {}
  BY DEF About, FieldsOf
<1> QED
  BY <1>1, FS_Subset DEF Evidence

(* The fields that a table has typed. *)
LEMMA MappedIs ==
    ASSUME NEW given, NEW category
    PROVE  LET read == Read(given)
               result == MapGiven(given, category)
               typed == {f \in FieldsOf(read) : Typed(f, About(f, read), category)}
           IN /\ DOMAIN result.values = typed /\ DOMAIN result.confidence = typed
              /\ \A f \in typed :
                    /\ result.values[f] = Chosen(About(f, read))
                    /\ result.confidence[f] = MergedConfidence(Supporters(f, About(f, read)))
              /\ {d[1] : d \in result.suppressed} = FieldsOf(read) \ typed
<1> DEFINE read == Read(given)
           resolved == Resolved(read, category)
           result == MapGiven(given, category)
           typed == {f \in FieldsOf(read) : Typed(f, About(f, read), category)}
           none == {f \in DOMAIN resolved : resolved[f].reason = "none"}
<1>1. /\ DOMAIN resolved = FieldsOf(read)
      /\ \A f \in FieldsOf(read) : resolved[f] = Resolve(f, About(f, read), category)
  BY DEF Resolved
<1> HIDE DEF read, resolved
<1>2. none = typed
  BY <1>1, ResolveIs
<1>3. /\ result.values = [f \in none |-> resolved[f].value]
      /\ result.confidence = [f \in none |-> resolved[f].confidence]
      /\ result.suppressed = {<<f, resolved[f].reason>> : f \in DOMAIN resolved \ none}
  BY DEF MapGiven, Mapped, resolved, read
<1> HIDE DEF result
<1>4. \A f \in typed : /\ result.values[f] = Chosen(About(f, read))
                       /\ result.confidence[f] = MergedConfidence(Supporters(f, About(f, read)))
  BY <1>1, <1>2, <1>3, ResolveIs
<1> HIDE DEF none, typed
<1>5. {d[1] : d \in result.suppressed} = FieldsOf(read) \ typed
  <2>1. ASSUME NEW d \in result.suppressed PROVE d[1] \in FieldsOf(read) \ typed
    BY <1>1, <1>2, <1>3
  <2>2. ASSUME NEW f \in FieldsOf(read) \ typed PROVE \E d \in result.suppressed : d[1] = f
    <3>1. <<f, resolved[f].reason>> \in result.suppressed
      BY <1>1, <1>2, <1>3
    <3>2. <<f, resolved[f].reason>>[1] = f
      OBVIOUS
    <3> QED
      BY <3>1, <3>2
  <2> QED
    BY <2>1, <2>2
<1> QED
  BY <1>2, <1>3, <1>4, <1>5 DEF read, result, typed

LEMMA FieldsAddUp ==
    ASSUME NEW table \in Seq(SpecRows), NEW category, NEW store
    PROVE  LET given == Collected(table, category, store)
               result == Normalized(table, category, store)
               read == Read(given)
               lost == {d[1] : d \in result.suppressed}
           IN /\ DOMAIN result.values = DOMAIN result.confidence
              /\ DOMAIN result.values \cap lost = {}
              /\ FieldsOf(read) = DOMAIN result.values \cup lost
              /\ \A f \in DOMAIN result.values :
                    /\ result.confidence[f] >= MinConfidence(category)
                    /\ \E c \in read : c.field = f /\ c.value = result.values[f]
                    /\ f \in EnabledFields[CategoryKey(category)] \ Disabled(store)
<1> DEFINE given == Collected(table, category, store)
           read == Read(given)
           mapped == MapGiven(given, category)
           typed == {f \in FieldsOf(read) : Typed(f, About(f, read), category)}
           dropped == Insane(mapped.values, category)
           out == {d[1] : d \in dropped}
           result == Normalized(table, category, store)
           lost == {d[1] : d \in result.suppressed}
<1>1. /\ Evidence(read)
      /\ \A c \in read : c.field \in EnabledFields[CategoryKey(category)] \ Disabled(store)
  BY ReadIsEvidence DEF Telling
<1>2. /\ DOMAIN mapped.values = typed /\ DOMAIN mapped.confidence = typed
      /\ \A f \in typed :
            /\ mapped.values[f] = Chosen(About(f, read))
            /\ mapped.confidence[f] = MergedConfidence(Supporters(f, About(f, read)))
      /\ {d[1] : d \in mapped.suppressed} = FieldsOf(read) \ typed
  BY MappedIs
<1>3. out \subseteq typed
  <2>1. \A d \in dropped : d[1] \in DOMAIN mapped.values
    BY DEF Insane
  <2> QED
    BY <1>2, <2>1
<1>4. /\ result.values = [f \in typed \ out |-> mapped.values[f]]
      /\ result.confidence = [f \in typed \ out |-> mapped.confidence[f]]
      /\ result.suppressed = mapped.suppressed \cup dropped
  <2>1. result = Checked(mapped, dropped)
    BY Zenon DEF Normalized, Sane, MapSpecs
  <2> HIDE DEF result, mapped, dropped, typed
  <2> QED
    BY <1>2, <2>1 DEF Checked
<1> HIDE DEF result, mapped, dropped, given, read
<1>5. lost = (FieldsOf(read) \ typed) \cup out
  BY <1>2, <1>4
<1>6. ASSUME NEW f \in typed \ out
      PROVE  /\ result.confidence[f] >= MinConfidence(category)
             /\ \E c \in read : c.field = f /\ c.value = result.values[f]
             /\ f \in EnabledFields[CategoryKey(category)] \ Disabled(store)
  <2>1. Evidence(About(f, read)) /\ About(f, read) # {} /\ About(f, read) \subseteq read
    BY <1>1, AboutIsEvidence
  <2>2. PICK c \in About(f, read) : c.value = Chosen(About(f, read))
    BY <2>1, ChosenIsGiven
  <2>3. MergedConfidence(Supporters(f, About(f, read))) >= MinConfidence(category)
    BY <2>1, SureEnough
  <2>4. c \in read /\ c.field = f
    BY <2>1, <2>2 DEF About
  <2> QED
    BY <1>1, <1>2, <1>4, <2>2, <2>3, <2>4
<1> HIDE DEF out
<1>7. DOMAIN result.values = typed \ out /\ DOMAIN result.confidence = typed \ out
  BY <1>4
<1>8. typed \subseteq FieldsOf(read)
  OBVIOUS
<1> HIDE DEF typed, lost
<1> QED
  BY <1>3, <1>5, <1>6, <1>7, <1>8 DEF result, given, read, lost

-----------------------------------------------------------------------------
(* Agreement.                                                              *)

(* Later rows that agree with the value that a field has change nothing    *)
(* but how sure it is.                                                     *)
LEMMA AgreementKeeps ==
    ASSUME NEW f, NEW category, NEW old, NEW new, Evidence(new), old \subseteq new, old # {},
           \A c \in new : c.field = f /\ Plausible(f, c.value),
           \A c \in new \ old : c.value = Chosen(old) /\ \A d \in old : d.at < c.at,
           Typed(f, old, category)
    PROVE  /\ Typed(f, new, category) /\ Chosen(new) = Chosen(old)
           /\ MergedConfidence(Supporters(f, new)) >= MergedConfidence(Supporters(f, old))
<1>1. Evidence(old)
  BY FS_Subset DEF Evidence
<1> DEFINE v == Chosen(old)
<1>2. First(new).value = First(old).value
  <2>1. /\ First(old) \in old /\ First(new) \in new
        /\ First(new).at <= First(old).at /\ \A d \in old : First(old).at <= d.at
    BY <1>1, FirstIs
  <2>2. First(new) \in old
    <3>1. First(new).at \in Nat /\ First(old).at \in Nat
      BY <2>1 DEF Evidence
    <3> QED
      BY <2>1, <3>1
  <2>3. First(new).at = First(old).at
    <3>1. First(new).at \in Nat /\ First(old).at \in Nat
      BY <2>1 DEF Evidence
    <3> QED
      BY <2>1, <2>2, <3>1
  <2> QED
    BY <2>1, <2>3 DEF Evidence
<1>3. Agreed(new) <=> Agreed(old)
  BY <1>2 DEF Agreed, Chosen
<1>4. ASSUME ~Agreed(old) PROVE Surest(new).value = Surest(old).value
  <2> DEFINE s == Surest(old)
             t == Surest(new)
  <2>1. /\ s \in old /\ t \in new
        /\ \A d \in old : d.score < s.score \/ (d.score = s.score /\ s.at <= d.at)
        /\ \A d \in new : d.score < t.score \/ (d.score = t.score /\ t.at <= d.at)
    BY <1>1, SurestIs
  <2> HIDE DEF s, t
  <2>2. CASE t \notin old
    <3>1. t.value = Chosen(old)
      BY <2>1, <2>2
    <3> QED
      BY <1>4, <3>1 DEF Chosen, s, t
  <2>3. CASE t \in old
    <3>1. s.at \in Nat /\ t.at \in Nat /\ s.score \in Int /\ t.score \in Int
      BY <2>1 DEF Evidence
    <3>2. s.at = t.at
      BY <2>1, <2>3, <3>1
    <3>3. s.value = t.value
      BY <2>1, <3>2 DEF Evidence
    <3> QED
      BY <3>3 DEF s, t
  <2> QED
    BY <2>2, <2>3
<1>5. Chosen(new) = v
  BY <1>2, <1>3, <1>4 DEF Chosen
<1>6. Supporters(f, old) \subseteq Supporters(f, new) /\ Supporters(f, new) \subseteq new
  BY <1>3, <1>5 DEF Supporters
<1>7. Plausible(f, v) /\ Supporters(f, old) # {}
  BY <1>1, ChosenIsGiven DEF Typed
<1>8. /\ MergedConfidence(Supporters(f, old)) \in Int
      /\ MergedConfidence(Supporters(f, new)) \in Int
      /\ MergedConfidence(Supporters(f, old)) <= MergedConfidence(Supporters(f, new))
  <2>1. Evidence(Supporters(f, new))
    BY <1>6, FS_Subset DEF Evidence
  <2> QED
    BY <1>6, <1>7, <2>1, MergedGrows
<1>9. \A c \in new : Compatible(c.value, First(new).value)
  <2>1. \A c \in old : Compatible(c.value, First(old).value)
    BY DEF Typed
  <2>2. Compatible(v, First(old).value)
    BY <1>1, <2>1, ChosenIsGiven
  <2> QED
    BY <1>2, <2>1, <2>2
<1>10. Typed(f, new, category)
  <2>1. ~(MergedConfidence(Supporters(f, old)) < MinConfidence(category))
    BY DEF Typed
  <2>2. ~(MergedConfidence(Supporters(f, new)) < MinConfidence(category))
    BY <1>8, <2>1, MinConfidenceType
  <2>3. \E c \in new : Plausible(f, c.value)
    OBVIOUS
  <2> HIDE DEF v
  <2> QED
    BY <1>5, <1>7, <1>9, <2>2, <2>3 DEF Typed
<1> QED
  BY <1>5, <1>8, <1>10

(* What a row gives does not depend on where it stands. *)
LEMMA PlaceIsNothing ==
    ASSUME NEW a, NEW b, NEW row, NEW target, NEW category, NEW store
    PROVE  LET c == Collect(a, row, target, category, store)
               d == Collect(b, row, target, category, store)
           IN c.field = d.field /\ c.value = d.value
  BY DEF Collect

LEMMA RowAgrees ==
    ASSUME NEW table \in Seq(SpecRows), Len(table) > 1, NEW category, NEW store
    PROVE  Confirmed(MapSpecs(Front(table), category, store),
                     Collected(<<Last(table)>>, category, store),
                     MapSpecs(table, category, store))
<1> DEFINE n == Len(table)
           rest == Front(table)
           Given(i) == {Collect(i, table[i], target, category, store) :
                           target \in Targets(table[i].label, category, store)}
           fewer == Collected(rest, category, store)
           all == Collected(table, category, store)
           more == Collected(<<Last(table)>>, category, store)
           before == MapGiven(fewer, category)
           after == MapGiven(all, category)
<1>1. /\ n \in Nat /\ DOMAIN table = 1..n /\ n > 1
      /\ rest \in Seq(SpecRows) /\ DOMAIN rest = 1..(n - 1)
      /\ \A i \in 1..(n - 1) : rest[i] = table[i]
  <2>1. n \in Nat /\ DOMAIN table = 1..n
    BY LenProperties
  <2>2. rest = [i \in 1..(n - 1) |-> table[i]]
    BY <2>1 DEF Front
  <2>3. \A i \in 1..(n - 1) : table[i] \in SpecRows
    BY <2>1
  <2> QED
    BY <2>1, <2>2, <2>3
<1>2. all = UNION {Given(i) : i \in 1..n}
  BY <1>1, Zenon DEF Collected
<1>3. fewer = UNION {Given(i) : i \in 1..(n - 1)}
  <2> DEFINE Rest(i) == {Collect(i, rest[i], target, category, store) :
                            target \in Targets(rest[i].label, category, store)}
  <2>1. fewer = UNION {Rest(i) : i \in 1..(n - 1)}
    BY <1>1, Zenon DEF Collected
  <2>2. \A i \in 1..(n - 1) : Rest(i) = Given(i)
    BY <1>1
  <2> HIDE DEF Rest, Given, fewer
  <2> QED
    BY <2>1, <2>2
<1>4. ASSUME NEW c \in Given(n) PROVE \E d \in more : d.field = c.field /\ d.value = c.value
  <2>1. PICK target \in Targets(table[n].label, category, store) :
          c = Collect(n, table[n], target, category, store)
    OBVIOUS
  <2> DEFINE d == Collect(1, table[n], target, category, store)
  <2>2. d.field = c.field /\ d.value = c.value
    BY <2>1, PlaceIsNothing
  <2>3. d \in more
    <3> DEFINE one == <<Last(table)>>
    <3>1. one[1] = table[n] /\ 1 \in DOMAIN one
      BY DEF Last
    <3> HIDE DEF one
    <3>2. d \in {Collect(1, one[1], t, category, store) :
                    t \in Targets(one[1].label, category, store)}
      BY <3>1
    <3> HIDE DEF d
    <3>3. d \in Collected(one, category, store)
      BY <3>1, <3>2 DEF Collected
    <3> QED
      BY <3>3 DEF one
  <2> HIDE DEF d, more
  <2> QED
    BY <2>2, <2>3
<1>5. Evidence(Read(all)) /\ \A c \in Read(all) : Plausible(c.field, c.value)
  BY ReadIsEvidence DEF Telling
<1>6. /\ \A c \in Read(fewer) : c.at \in 1..(n - 1)
      /\ Read(fewer) \subseteq Read(all)
      /\ \A c \in Read(all) \ Read(fewer) : c \in Given(n) /\ c.at = n
  <2>1. \A c \in Read(fewer) : c.at \in 1..(n - 1)
    BY <1>1, ReadIsEvidence
  <2>2. all = fewer \cup Given(n)
    <3> HIDE DEF all, fewer, Given
    <3>1. 1..n = 1..(n - 1) \cup {n}
      BY <1>1, SMTT(30)
    <3> QED
      BY <1>2, <1>3, <3>1
  <2>3. \A c \in Given(n) : c \in Read(all) => c.at = n
    <3> SUFFICES ASSUME NEW c \in Given(n), c \in Read(all) PROVE c.at = n
      OBVIOUS
    <3>1. PICK target : c = Collect(n, table[n], target, category, store)
      OBVIOUS
    <3> QED
      BY <3>1 DEF Collect
  <2> HIDE DEF all, fewer, Given
  <2> QED
    BY <2>1, <2>2, <2>3 DEF Read
<1> HIDE DEF all, fewer, more, Given
<1> SUFFICES ASSUME NEW f \in FieldsOf(more) \cap DOMAIN before.values,
                    {c.value : c \in About(f, more)} = {before.values[f]}
             PROVE  /\ f \in DOMAIN after.values
                    /\ after.values[f] = before.values[f]
                    /\ after.confidence[f] >= before.confidence[f]
  BY DEF Confirmed, MapSpecs, fewer, all, more
<1> DEFINE old == About(f, Read(fewer))
           new == About(f, Read(all))
<1>7. /\ f \in FieldsOf(Read(fewer)) /\ Typed(f, old, category)
      /\ before.values[f] = Chosen(old)
      /\ before.confidence[f] = MergedConfidence(Supporters(f, old))
  BY MappedIs
<1>8. old \subseteq new /\ old # {} /\ Evidence(new) /\ f \in FieldsOf(Read(all))
  <2>1. f \in FieldsOf(Read(all)) /\ old \subseteq new /\ old # {}
    BY <1>6, <1>7 DEF FieldsOf, About
  <2> QED
    BY <1>5, <2>1, AboutIsEvidence
<1>9. \A c \in new \ old : c.value = Chosen(old) /\ \A d \in old : d.at < c.at
  <2> SUFFICES ASSUME NEW c \in new \ old
               PROVE  c.value = Chosen(old) /\ \A d \in old : d.at < c.at
    OBVIOUS
  <2>1. c \in Read(all) \ Read(fewer) /\ c.field = f
    BY DEF About
  <2>2. PICK d \in more : d.field = f /\ d.value = c.value
    BY <1>4, <1>6, <2>1
  <2>3. d \in About(f, more)
    BY <2>2 DEF About
  <2>4. c.value = before.values[f]
    BY <2>2, <2>3
  <2>5. \A e \in old : e.at \in 1..(n - 1)
    BY <1>6 DEF About
  <2>6. c.at = n
    BY <1>6, <2>1
  <2> QED
    BY <1>1, <1>7, <2>4, <2>5, <2>6
<1>10. \A c \in new : c.field = f /\ Plausible(f, c.value)
  BY <1>5 DEF About
<1> HIDE DEF old, new
<1>11. /\ Typed(f, new, category) /\ Chosen(new) = Chosen(old)
       /\ MergedConfidence(Supporters(f, new)) >= MergedConfidence(Supporters(f, old))
  BY <1>7, <1>8, <1>9, <1>10, AgreementKeeps
<1>12. /\ f \in DOMAIN after.values /\ after.values[f] = Chosen(new)
       /\ after.confidence[f] = MergedConfidence(Supporters(f, new))
  BY <1>8, <1>11, MappedIs DEF new
<1> QED
  BY <1>7, <1>11, <1>12

-----------------------------------------------------------------------------
(* The page that is read.                                                  *)

PageInv ==
    reading # NoPage => "table" \in DOMAIN reading /\ reading.table \in Seq(SpecRows)

LEMMA PageStep == PageInv /\ [Next]_vars => PageInv'
<1> SUFFICES ASSUME PageInv, [Next]_vars PROVE PageInv'
  OBVIOUS
<1>1. CASE ReadRow
  <2>1. PICK row \in SpecRows : reading' = [reading EXCEPT !.table = Append(@, row)]
    BY <1>1 DEF ReadRow
  <2>2. "table" \in DOMAIN reading /\ reading.table \in Seq(SpecRows)
    BY <1>1 DEF ReadRow, PageInv
  <2>3. reading'.table = Append(reading.table, row) /\ "table" \in DOMAIN reading'
    BY <2>1, <2>2
  <2>4. reading'.table \in Seq(SpecRows)
    BY <2>2, <2>3, AppendProperties
  <2> QED
    BY <2>3, <2>4 DEF PageInv
<1>2. ASSUME NEW store, OpenPage(store) PROVE PageInv'
  <2>1. PICK page \in SpecPages : reading' = [store |-> store, page |-> page, table |-> <<>>]
    BY <1>2 DEF OpenPage
  <2> QED
    BY <2>1 DEF PageInv
<1>3. CASE reading' = NoPage
  BY <1>3 DEF PageInv
<1>4. CASE UNCHANGED reading
  BY <1>4 DEF PageInv
<1> QED
  BY <1>1, <1>2, <1>3, <1>4
     DEF Next, ReadPage, ProcessItem, Step, StartClosing, Finish, vars

LEMMA PageAlways == Spec => []PageInv
<1>1. Init => PageInv
  BY DEF Init, PageInv
<1> QED
  BY <1>1, PageStep, PTL DEF Spec

(* No characteristic is lost on its way into the payload without a word,   *)
(* whatever the rules of the registry, the rows of the page and its        *)
(* category (FieldsAreAccountedFor).                                       *)
THEOREM FieldsAlwaysAccountedFor == Spec => []FieldsAreAccountedFor
<1>1. PageInv => FieldsAreAccountedFor
  <2> SUFFICES ASSUME PageInv, reading # NoPage PROVE FieldsAreAccountedFor
    BY DEF FieldsAreAccountedFor
  <2> DEFINE category == CategoryHint(reading.page, reading.table)
  <2>1. reading.table \in Seq(SpecRows)
    BY DEF PageInv
  <2> HIDE DEF category
  <2>2. AddsUp(Collected(reading.table, category, reading.store),
               Normalized(reading.table, category, reading.store), category)
    BY <2>1, FieldsAddUp, Zenon DEF AddsUp
  <2> QED
    BY <2>2, Zenon DEF FieldsAreAccountedFor, category
<1> QED
  BY <1>1, PageAlways, PTL

(* One more row that confirms a typed field never costs the field its      *)
(* value or its confidence, whatever the rules and the rows: the first row *)
(* of the field stays the first, the surest value stays the value, and who *)
(* supported it still does (AgreementNeverHurts).                          *)
THEOREM AgreementAlwaysHelps == Spec => []AgreementNeverHurts
<1>1. PageInv => AgreementNeverHurts
  <2> SUFFICES ASSUME PageInv, reading # NoPage, Len(reading.table) > 1
               PROVE  AgreementNeverHurts
    BY DEF AgreementNeverHurts
  <2> DEFINE category == CategoryHint(reading.page, reading.table)
  <2>1. reading.table \in Seq(SpecRows)
    BY DEF PageInv
  <2> HIDE DEF category
  <2>2. Confirmed(MapSpecs(Front(reading.table), category, reading.store),
                  Collected(<<Last(reading.table)>>, category, reading.store),
                  MapSpecs(reading.table, category, reading.store))
    BY <2>1, RowAgrees
  <2> QED
    BY <2>2, Zenon DEF AgreementNeverHurts, category
<1> QED
  BY <1>1, PageAlways, PTL
=============================================================================
