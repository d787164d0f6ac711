---------------------------- MODULE OutboxProofs ----------------------------
(***************************************************************************)
(* Safety of the outbox for any number of products, snapshots and          *)
(* publishers, any batch size, retry limit and number of faults: in        *)
(* Postgres, and then in SQLite.                                           *)
(***************************************************************************)
EXTENDS SqliteOutbox, FiniteSetTheorems, SequenceTheorems, TLAPS

(* Any group of products is finite, so rows can be counted. *)
LEMMA SubsetsAreFinite ==
    ASSUME NEW S \in SUBSET Products
    PROVE  IsFiniteSet(S) /\ Cardinality(S) \in Nat
BY OutboxAssumption, FS_Subset, FS_CardinalityType

LEMMA OldestAreChosen ==
    ASSUME NEW S, NEW n
    PROVE  Oldest(S, n) \subseteq S
BY DEF Oldest

LEMMA InitTypeOK == Init => TypeOK
BY OutboxAssumption
   DEF Init, TypeOK, NoRaw, NoRow, Idle, Row, Publisher, Message, Status, Persisted

LEMMA PersistTypeOK ==
    ASSUME TypeOK, NEW p \in Products, NEW v \in Versions, Persist(p, v)
    PROVE  TypeOK'
<1>1. Persisted \in SUBSET Products /\ Cardinality(Persisted) \in Nat
  BY SubsetsAreFinite DEF Persisted
<1>2. FreshRow(p, v) \in Row
  BY <1>1 DEF FreshRow, Row, Status, TypeOK
<1>3. outbox' \in [Products -> Row]
  BY <1>2 DEF Persist, TypeOK
<1>4. raw' \in [Products -> [hash : Versions \cup {None}, state : Status \cup {"absent"}]]
  BY DEF Persist, TypeOK, Status
<1>5. Persisted' = Persisted \cup {p}
  BY <1>2 DEF Persist, Persisted, FreshRow, TypeOK
<1>6. \A q \in Persisted' : outbox'[q].payload \in Versions
  BY <1>5 DEF Persist, FreshRow, TypeOK, Persisted
<1>7. used' \in [scrapes : Nat, replays : Nat, faults : Nat]
  BY DEF Persist, TypeOK
<1> QED
  BY <1>3, <1>4, <1>5, <1>6, <1>7 DEF Persist, TypeOK

LEMMA RequeueTypeOK ==
    ASSUME TypeOK, NEW ids, ids \in SUBSET Persisted, Requeue(ids)
    PROVE  TypeOK'
<1>1. outbox \in [Products -> Row] /\ used \in [scrapes : Nat, replays : Nat, faults : Nat]
  BY DEF TypeOK
<1>2. /\ \A q \in Products \ ids : outbox'[q] = outbox[q]
      /\ \A q \in Products \cap ids :
           outbox'[q] = Ready(outbox[q])
      /\ outbox' = [q \in Products |-> outbox'[q]]
  BY DEF Requeue
<1>3. \A q \in Products :
         /\ outbox'[q] \in Row
         /\ outbox'[q].payload = outbox[q].payload
         /\ outbox'[q].status = "absent" <=> outbox[q].status = "absent"
  <2> SUFFICES ASSUME NEW q \in Products
               PROVE  /\ outbox'[q] \in Row
                      /\ outbox'[q].payload = outbox[q].payload
                      /\ outbox'[q].status = "absent" <=> outbox[q].status = "absent"
    OBVIOUS
  <2>1. CASE q \in ids
    <3>1. outbox[q].status # "absent"
      BY <2>1 DEF Persisted
    <3>2. outbox[q] \in Row
      BY <1>1
    <3>3. outbox'[q] = Ready(outbox[q])
      BY <1>2, <2>1
    <3> QED
      BY <3>1, <3>2, <3>3 DEF Ready, Row, Status
  <2>2. CASE q \notin ids
    BY <1>1, <1>2, <2>2
  <2> QED
    BY <2>1, <2>2
<1>4. outbox' \in [Products -> Row]
  BY <1>2, <1>3
<1>5. raw' \in [Products -> [hash : Versions \cup {None}, state : Status \cup {"absent"}]]
  BY DEF Requeue, TypeOK, Status
<1>6. used' = [used EXCEPT !.replays = @ + 1] /\ UNCHANGED <<attempts, pub, sent>>
  BY DEF Requeue
<1>7. used' \in [scrapes : Nat, replays : Nat, faults : Nat]
  BY <1>1, <1>6
<1>8. Persisted' = Persisted
  BY <1>3 DEF Persisted
<1> QED
  BY <1>3, <1>4, <1>5, <1>6, <1>7, <1>8 DEF TypeOK, Persisted

(* What TypeOK says of the batch of one publisher. *)
TodoOK(todo) == todo \in Seq(Message) /\ \A i \in DOMAIN todo : todo[i].product \in Persisted

PubOK(r) ==
    /\ r \in Publisher
    /\ r.pc \notin {"idle", "connecting"} => r.todo # <<>>
    /\ \A i \in DOMAIN r.todo : r.todo[i].product \in Persisted

LEMMA TypeOKOfPub ==
    ASSUME TypeOK, NEW w \in Publishers
    PROVE  PubOK(pub[w])
BY DEF TypeOK, PubOK

(* A step that leaves the tables alone and one publisher well typed. *)
LEMMA PubStepTypeOK ==
    ASSUME TypeOK, NEW w \in Publishers, NEW r, PubOK(r),
           pub' = [pub EXCEPT ![w] = r], UNCHANGED <<raw, outbox, attempts>>,
           sent' \in [Products -> SUBSET Versions],
           used' \in [scrapes : Nat, replays : Nat, faults : Nat]
    PROVE  TypeOK'
<1>1. Persisted' = Persisted
  BY DEF Persisted
<1>2. pub' \in [Publishers -> Publisher]
  BY DEF TypeOK, PubOK
<1>3. \A v \in Publishers : pub'[v] = IF v = w THEN r ELSE pub[v]
  BY DEF TypeOK
<1>4. \A v \in Publishers :
         /\ pub'[v].pc \notin {"idle", "connecting"} => pub'[v].todo # <<>>
         /\ \A i \in DOMAIN pub'[v].todo : pub'[v].todo[i].product \in Persisted
  BY <1>3 DEF TypeOK, PubOK
<1> QED
  BY <1>1, <1>2, <1>4 DEF TypeOK

LEMMA IdleIsOK == PubOK(Idle)
BY EmptySeq DEF PubOK, Idle, Publisher

LEMMA ConnectTypeOK ==
    ASSUME TypeOK, NEW w \in Publishers, Connect(w)
    PROVE  TypeOK'
<1> DEFINE r == [pub[w] EXCEPT !.pc = "connecting"]
<1>1. PubOK(r)
  BY TypeOKOfPub DEF PubOK, Publisher
<1>2. pub' = [pub EXCEPT ![w] = r]
  BY DEF Connect, TypeOK
<1> QED
  BY <1>1, <1>2, PubStepTypeOK DEF Connect, TypeOK

LEMMA AbandonTypeOK ==
    ASSUME TypeOK, NEW w \in Publishers, Abandon(w)
    PROVE  TypeOK'
<1>1. used \in [scrapes : Nat, replays : Nat, faults : Nat]
  BY DEF TypeOK
<1>2. used' \in [scrapes : Nat, replays : Nat, faults : Nat]
  BY <1>1 DEF Abandon
<1>3. sent' \in [Products -> SUBSET Versions]
  BY DEF Abandon, TypeOK
<1> QED
  BY <1>2, <1>3, IdleIsOK, PubStepTypeOK DEF Abandon

(* A publisher that is sending has a first message. *)
LEMMA HeadOfTodo ==
    ASSUME TypeOK, NEW w \in Publishers, pub[w].pc \notin {"idle", "connecting"}
    PROVE  /\ Head(pub[w].todo) \in Message
           /\ Head(pub[w].todo).product \in Persisted
           /\ TodoOK(Tail(pub[w].todo))
<1> DEFINE todo == pub[w].todo
<1>1. todo \in Seq(Message) /\ todo # <<>> /\ \A i \in DOMAIN todo : todo[i].product \in Persisted
  BY TypeOKOfPub DEF PubOK, Publisher
<1> HIDE DEF todo
<1>2. Len(todo) \in Nat \ {0} /\ DOMAIN todo = 1 .. Len(todo) /\ Head(todo) = todo[1]
  BY <1>1
<1>3. /\ Tail(todo) \in Seq(Message)
      /\ Len(Tail(todo)) = Len(todo) - 1
      /\ \A i \in 1 .. Len(Tail(todo)) : Tail(todo)[i] = todo[i + 1]
  BY <1>1, HeadTailProperties
<1>4. \A i \in DOMAIN Tail(todo) : Tail(todo)[i].product \in Persisted
  BY <1>1, <1>2, <1>3
<1>5. Head(todo) \in Message /\ Head(todo).product \in Persisted
  BY <1>1, <1>2
<1> QED
  BY <1>3, <1>4, <1>5 DEF todo, TodoOK

LEMMA SendTypeOK ==
    ASSUME TypeOK, NEW w \in Publishers, Send(w)
    PROVE  TypeOK'
<1> DEFINE m == Head(pub[w].todo)
<1>1. pub[w].pc \in {"publish", "reconnect", "republish"}
  BY DEF Send, Publish, Republish, Attempt
<1>2. m \in Message /\ m.product \in Products
  BY <1>1, HeadOfTodo DEF Persisted
<1>3. Accepted(m) \in [Products -> SUBSET Versions]
  BY <1>2 DEF Accepted, Message, TypeOK
<1>4. sent' \in [Products -> SUBSET Versions]
  BY <1>3 DEF Send, Publish, Republish, Attempt, TypeOK
<1>5. PICK pc \in {"republish", "confirmed", "retryable", "disconnected", "fatal"} :
        pub' = [pub EXCEPT ![w].pc = pc]
  BY DEF Send, Publish, Republish, Attempt
<1> DEFINE r == [pub[w] EXCEPT !.pc = pc]
<1>6. PubOK(r)
  BY <1>1, TypeOKOfPub DEF PubOK, Publisher
<1>7. pub' = [pub EXCEPT ![w] = r]
  BY <1>5 DEF TypeOK
<1>8. UNCHANGED <<raw, outbox, attempts, used>>
  BY DEF Send, Publish, Republish, Attempt
<1> HIDE DEF r, m
<1> QED
  BY <1>4, <1>6, <1>7, <1>8, PubStepTypeOK DEF TypeOK

LEMMA ClaimTypeOK ==
    ASSUME TypeOK, NEW w \in Publishers, NEW ids, ids \in SUBSET Persisted, ClaimRows(w, ids)
    PROVE  TypeOK'
<1>1. ids \subseteq Persisted /\ ids \in SUBSET Products
  BY DEF Persisted
<1>2. Cardinality(ids) \in Nat
  BY <1>1, SubsetsAreFinite
<1>3. \A q \in Products :
         outbox'[q] = IF q \in ids
                      THEN [outbox[q] EXCEPT !.status = "leased", !.lease = "live"]
                      ELSE outbox[q]
  BY DEF ClaimRows
<1>4. /\ outbox' = [q \in Products |-> outbox'[q]]
      /\ raw' = [q \in Products |->
                   IF q \in ids THEN [raw[q] EXCEPT !.state = "leased"] ELSE raw[q]]
  BY DEF ClaimRows
<1> PICK b \in InOrder(ids) :
        pub' = [pub EXCEPT ![w] =
                  [pc   |-> IF ids = {} THEN "idle" ELSE "publish",
                   todo |-> [i \in DOMAIN b |->
                               [product |-> b[i], payload |-> outbox[b[i]].payload]]]]
  BY DEF ClaimRows
<1>5. b \in [1 .. Cardinality(ids) -> ids]
  BY DEF InOrder
<1>6. \A q \in Products :
         /\ outbox'[q] \in Row
         /\ outbox'[q].payload = outbox[q].payload
         /\ (outbox'[q].status = "absent") <=> (outbox[q].status = "absent")
  <2> SUFFICES ASSUME NEW q \in Products
               PROVE  /\ outbox'[q] \in Row
                      /\ outbox'[q].payload = outbox[q].payload
                      /\ (outbox'[q].status = "absent") <=> (outbox[q].status = "absent")
    OBVIOUS
  <2>1. outbox[q] \in Row
    BY DEF TypeOK
  <2>2. CASE q \in ids
    <3>1. outbox[q].status # "absent"
      BY <1>1, <2>2 DEF Persisted
    <3>2. outbox'[q] = [outbox[q] EXCEPT !.status = "leased", !.lease = "live"]
      BY <1>3, <2>2
    <3> QED
      BY <2>1, <3>1, <3>2 DEF Row, Status
  <2>3. CASE q \notin ids
    BY <1>3, <2>1, <2>3
  <2> QED
    BY <2>2, <2>3
<1>7. Persisted' = Persisted
  BY <1>6 DEF Persisted
<1>8. raw' \in [Products -> [hash : Versions \cup {None}, state : Status \cup {"absent"}]]
  BY <1>4 DEF TypeOK, Status
<1> DEFINE todo == [i \in DOMAIN b |-> [product |-> b[i], payload |-> outbox[b[i]].payload]]
           r == [pc |-> IF ids = {} THEN "idle" ELSE "publish", todo |-> todo]
<1>9. \A i \in DOMAIN b : b[i] \in Persisted /\ [product |-> b[i], payload |-> outbox[b[i]].payload] \in Message
  BY <1>1, <1>5 DEF TypeOK, Message, Persisted
<1>10. todo \in [1 .. Cardinality(ids) -> Message] /\ \A i \in DOMAIN todo : todo[i].product \in Persisted
  BY <1>5, <1>9
<1>11. todo \in Seq(Message) /\ Len(todo) = Cardinality(ids)
  BY <1>2, <1>10, SeqDef
<1>12. ids # {} => todo # <<>>
  BY <1>1, <1>2, <1>11, FS_EmptySet, SubsetsAreFinite, EmptySeq
<1> HIDE DEF todo
<1>13. PubOK(r)
  BY <1>10, <1>11, <1>12 DEF PubOK, Publisher
<1>14. pub' = [pub EXCEPT ![w] = r] /\ UNCHANGED <<attempts, sent, used>>
  BY DEF ClaimRows, todo
<1> HIDE DEF r
<1>15. \A v \in Publishers : PubOK(pub'[v])
  BY <1>13, <1>14, TypeOKOfPub DEF TypeOK
<1>16. pub' \in [Publishers -> Publisher]
  BY <1>14, <1>15 DEF PubOK, TypeOK
<1>17. outbox' \in [Products -> Row] /\ \A q \in Persisted' : outbox'[q].payload \in Versions
  BY <1>4, <1>6, <1>7 DEF TypeOK, Persisted
<1> QED
  BY <1>7, <1>8, <1>14, <1>15, <1>16, <1>17 DEF TypeOK, PubOK

(* The publisher's state after a message is dealt with. *)
LEMMA HandledOK ==
    ASSUME TypeOK, NEW w \in Publishers, pub[w].pc \notin {"idle", "connecting"}
    PROVE  /\ Handled(w) \in [Publishers -> Publisher]
           /\ \A v \in Publishers : PubOK(Handled(w)[v])
<1> DEFINE rest == Tail(pub[w].todo)
           r == [pc   |-> IF rest = <<>> THEN "idle"
                          ELSE IF pub[w].pc = "disconnected" THEN "reconnect" ELSE "publish",
                 todo |-> rest]
<1>1. TodoOK(rest)
  BY HeadOfTodo
<1> HIDE DEF rest
<1>2. PubOK(r)
  BY <1>1 DEF PubOK, TodoOK, Publisher
<1>3. Handled(w) = [pub EXCEPT ![w] = r]
  BY DEF Handled, rest
<1> HIDE DEF r
<1>4. \A v \in Publishers : PubOK(Handled(w)[v])
  BY <1>2, <1>3, TypeOKOfPub DEF TypeOK
<1> QED
  BY <1>3, <1>4 DEF TypeOK, PubOK

LEMMA LoggedOK ==
    ASSUME TypeOK, NEW p \in Products, NEW n \in Nat \ {0}, NEW ok \in BOOLEAN
    PROVE  [attempts EXCEPT ![p] = Logged(p, n, ok)]
             \in [Products -> SUBSET [number : Nat \ {0}, success : BOOLEAN]]
<1>1. Logged(p, n, ok) \subseteq [number : Nat \ {0}, success : BOOLEAN]
  BY DEF Logged, TypeOK
<1> QED
  BY <1>1 DEF TypeOK

(* A step that writes one existing row and nothing else of the outbox. *)
LEMMA RowStepTypeOK ==
    ASSUME TypeOK, NEW p \in Persisted, NEW row, row \in Row,
           row.status # "absent", row.payload \in Versions,
           outbox' = [outbox EXCEPT ![p] = row],
           raw' \in [Products -> [hash : Versions \cup {None}, state : Status \cup {"absent"}]],
           attempts' \in [Products -> SUBSET [number : Nat \ {0}, success : BOOLEAN]],
           pub' \in [Publishers -> Publisher],
           \A v \in Publishers : PubOK(pub'[v]),
           UNCHANGED <<sent, used>>
    PROVE  TypeOK'
<1>1. p \in Products /\ outbox[p].status # "absent"
  BY DEF Persisted
<1>2. outbox' \in [Products -> Row]
  BY DEF TypeOK
<1>3. \A q \in Products : outbox'[q] = IF q = p THEN row ELSE outbox[q]
  BY DEF TypeOK
<1>4. Persisted' = Persisted
  BY <1>1, <1>3 DEF Persisted
<1>5. \A q \in Persisted' : outbox'[q].payload \in Versions
  BY <1>3, <1>4 DEF TypeOK, Persisted
<1> QED
  BY <1>2, <1>4, <1>5 DEF TypeOK, PubOK

LEMMA MarkPublishedTypeOK ==
    ASSUME TypeOK, NEW w \in Publishers, MarkPublished(w)
    PROVE  TypeOK'
<1> DEFINE m == Head(pub[w].todo)
           p == m.product
           n == outbox[p].retry + 1
           row == Published(outbox[p], m)
<1>1. pub[w].pc = "confirmed"
  BY DEF MarkPublished
<1>2. m \in Message /\ p \in Persisted /\ p \in Products
  BY <1>1, HeadOfTodo DEF Persisted
<1>3. outbox[p] \in Row /\ m.payload \in Versions
  BY <1>2 DEF TypeOK, Message
<1>4. /\ outbox' = [outbox EXCEPT ![p] = row]
      /\ raw' = [raw EXCEPT ![p].state = "published"]
      /\ attempts' = [attempts EXCEPT ![p] = Logged(p, n, TRUE)]
      /\ pub' = Handled(w)
      /\ UNCHANGED <<sent, used>>
  BY DEF MarkPublished
<1> HIDE DEF m, p
<1>5. n \in Nat \ {0}
  BY <1>3 DEF Row
<1>6. row \in Row /\ row.status # "absent" /\ row.payload \in Versions
  BY <1>3, <1>5 DEF Published, Row, Status
<1> HIDE DEF n, row
<1>7. raw' \in [Products -> [hash : Versions \cup {None}, state : Status \cup {"absent"}]]
  BY <1>2, <1>4 DEF TypeOK, Status
<1>8. attempts' \in [Products -> SUBSET [number : Nat \ {0}, success : BOOLEAN]]
  BY <1>2, <1>4, <1>5, LoggedOK
<1>9. pub' \in [Publishers -> Publisher] /\ \A v \in Publishers : PubOK(pub'[v])
  BY <1>1, <1>4, HandledOK
<1> QED
  BY <1>2, <1>4, <1>6, <1>7, <1>8, <1>9, RowStepTypeOK

LEMMA MarkFailedTypeOK ==
    ASSUME TypeOK, NEW w \in Publishers, MarkFailed(w)
    PROVE  TypeOK'
<1> DEFINE p == Head(pub[w].todo).product
           n == outbox[p].retry + 1
           again == pub[w].pc # "fatal" /\ TriesLeft(n)
           status == IF again THEN "retryable" ELSE "failed"
           row == [outbox[p] EXCEPT !.status = status, !.retry = n,
                                    !.due = ~again, !.lease = "none"]
<1>1. pub[w].pc \notin {"idle", "connecting"}
  BY DEF MarkFailed
<1>2. p \in Persisted /\ p \in Products
  BY <1>1, HeadOfTodo DEF Persisted
<1>3. outbox[p] \in Row /\ outbox[p].payload \in Versions
  BY <1>2 DEF TypeOK
<1>4. /\ outbox' = [outbox EXCEPT ![p] = row]
      /\ raw' = [raw EXCEPT ![p].state = status]
      /\ attempts' = [attempts EXCEPT ![p] = Logged(p, n, FALSE)]
      /\ pub' = Handled(w)
      /\ UNCHANGED <<sent, used>>
  BY DEF MarkFailed
<1>5. again \in BOOLEAN /\ status \in {"retryable", "failed"}
  OBVIOUS
<1> HIDE DEF p, again, status
<1>6. n \in Nat \ {0}
  BY <1>3 DEF Row
<1>7. row \in Row /\ row.status # "absent" /\ row.payload \in Versions
  BY <1>3, <1>5, <1>6 DEF Row, Status
<1> HIDE DEF n, row
<1>8. raw' \in [Products -> [hash : Versions \cup {None}, state : Status \cup {"absent"}]]
  BY <1>2, <1>4, <1>5 DEF TypeOK, Status
<1>9. attempts' \in [Products -> SUBSET [number : Nat \ {0}, success : BOOLEAN]]
  BY <1>2, <1>4, <1>6, LoggedOK
<1>10. pub' \in [Publishers -> Publisher] /\ \A v \in Publishers : PubOK(pub'[v])
  BY <1>1, <1>4, HandledOK
<1> QED
  BY <1>2, <1>4, <1>7, <1>8, <1>9, <1>10, RowStepTypeOK

LEMMA TimerTypeOK ==
    ASSUME TypeOK, NEW p \in Products, LeaseExpires(p) \/ BackoffEnds(p)
    PROVE  TypeOK'
<1>1. outbox[p] \in Row
  BY DEF TypeOK
<1>2. PICK row \in {[outbox[p] EXCEPT !.lease = "expired"], [outbox[p] EXCEPT !.due = TRUE]} :
        outbox' = [outbox EXCEPT ![p] = row]
  BY DEF LeaseExpires, BackoffEnds, TypeOK
<1>3. row \in Row /\ row.status = outbox[p].status /\ row.payload = outbox[p].payload
  BY <1>1, <1>2 DEF Row
<1>4. UNCHANGED <<raw, attempts, pub, sent, used>>
  BY DEF LeaseExpires, BackoffEnds
<1>5. outbox' \in [Products -> Row] /\ Persisted' = Persisted
  BY <1>2, <1>3 DEF TypeOK, Persisted
<1>6. \A q \in Persisted' : outbox'[q].payload \in Versions
  BY <1>2, <1>3, <1>5 DEF TypeOK, Persisted
<1> QED
  BY <1>4, <1>5, <1>6 DEF TypeOK

-----------------------------------------------------------------------------
(* The tables stay sound whichever rows a claim or a replay takes, as long *)
(* as they exist.  What is proved of these loose steps holds of every      *)
(* backend, whatever its queries select.                                   *)
LooseNext ==
    \/ \E p \in Products, v \in Versions : Persist(p, v)
    \/ \E ids \in SUBSET Persisted : Requeue(ids)
    \/ \E w \in Publishers :
         \/ Connect(w) \/ Send(w) \/ Settle(w) \/ Abandon(w)
         \/ \E ids \in SUBSET Persisted : ClaimRows(w, ids)
    \/ \E p \in Products : LeaseExpires(p) \/ BackoffEnds(p)

LooseSpec == Init /\ [][LooseNext]_vars

(* The Postgres outbox takes loose steps. *)
LEMMA NextIsLoose == [Next]_vars => [LooseNext]_vars
<1>1. ASSUME Replay
      PROVE  \E ids \in SUBSET Persisted : Requeue(ids)
  BY <1>1, OldestAreChosen DEF Replay
<1>2. ASSUME NEW w \in Publishers, Claim(w)
      PROVE  \E ids \in SUBSET Persisted : ClaimRows(w, ids)
  <2>1. Oldest(Claimable, BatchSize) \in SUBSET Persisted
    BY OldestAreChosen DEF Claimable
  <2> QED
    BY <1>2, <2>1 DEF Claim
<1> QED
  BY <1>1, <1>2 DEF Next, LooseNext, Poll

LEMMA SpecIsLoose == Spec => LooseSpec
BY NextIsLoose, PTL DEF Spec, LooseSpec

LEMMA NextTypeOK == TypeOK /\ [LooseNext]_vars => TypeOK'
<1> SUFFICES ASSUME TypeOK, [LooseNext]_vars
             PROVE  TypeOK'
  OBVIOUS
<1>1. CASE \E p \in Products, v \in Versions : Persist(p, v)
  BY <1>1, PersistTypeOK
<1>2. CASE \E ids \in SUBSET Persisted : Requeue(ids)
  BY <1>2, RequeueTypeOK
<1>3. ASSUME NEW w \in Publishers, Connect(w) \/ Send(w) \/ Settle(w) \/ Abandon(w)
      PROVE  TypeOK'
  BY <1>3, ConnectTypeOK, SendTypeOK, MarkPublishedTypeOK, MarkFailedTypeOK,
     AbandonTypeOK DEF Settle
<1>4. CASE \E w \in Publishers : \E ids \in SUBSET Persisted : ClaimRows(w, ids)
  BY <1>4, ClaimTypeOK
<1>5. CASE \E p \in Products : LeaseExpires(p) \/ BackoffEnds(p)
  BY <1>5, TimerTypeOK
<1>6. CASE UNCHANGED vars
  BY <1>6 DEF vars, TypeOK, Persisted
<1> QED
  BY <1>1, <1>2, <1>3, <1>4, <1>5, <1>6 DEF LooseNext

LEMMA LooseTypeCorrect == LooseSpec => []TypeOK
BY InitTypeOK, NextTypeOK, PTL DEF LooseSpec

(* The type invariant holds in every behaviour of the Postgres outbox. *)
THEOREM TypeCorrect == Spec => []TypeOK
BY SpecIsLoose, LooseTypeCorrect
-----------------------------------------------------------------------------
(* The safety invariants.  All of them speak of one row, so the proofs     *)
(* follow the life of a row: the definitions below list the only ways in   *)
(* which a step may change it, and each invariant is checked against them. *)

(* What one step may do to the row of p. *)
Kept(p) == outbox'[p] = outbox[p] /\ raw'[p] = raw[p] /\ attempts'[p] = attempts[p]

Rewritten(p) ==
    \E v \in Versions :
        /\ outbox'[p] = FreshRow(p, v)
        /\ raw'[p] = [hash |-> v, state |-> "pending"]
        /\ attempts'[p] = attempts[p]

Requeued(p) ==
    /\ outbox'[p] = Ready(outbox[p])
    /\ raw'[p] = [raw[p] EXCEPT !.state = "pending"]
    /\ attempts'[p] = attempts[p]

Leased(p) ==
    /\ outbox'[p] = [outbox[p] EXCEPT !.status = "leased", !.lease = "live"]
    /\ raw'[p] = [raw[p] EXCEPT !.state = "leased"]
    /\ attempts'[p] = attempts[p]

Ticked(p) ==
    /\ \/ outbox[p].lease = "live" /\ outbox'[p] = [outbox[p] EXCEPT !.lease = "expired"]
       \/ outbox'[p] = [outbox[p] EXCEPT !.due = TRUE]
    /\ raw'[p] = raw[p]
    /\ attempts'[p] = attempts[p]

MarkedPublished(p) ==
    \E w \in Publishers :
        /\ pub[w].pc = "confirmed"
        /\ Head(pub[w].todo).product = p
        /\ outbox'[p] = Published(outbox[p], Head(pub[w].todo))
        /\ raw'[p] = [raw[p] EXCEPT !.state = "published"]
        /\ attempts'[p] = Logged(p, outbox[p].retry + 1, TRUE)

MarkedFailed(p) ==
    \E again \in BOOLEAN :
        /\ again => TriesLeft(outbox[p].retry + 1)
        /\ outbox'[p] = [outbox[p] EXCEPT !.status = IF again THEN "retryable" ELSE "failed",
                                          !.retry = outbox[p].retry + 1,
                                          !.due = ~again, !.lease = "none"]
        /\ raw'[p] = [raw[p] EXCEPT !.state = IF again THEN "retryable" ELSE "failed"]
        /\ attempts'[p] = Logged(p, outbox[p].retry + 1, FALSE)

RowStep(p) ==
    \/ Kept(p) \/ Rewritten(p) \/ Requeued(p) \/ Leased(p) \/ Ticked(p)
    \/ MarkedPublished(p) \/ MarkedFailed(p)

(* mark_outbox_published writes the row of its message and no other. *)
LEMMA MarkPublishedRow ==
    ASSUME TypeOK, NEW w \in Publishers, MarkPublished(w), NEW p \in Products
    PROVE  Kept(p) \/ MarkedPublished(p)
<1> DEFINE m == Head(pub[w].todo)
<1>1. /\ pub[w].pc = "confirmed"
      /\ outbox' = [outbox EXCEPT ![m.product] = Published(@, m)]
      /\ raw' = [raw EXCEPT ![m.product].state = "published"]
      /\ attempts' = [attempts EXCEPT ![m.product] =
                        Logged(m.product, outbox[m.product].retry + 1, TRUE)]
  BY DEF MarkPublished
<1>2. outbox \in [Products -> Row] /\ DOMAIN raw = Products /\ DOMAIN attempts = Products
  BY SMTT(30) DEF TypeOK
<1> HIDE DEF m
<1>3. CASE p = m.product
  <2>1. outbox'[p] = Published(outbox[p], m)
    BY <1>1, <1>2, <1>3
  <2>2. raw'[p] = [raw[p] EXCEPT !.state = "published"]
    BY <1>1, <1>2, <1>3
  <2>3. attempts'[p] = Logged(p, outbox[p].retry + 1, TRUE)
    BY <1>1, <1>2, <1>3
  <2> QED
    BY <1>1, <1>3, <2>1, <2>2, <2>3 DEF MarkedPublished, m
<1>4. CASE p # m.product
  BY <1>1, <1>2, <1>4 DEF Kept
<1> QED
  BY <1>3, <1>4

(* mark_outbox_failed likewise, with another try only if one is left. *)
LEMMA MarkFailedRow ==
    ASSUME TypeOK, NEW w \in Publishers, MarkFailed(w), NEW p \in Products
    PROVE  Kept(p) \/ MarkedFailed(p)
<1> DEFINE q == Head(pub[w].todo).product
           again == pub[w].pc # "fatal" /\ TriesLeft(outbox[q].retry + 1)
<1>1. /\ outbox' = [outbox EXCEPT ![q] =
                      [@ EXCEPT !.status = IF again THEN "retryable" ELSE "failed",
                                !.retry = outbox[q].retry + 1,
                                !.due = ~again, !.lease = "none"]]
      /\ raw' = [raw EXCEPT ![q].state = IF again THEN "retryable" ELSE "failed"]
      /\ attempts' = [attempts EXCEPT ![q] = Logged(q, outbox[q].retry + 1, FALSE)]
  BY DEF MarkFailed
<1>2. outbox \in [Products -> Row] /\ DOMAIN raw = Products /\ DOMAIN attempts = Products
  BY DEF TypeOK
<1>3. again \in BOOLEAN /\ (again => TriesLeft(outbox[q].retry + 1))
  OBVIOUS
<1> HIDE DEF q, again
<1>4. CASE p = q
  <2>1. outbox'[p] = [outbox[p] EXCEPT !.status = IF again THEN "retryable" ELSE "failed",
                                       !.retry = outbox[p].retry + 1,
                                       !.due = ~again, !.lease = "none"]
    BY <1>1, <1>2, <1>4
  <2>2. raw'[p] = [raw[p] EXCEPT !.state = IF again THEN "retryable" ELSE "failed"]
    BY <1>1, <1>2, <1>4
  <2>3. attempts'[p] = Logged(p, outbox[p].retry + 1, FALSE)
    BY <1>1, <1>2, <1>4
  <2> QED
    BY <1>3, <1>4, <2>1, <2>2, <2>3 DEF MarkedFailed
<1>5. CASE p # q
  BY <1>1, <1>2, <1>5 DEF Kept
<1> QED
  BY <1>4, <1>5

(* Every step treats every row in one of the listed ways. *)
LEMMA RowSteps ==
    ASSUME TypeOK, [LooseNext]_vars, NEW p \in Products
    PROVE  RowStep(p)
<1> USE DEF RowStep
<1>1. outbox \in [Products -> Row] /\ DOMAIN raw = Products /\ DOMAIN attempts = Products
  BY DEF TypeOK
<1>2. ASSUME NEW q \in Products, NEW v \in Versions, Persist(q, v)
      PROVE  RowStep(p)
  <2>1. CASE p = q
    BY <1>1, <1>2, <2>1 DEF Persist, Rewritten
  <2>2. CASE p # q
    BY <1>1, <1>2, <2>2 DEF Persist, Kept
  <2> QED
    BY <2>1, <2>2
<1>3. ASSUME NEW ids, ids \in SUBSET Persisted, Requeue(ids)
      PROVE  RowStep(p)
  <2>1. CASE p \in ids
    BY <1>3, <2>1 DEF Requeue, Requeued
  <2>2. CASE p \notin ids
    BY <1>3, <2>2 DEF Requeue, Kept
  <2> QED
    BY <2>1, <2>2
<1>4. ASSUME NEW w \in Publishers, NEW ids \in SUBSET Persisted, ClaimRows(w, ids)
      PROVE  RowStep(p)
  <2>1. CASE p \in ids
    BY <1>4, <2>1 DEF ClaimRows, Leased
  <2>2. CASE p \notin ids
    BY <1>4, <2>2 DEF ClaimRows, Kept
  <2> QED
    BY <2>1, <2>2
<1>5. ASSUME NEW q \in Products, LeaseExpires(q) \/ BackoffEnds(q)
      PROVE  RowStep(p)
  <2>1. CASE p = q
    BY <1>1, <1>5, <2>1 DEF LeaseExpires, BackoffEnds, Ticked
  <2>2. CASE p # q
    BY <1>1, <1>5, <2>2 DEF LeaseExpires, BackoffEnds, Kept
  <2> QED
    BY <2>1, <2>2
<1>6. CASE \E w \in Publishers : Connect(w) \/ Send(w) \/ Abandon(w)
  BY <1>6 DEF Connect, Send, Publish, Republish, Attempt, Abandon, Kept
<1>7. CASE \E w \in Publishers : Settle(w)
  BY <1>7, MarkPublishedRow, MarkFailedRow DEF Settle
<1>8. CASE UNCHANGED vars
  BY <1>8 DEF vars, Kept
<1> HIDE DEF RowStep
<1> QED
  BY <1>2, <1>3, <1>4, <1>5, <1>6, <1>7, <1>8 DEF LooseNext

-----------------------------------------------------------------------------
(* The two tables say the same of every row, whoever wrote it last. *)
LEMMA LooseTablesAgree == LooseSpec => []TablesAgree
<1>1. Init => TablesAgree
  BY DEF Init, TablesAgree, NoRaw, NoRow
<1>2. TypeOK /\ TablesAgree /\ [LooseNext]_vars => TablesAgree'
  <2> SUFFICES ASSUME TypeOK, TablesAgree, [LooseNext]_vars, NEW p \in Products
               PROVE  raw'[p] = [hash |-> outbox'[p].hash, state |-> outbox'[p].status]
    BY DEF TablesAgree
  <2>1. RowStep(p) /\ outbox[p] \in Row /\ raw[p] = [hash |-> outbox[p].hash, state |-> outbox[p].status]
    BY RowSteps DEF TypeOK, TablesAgree
  <2>2. CASE Kept(p) \/ Ticked(p)
    BY <2>1, <2>2 DEF Kept, Ticked, Row
  <2>3. CASE Rewritten(p)
    BY <2>3 DEF Rewritten, FreshRow
  <2>4. CASE MarkedPublished(p)
    BY <2>1, <2>4 DEF MarkedPublished, Published, Row
  <2>5. CASE MarkedFailed(p)
    BY <2>1, <2>5 DEF MarkedFailed, Row
  <2>6. CASE Requeued(p)
    BY <2>1, <2>6 DEF Requeued, Ready, Row
  <2>7. CASE Leased(p)
    BY <2>1, <2>7 DEF Leased, Row
  <2> QED
    BY <2>1, <2>2, <2>3, <2>4, <2>5, <2>6, <2>7 DEF RowStep
<1> QED
  BY <1>1, <1>2, LooseTypeCorrect, PTL DEF LooseSpec

(* No unsettled row gets out of every publisher's reach. *)
LEMMA LooseUnsettledIsReachable == LooseSpec => []UnsettledIsReachable
<1>1. Init => UnsettledIsReachable
  BY DEF Init, UnsettledIsReachable, NoRow
<1>2. TypeOK /\ UnsettledIsReachable /\ [LooseNext]_vars => UnsettledIsReachable'
  <2> SUFFICES ASSUME TypeOK, UnsettledIsReachable, [LooseNext]_vars, NEW p \in Products
               PROVE  /\ outbox'[p].status = "pending" => outbox'[p].due
                      /\ (outbox'[p].status = "leased") <=> (outbox'[p].lease \in {"live", "expired"})
    BY DEF UnsettledIsReachable
  <2>1. /\ RowStep(p) /\ outbox[p] \in Row
        /\ outbox[p].status = "pending" => outbox[p].due
        /\ (outbox[p].status = "leased") <=> (outbox[p].lease \in {"live", "expired"})
    BY RowSteps DEF TypeOK, UnsettledIsReachable
  <2>2. CASE Kept(p) \/ Requeued(p) \/ Leased(p) \/ Ticked(p)
    BY <2>1, <2>2 DEF Kept, Requeued, Ready, Leased, Ticked, Row
  <2>3. CASE Rewritten(p)
    BY <2>3 DEF Rewritten, FreshRow
  <2>4. CASE MarkedPublished(p)
    BY <2>1, <2>4 DEF MarkedPublished, Published, Row
  <2>5. CASE MarkedFailed(p)
    BY <2>1, <2>5 DEF MarkedFailed, Row
  <2> QED
    BY <2>1, <2>2, <2>3, <2>4, <2>5 DEF RowStep
<1> QED
  BY <1>1, <1>2, LooseTypeCorrect, PTL DEF LooseSpec

(* A row waits for another try only while it has tries left. *)
LEMMA LooseRetryableHasTriesLeft == LooseSpec => []RetryableHasTriesLeft
<1>1. Init => RetryableHasTriesLeft
  BY DEF Init, RetryableHasTriesLeft, NoRow
<1>2. TypeOK /\ RetryableHasTriesLeft /\ [LooseNext]_vars => RetryableHasTriesLeft'
  <2> SUFFICES ASSUME TypeOK, RetryableHasTriesLeft, [LooseNext]_vars, NEW p \in Products,
                      outbox'[p].status = "retryable"
               PROVE  outbox'[p].retry \in 1 .. MaxRetries - 1
    BY DEF RetryableHasTriesLeft
  <2>1. /\ RowStep(p) /\ outbox[p] \in Row
        /\ outbox[p].status = "retryable" => outbox[p].retry \in 1 .. MaxRetries - 1
    BY RowSteps DEF TypeOK, RetryableHasTriesLeft
  <2>2. CASE Kept(p) \/ Requeued(p) \/ Leased(p) \/ Ticked(p)
    BY <2>1, <2>2 DEF Kept, Requeued, Ready, Leased, Ticked, Row
  <2>3. CASE Rewritten(p)
    BY <2>3 DEF Rewritten, FreshRow
  <2>4. CASE MarkedPublished(p)
    BY <2>1, <2>4 DEF MarkedPublished, Published, Row
  <2>5. CASE MarkedFailed(p)
    BY <2>1, <2>5, OutboxAssumption DEF MarkedFailed, TriesLeft, Row
  <2> QED
    BY <2>1, <2>2, <2>3, <2>4, <2>5 DEF RowStep
<1> QED
  BY <1>1, <1>2, LooseTypeCorrect, PTL DEF LooseSpec

-----------------------------------------------------------------------------
(* What LedgerComplete says of one row and its attempts. *)
RowLedger(row, tries) ==
    /\ \A k \in 1 .. row.retry : \E a \in tries : a.number = k
    /\ \A a \in tries :
         a.number = row.retry =>
             /\ row.status = "published" => a.success
             /\ row.status \in {"retryable", "failed"} => ~a.success

(* A mark that logs attempt retry_count + 1 completes the ledger, if the   *)
(* earlier attempts are there.                                             *)
LEMMA LoggedCompletes ==
    ASSUME TypeOK, NEW p \in Products,
           \A j \in 1 .. outbox[p].retry : \E a \in attempts[p] : a.number = j,
           outbox'[p].retry = outbox[p].retry + 1,
           attempts'[p] \in {Logged(p, outbox[p].retry + 1, TRUE),
                             Logged(p, outbox[p].retry + 1, FALSE)}
    PROVE  \A k \in 1 .. outbox'[p].retry : \E a \in attempts'[p] : a.number = k
<1> DEFINE n == outbox[p].retry + 1
           log == attempts'[p]
<1>1. n - 1 \in Nat /\ n - 1 = outbox[p].retry /\ outbox'[p].retry = n
  BY DEF TypeOK, Row
<1>2. PICK new : new.number = n /\ log = {a \in attempts[p] : a.number # n} \cup {new}
  BY DEF Logged
<1>3. new \in log /\ \A a \in attempts[p] : a.number # n => a \in log
  BY <1>2
<1>4. \A j \in 1 .. n - 1 : \E a \in attempts[p] : a.number = j
  BY <1>1
<1> HIDE DEF n, log
<1> SUFFICES ASSUME NEW k \in 1 .. n
             PROVE  \E a \in log : a.number = k
  BY <1>1 DEF log
<1>5. CASE k # n
  <2>1. PICK a \in attempts[p] : a.number = k
    BY <1>1, <1>4, <1>5
  <2> QED
    BY <1>3, <1>5, <2>1
<1> QED
  BY <1>2, <1>3, <1>5

(* The attempt rows account for retry_count and for the last verdict, also *)
(* after a new scrape has set retry_count back and old numbers come again. *)
LEMMA LooseLedgerComplete == LooseSpec => []LedgerComplete
<1>1. Init => LedgerComplete
  BY DEF Init, LedgerComplete, NoRow
<1>2. TypeOK /\ LedgerComplete /\ [LooseNext]_vars => LedgerComplete'
  <2> SUFFICES ASSUME TypeOK, LedgerComplete, [LooseNext]_vars, NEW p \in Products
               PROVE  RowLedger(outbox'[p], attempts'[p])
    BY DEF LedgerComplete, RowLedger
  <2>1. RowStep(p) /\ outbox[p] \in Row /\ RowLedger(outbox[p], attempts[p])
    BY RowSteps DEF TypeOK, LedgerComplete, RowLedger
  <2>2. attempts[p] \in SUBSET [number : Nat \ {0}, success : BOOLEAN]
    BY DEF TypeOK
  <2>3. CASE Kept(p)
    BY <2>1, <2>3 DEF Kept
  <2>4. CASE Rewritten(p)
    BY <2>2, <2>4 DEF Rewritten, FreshRow, RowLedger
  <2>5. CASE Requeued(p)
    BY <2>1, <2>5 DEF Requeued, Ready, RowLedger, Row
  <2>6. CASE Leased(p)
    BY <2>1, <2>6 DEF Leased, RowLedger, Row
  <2>7. CASE Ticked(p)
    BY <2>1, <2>7 DEF Ticked, RowLedger, Row
  <2>8. \A j \in 1 .. outbox[p].retry : \E a \in attempts[p] : a.number = j
    BY <2>1 DEF RowLedger
  <2>9. CASE MarkedPublished(p)
    <3>1. outbox'[p].retry = outbox[p].retry + 1 /\ outbox'[p].status = "published"
      BY <2>1, <2>9 DEF MarkedPublished, Published, Row
    <3>2. attempts'[p] = Logged(p, outbox[p].retry + 1, TRUE)
      BY <2>9 DEF MarkedPublished
    <3>3. \A k \in 1 .. outbox'[p].retry : \E a \in attempts'[p] : a.number = k
      BY <2>8, <3>1, <3>2, LoggedCompletes
    <3>4. \A a \in attempts'[p] : a.number = outbox[p].retry + 1 => a.success
      BY <3>2 DEF Logged
    <3> QED
      BY <3>1, <3>3, <3>4 DEF RowLedger
  <2>10. CASE MarkedFailed(p)
    <3>1. outbox'[p].retry = outbox[p].retry + 1 /\ outbox'[p].status \in {"retryable", "failed"}
      BY <2>1, <2>10 DEF MarkedFailed, Row
    <3>2. attempts'[p] = Logged(p, outbox[p].retry + 1, FALSE)
      BY <2>10 DEF MarkedFailed
    <3>3. \A k \in 1 .. outbox'[p].retry : \E a \in attempts'[p] : a.number = k
      BY <2>8, <3>1, <3>2, LoggedCompletes
    <3>4. \A a \in attempts'[p] : a.number = outbox[p].retry + 1 => ~a.success
      BY <3>2 DEF Logged
    <3> QED
      BY <3>1, <3>3, <3>4 DEF RowLedger
  <2> QED
    BY <2>1, <2>3, <2>4, <2>5, <2>6, <2>7, <2>9, <2>10 DEF RowStep
<1> QED
  BY <1>1, <1>2, LooseTypeCorrect, PTL DEF LooseSpec

-----------------------------------------------------------------------------
(* A publisher about to mark its message as published has had it accepted. *)
(* Without this PublishedWasSent is not inductive: the mark believes the   *)
(* publisher, not the row.                                                 *)
ConfirmedWasSent ==
    \A w \in Publishers :
        pub[w].pc = "confirmed" =>
            Head(pub[w].todo).payload \in sent[Head(pub[w].todo).product]

(* RabbitMQ does not give back what it has accepted. *)
LEMMA SentGrows ==
    ASSUME TypeOK, [LooseNext]_vars, NEW p \in Products
    PROVE  sent[p] \subseteq sent'[p]
<1> USE DEF TypeOK
<1>1. ASSUME NEW w \in Publishers, Send(w)
      PROVE  sent[p] \subseteq sent'[p]
  <2> DEFINE m == Head(pub[w].todo)
  <2>1. sent' \in {sent, Accepted(m)}
    BY <1>1 DEF Send, Publish, Republish, Attempt
  <2> HIDE DEF m
  <2> QED
    BY <2>1 DEF Accepted
<1>2. CASE sent' = sent
  BY <1>2
<1> QED
  BY <1>1, <1>2
  DEF LooseNext, vars, Persist, Requeue, Connect, ClaimRows, Settle, MarkPublished, MarkFailed,
      Abandon, LeaseExpires, BackoffEnds

LEMMA NextConfirmedWasSent ==
    TypeOK /\ ConfirmedWasSent /\ [LooseNext]_vars => ConfirmedWasSent'
<1> SUFFICES ASSUME TypeOK, ConfirmedWasSent, [LooseNext]_vars,
                    NEW w \in Publishers, pub'[w].pc = "confirmed"
             PROVE  Head(pub'[w].todo).payload \in sent'[Head(pub'[w].todo).product]
  BY DEF ConfirmedWasSent
<1>1. pub \in [Publishers -> Publisher]
  BY DEF TypeOK
<1>2. CASE pub'[w] = pub[w]
  <2>1. Head(pub[w].todo).product \in Products
    BY <1>2, HeadOfTodo DEF Persisted
  <2> QED
    BY <1>2, <2>1, SentGrows DEF ConfirmedWasSent
<1>3. CASE Send(w)
  <2> DEFINE m == Head(pub[w].todo)
  <2>1. m \in Message
    BY <1>3, HeadOfTodo DEF Send, Publish, Republish, Attempt
  <2>2. pub'[w].todo = pub[w].todo /\ sent' = Accepted(m)
    BY <1>1, <1>3 DEF Send, Publish, Republish, Attempt, Publisher
  <2> HIDE DEF m
  <2>3. m.payload \in sent'[m.product]
    BY <2>1, <2>2 DEF Accepted, Message, TypeOK
  <2> QED
    BY <2>2, <2>3 DEF m
<1>4. Connect(w) => pub'[w].pc = "connecting"
  BY <1>1 DEF Connect, Publisher
<1>5. Settle(w) \/ Abandon(w) => pub'[w].pc \in {"idle", "publish", "reconnect"}
  <2>1. Handled(w)[w].pc \in {"idle", "publish", "reconnect"}
    BY <1>1, SMTT(30) DEF Handled
  <2>2. Settle(w) => pub' = Handled(w)
    BY DEF Settle, MarkPublished, MarkFailed
  <2>3. Abandon(w) => pub'[w].pc = "idle"
    BY <1>1 DEF Abandon, Idle
  <2> QED
    BY <2>1, <2>2, <2>3
<1>6. ASSUME NEW ids, ClaimRows(w, ids)
      PROVE  pub'[w].pc \in {"idle", "publish"}
  <2>1. PICK b \in InOrder(ids) :
          pub' = [pub EXCEPT ![w] =
                    [pc   |-> IF ids = {} THEN "idle" ELSE "publish",
                     todo |-> [i \in DOMAIN b |->
                                 [product |-> b[i], payload |-> outbox[b[i]].payload]]]]
    BY <1>6 DEF ClaimRows
  <2> DEFINE todo == [i \in DOMAIN b |-> [product |-> b[i], payload |-> outbox[b[i]].payload]]
  <2> HIDE DEF todo
  <2>2. pub' = [pub EXCEPT ![w] = [pc |-> IF ids = {} THEN "idle" ELSE "publish", todo |-> todo]]
    BY <2>1, SMTT(30) DEF todo
  <2> QED
    BY <1>1, <2>2
<1>7. ASSUME NEW v \in Publishers, v # w,
             \/ Connect(v) \/ Send(v) \/ Settle(v) \/ Abandon(v)
             \/ \E ids \in SUBSET Persisted : ClaimRows(v, ids)
      PROVE  pub'[w] = pub[w]
  BY <1>1, <1>7 DEF Connect, ClaimRows, Send, Publish, Republish, Attempt, Settle,
     MarkPublished, MarkFailed, Handled, Abandon
<1>8. CASE \/ \E p \in Products, v \in Versions : Persist(p, v)
           \/ \E ids \in SUBSET Persisted : Requeue(ids)
           \/ \E p \in Products : LeaseExpires(p) \/ BackoffEnds(p)
           \/ UNCHANGED vars
  <2>1. pub' = pub
    BY <1>8 DEF Persist, Requeue, LeaseExpires, BackoffEnds, vars
  <2> QED
    BY <1>2, <2>1
<1> QED
  BY <1>2, <1>3, <1>4, <1>5, <1>6, <1>7, <1>8 DEF LooseNext

(* What the tables call published was accepted by RabbitMQ, with the       *)
(* payload they show.                                                      *)
LEMMA LoosePublishedWasSent == LooseSpec => []PublishedWasSent
<1> DEFINE IInv == ConfirmedWasSent /\ PublishedWasSent
<1>1. Init => IInv
  BY DEF Init, ConfirmedWasSent, PublishedWasSent, NoRow, Idle
<1>2. TypeOK /\ IInv /\ [LooseNext]_vars => IInv'
  <2> SUFFICES ASSUME TypeOK, IInv, [LooseNext]_vars, NEW p \in Products,
                      outbox'[p].status = "published"
               PROVE  outbox'[p].payload \in sent'[p]
    BY NextConfirmedWasSent DEF PublishedWasSent
  <2>1. /\ RowStep(p) /\ outbox[p] \in Row /\ sent[p] \subseteq sent'[p]
        /\ outbox[p].status = "published" => outbox[p].payload \in sent[p]
    BY RowSteps, SentGrows DEF TypeOK, PublishedWasSent
  <2>2. CASE Kept(p) \/ Requeued(p) \/ Leased(p) \/ Ticked(p)
    BY <2>1, <2>2 DEF Kept, Requeued, Ready, Leased, Ticked, Row
  <2>3. CASE Rewritten(p)
    BY <2>3 DEF Rewritten, FreshRow
  <2>4. CASE MarkedPublished(p)
    <3>1. PICK w \in Publishers :
            /\ pub[w].pc = "confirmed"
            /\ Head(pub[w].todo).product = p
            /\ outbox'[p] = Published(outbox[p], Head(pub[w].todo))
      BY <2>4 DEF MarkedPublished
    <3>2. Head(pub[w].todo).payload \in sent[p]
      BY <3>1 DEF ConfirmedWasSent
    <3> QED
      BY <2>1, <3>1, <3>2 DEF Published, Row
  <2>5. CASE MarkedFailed(p)
    BY <2>1, <2>5 DEF MarkedFailed, Row
  <2> QED
    BY <2>1, <2>2, <2>3, <2>4, <2>5 DEF RowStep
<1>3. IInv => PublishedWasSent
  OBVIOUS
<1> QED
  BY <1>1, <1>2, <1>3, LooseTypeCorrect, PTL DEF LooseSpec

-----------------------------------------------------------------------------
(* raw_products and publication_outbox say the same of every product after *)
(* every transaction of the Postgres store.                                *)
THEOREM TablesAlwaysAgree == Spec => []TablesAgree
BY SpecIsLoose, LooseTablesAgree

(* No unsettled row of the Postgres outbox gets out of reach. *)
THEOREM UnsettledAlwaysReachable == Spec => []UnsettledIsReachable
BY SpecIsLoose, LooseUnsettledIsReachable

(* mark_outbox_failed leaves a row retryable only below the limit. *)
THEOREM RetryableAlwaysHasTriesLeft == Spec => []RetryableHasTriesLeft
BY SpecIsLoose, LooseRetryableHasTriesLeft

(* The attempt rows account for retry_count and the last verdict. *)
THEOREM LedgerAlwaysComplete == Spec => []LedgerComplete
BY SpecIsLoose, LooseLedgerComplete

(* What the tables call published was accepted by RabbitMQ. *)
THEOREM PublishedAlwaysWasSent == Spec => []PublishedWasSent
BY SpecIsLoose, LoosePublishedWasSent

-----------------------------------------------------------------------------
(* The promise of module Delivery, with one publisher at work. *)
OnePublisher == \A v, w \in Publishers : v = w

(* What the publisher holds is in nobody else's hands: each of its         *)
(* messages is about another row, which is leased, or pending again        *)
(* because it was scraped or replayed meanwhile.                           *)
Awaited ==
    \A w \in Publishers :
        /\ pub[w].pc \in {"idle", "connecting"} => pub[w].todo = <<>>
        /\ \A i \in DOMAIN pub[w].todo :
             outbox[pub[w].todo[i].product].status \in {"pending", "leased"}
        /\ \A i, j \in DOMAIN pub[w].todo :
             pub[w].todo[i].product = pub[w].todo[j].product => i = j

LEMMA InitAwaited == Init => Awaited
BY DEF Init, Awaited, Idle

(* A step that leaves the batch alone, or drops it, and takes no row out   *)
(* of the publisher's hands.                                               *)
LEMMA QuietStepAwaited ==
    ASSUME TypeOK, Awaited, NEW w \in Publishers, OnePublisher,
           \/ /\ pub'[w].todo = pub[w].todo
              /\ pub'[w].pc \in {"idle", "connecting"} => pub[w].pc \in {"idle", "connecting"}
           \/ pub'[w].todo = <<>>,
           \A p \in Persisted :
             outbox[p].status \in {"pending", "leased"} => outbox'[p].status \in {"pending", "leased"}
    PROVE  Awaited'
<1>1. \A i \in DOMAIN pub[w].todo : pub[w].todo[i].product \in Persisted
  BY DEF TypeOK
<1>2. \A u \in Publishers : u = w
  BY DEF OnePublisher
<1> QED
  BY <1>1, <1>2 DEF Awaited

LEMMA ClaimAwaited ==
    ASSUME TypeOK, Awaited, NEW w \in Publishers, OnePublisher, Claim(w)
    PROVE  Awaited'
<1> DEFINE ids == Oldest(Claimable, BatchSize)
<1>1. ids \subseteq Products
  BY OldestAreChosen DEF Claimable, Persisted
<1>2. PICK b \in InOrder(ids) :
        pub' = [pub EXCEPT ![w] =
                  [pc   |-> IF ids = {} THEN "idle" ELSE "publish",
                   todo |-> [i \in DOMAIN b |->
                               [product |-> b[i], payload |-> outbox[b[i]].payload]]]]
  BY DEF Claim, ClaimRows
<1>a. outbox' = [p \in Products |->
                   IF p \in ids THEN [outbox[p] EXCEPT !.status = "leased", !.lease = "live"]
                   ELSE outbox[p]]
  BY DEF Claim, ClaimRows
<1> HIDE DEF ids
<1>3. \A p \in ids : outbox'[p].status = "leased"
  <2> TAKE p \in ids
  <2>1. outbox[p] \in Row
    BY <1>1 DEF TypeOK
  <2>2. outbox'[p] = [outbox[p] EXCEPT !.status = "leased", !.lease = "live"]
    BY <1>1, <1>a
  <2> QED
    BY <2>1, <2>2 DEF Row
<1>4. IsFiniteSet(ids) /\ Cardinality(ids) \in Nat
  BY <1>1, SubsetsAreFinite
<1>5. /\ b \in [1 .. Cardinality(ids) -> ids]
      /\ \A i, j \in DOMAIN b : i < j => outbox[b[i]].born < outbox[b[j]].born
  BY DEF InOrder
<1>6. \A i, j \in DOMAIN b : b[i] = b[j] => i = j
  <2> SUFFICES ASSUME NEW i \in DOMAIN b, NEW j \in DOMAIN b, b[i] = b[j], i # j
               PROVE  FALSE
    OBVIOUS
  <2>1. i \in Nat /\ j \in Nat /\ (i < j \/ j < i)
    BY <1>4, <1>5
  <2>2. outbox[b[i]].born \in Nat
    BY <1>1, <1>5 DEF TypeOK, Row
  <2> QED
    BY <1>5, <2>1, <2>2
<1> DEFINE todo == [i \in DOMAIN b |-> [product |-> b[i], payload |-> outbox[b[i]].payload]]
<1>7. pub'[w].todo = todo /\ pub'[w].pc = IF ids = {} THEN "idle" ELSE "publish"
  BY <1>2 DEF TypeOK
<1>8. ids = {} => todo = <<>>
  <2> SUFFICES ASSUME ids = {}
               PROVE  todo = <<>>
    OBVIOUS
  <2>1. Cardinality(ids) = 0
    BY FS_EmptySet
  <2>2. DOMAIN b = {}
    BY <1>5, <2>1
  <2> QED
    BY <2>2
<1>9. DOMAIN todo = DOMAIN b /\ \A i \in DOMAIN b : todo[i].product = b[i] /\ b[i] \in ids
  BY <1>5
<1>10. \A u \in Publishers : u = w
  BY DEF OnePublisher
<1> HIDE DEF todo
<1> QED
  BY <1>3, <1>6, <1>7, <1>8, <1>9, <1>10 DEF Awaited

LEMMA SettleAwaited ==
    ASSUME TypeOK, Awaited, NEW w \in Publishers, OnePublisher, Settle(w)
    PROVE  Awaited'
<1> DEFINE todo == pub[w].todo
           rest == Tail(todo)
           p == Head(todo).product
<1>1. pub[w].pc \notin {"idle", "connecting"}
  BY DEF Settle, MarkPublished, MarkFailed
<1>2. todo \in Seq(Message) /\ todo # <<>>
  BY <1>1, TypeOKOfPub, SMTT(30) DEF PubOK, Publisher
<1>3. pub' = Handled(w) /\ \A q \in Products \ {p} : outbox'[q] = outbox[q]
  BY DEF Settle, MarkPublished, MarkFailed, TypeOK
<1>4. pub'[w].todo = rest /\ (pub'[w].pc \in {"idle", "connecting"} => rest = <<>>)
  BY <1>3 DEF Handled, TypeOK
<1> HIDE DEF todo
<1>5. /\ Len(todo) \in Nat \ {0} /\ DOMAIN todo = 1 .. Len(todo) /\ Head(todo) = todo[1]
      /\ rest \in Seq(Message) /\ Len(rest) = Len(todo) - 1
      /\ \A i \in 1 .. Len(rest) : rest[i] = todo[i + 1]
  BY <1>2, HeadTailProperties
<1> HIDE DEF rest
<1>6. \A i \in DOMAIN rest : i \in Nat /\ i + 1 \in DOMAIN todo /\ i + 1 # 1 /\ rest[i] = todo[i + 1]
  BY <1>5
<1>7. \A i, j \in DOMAIN todo : todo[i].product = todo[j].product => i = j
  BY DEF Awaited, todo
<1>8. \A i \in DOMAIN todo :
        /\ todo[i].product \in Products
        /\ outbox[todo[i].product].status \in {"pending", "leased"}
  BY DEF Awaited, TypeOK, Persisted, todo
<1>9. \A i \in DOMAIN rest : outbox'[rest[i].product].status \in {"pending", "leased"}
  <2> SUFFICES ASSUME NEW i \in DOMAIN rest
               PROVE  outbox'[rest[i].product].status \in {"pending", "leased"}
    OBVIOUS
  <2>1. i + 1 \in DOMAIN todo /\ 1 \in DOMAIN todo /\ i + 1 # 1 /\ rest[i] = todo[i + 1]
    BY <1>5, <1>6
  <2>2. rest[i].product \in Products \ {p}
    BY <1>5, <1>7, <1>8, <2>1
  <2> QED
    BY <1>3, <1>8, <2>1, <2>2
<1>10. \A i, j \in DOMAIN rest : rest[i].product = rest[j].product => i = j
  <2> SUFFICES ASSUME NEW i \in DOMAIN rest, NEW j \in DOMAIN rest, rest[i].product = rest[j].product
               PROVE  i = j
    OBVIOUS
  <2>1. i + 1 = j + 1 /\ i \in Nat /\ j \in Nat
    BY <1>6, <1>7
  <2> QED
    BY <2>1
<1>11. \A u \in Publishers : u = w
  BY DEF OnePublisher
<1> QED
  BY <1>4, <1>9, <1>10, <1>11, SMTT(30) DEF Awaited

LEMMA NextAwaited == OnePublisher /\ TypeOK /\ Awaited /\ [Next]_vars => Awaited'
<1> SUFFICES ASSUME OnePublisher, TypeOK, Awaited, [Next]_vars
             PROVE  Awaited'
  OBVIOUS
<1>1. ASSUME UNCHANGED pub,
             \A p \in Persisted :
               outbox[p].status \in {"pending", "leased"} => outbox'[p].status \in {"pending", "leased"}
      PROVE  Awaited'
  <2>1. CASE Publishers = {}
    BY <2>1 DEF Awaited
  <2>2. CASE \E w \in Publishers : TRUE
    BY <1>1, <2>2, QuietStepAwaited
  <2> QED
    BY <2>1, <2>2
<1>2. ASSUME NEW p \in Products, NEW v \in Versions, Persist(p, v)
      PROVE  Awaited'
  <2>1. UNCHANGED pub /\ \A q \in Products : outbox'[q] = IF q = p THEN FreshRow(p, v) ELSE outbox[q]
    BY <1>2 DEF Persist, TypeOK
  <2>2. FreshRow(p, v).status = "pending"
    BY DEF FreshRow
  <2> QED
    BY <1>1, <2>1, <2>2 DEF Persisted
<1>3. ASSUME NEW ids \in SUBSET Persisted, Requeue(ids)
      PROVE  Awaited'
  <2>1. UNCHANGED pub /\ \A q \in Products : outbox'[q] = IF q \in ids THEN Ready(outbox[q]) ELSE outbox[q]
    BY <1>3 DEF Requeue
  <2>2. \A q \in Products : Ready(outbox[q]).status = "pending"
    BY DEF Ready, TypeOK, Row
  <2> QED
    BY <1>1, <2>1, <2>2 DEF Persisted
<1>4. ASSUME NEW p \in Products, LeaseExpires(p) \/ BackoffEnds(p)
      PROVE  Awaited'
  <2>1. outbox[p] \in Row /\ outbox \in [Products -> Row]
    BY DEF TypeOK
  <2>2. PICK row \in {[outbox[p] EXCEPT !.lease = "expired"], [outbox[p] EXCEPT !.due = TRUE]} :
          outbox' = [outbox EXCEPT ![p] = row]
    BY <1>4 DEF LeaseExpires, BackoffEnds, TypeOK
  <2>3. row.status = outbox[p].status
    BY <2>1, <2>2 DEF Row
  <2>4. UNCHANGED pub
    BY <1>4 DEF LeaseExpires, BackoffEnds
  <2> QED
    BY <1>1, <2>1, <2>2, <2>3, <2>4 DEF Persisted
<1>5. ASSUME NEW w \in Publishers, Poll(w)
      PROVE  Awaited'
  <2>1. pub'[w].todo = pub[w].todo /\ pub[w].pc = "idle" /\ UNCHANGED outbox
    BY <1>5 DEF Poll, Connect, TypeOK, Publisher
  <2> QED
    BY <2>1, QuietStepAwaited
<1>6. ASSUME NEW w \in Publishers, Send(w)
      PROVE  Awaited'
  <2>1. PICK pc \in {"republish", "confirmed", "retryable", "disconnected", "fatal"} :
          pub' = [pub EXCEPT ![w].pc = pc]
    BY <1>6 DEF Send, Publish, Republish, Attempt
  <2>2. pub'[w].todo = pub[w].todo /\ pub'[w].pc = pc
    BY <2>1 DEF TypeOK, Publisher
  <2>3. UNCHANGED outbox
    BY <1>6 DEF Send, Publish, Republish
  <2> QED
    BY <2>1, <2>2, <2>3, QuietStepAwaited
<1>7. ASSUME NEW w \in Publishers, Abandon(w)
      PROVE  Awaited'
  <2>1. pub'[w].todo = <<>> /\ UNCHANGED outbox
    BY <1>7 DEF Abandon, Idle, TypeOK
  <2> QED
    BY <2>1, QuietStepAwaited
<1>8. CASE UNCHANGED vars
  BY <1>1, <1>8 DEF vars
<1>9. Replay => \E ids \in SUBSET Persisted : Requeue(ids)
  BY OldestAreChosen DEF Replay
<1> QED
  BY <1>2, <1>3, <1>4, <1>5, <1>6, <1>7, <1>8, <1>9, ClaimAwaited, SettleAwaited DEF Next

(* Every step of the outbox is one of Delivery, or changes nothing there. *)
LEMMA InitRefines == Init => D!Init
<1> SUFFICES ASSUME Init
             PROVE  D!Init
  OBVIOUS
<1>1. \A p \in Products : outbox[p].status = "absent"
  BY DEF Init, NoRow
<1>2. used.scrapes + used.replays = 0 /\ sent = [p \in Products |-> {}]
  BY DEF Init
<1> QED
  BY <1>1, <1>2 DEF D!Init

LEMMA PersistRefines ==
    ASSUME TypeOK, NEW p \in Products, NEW v \in Versions, Persist(p, v)
    PROVE  D!Order({p})
<1>1. /\ outbox' = [outbox EXCEPT ![p] = FreshRow(p, v)]
      /\ outbox \in [Products -> Row]
      /\ sent' = sent
  BY DEF Persist, TypeOK
<1>2. FreshRow(p, v).status = "pending"
  BY DEF FreshRow
<1>3. used'.scrapes + used'.replays = used.scrapes + used.replays + 1
  BY DEF Persist, TypeOK
<1> QED
  BY <1>1, <1>2, <1>3 DEF D!Order

LEMMA RequeueRefines ==
    ASSUME TypeOK, NEW ids \in SUBSET Persisted, Requeue(ids)
    PROVE  D!Order(ids) /\ ids \in (SUBSET Products) \ {{}}
<1>1. ids \subseteq Products /\ ids # {} /\ sent' = sent
  BY DEF Requeue, Persisted
<1>2. used'.scrapes + used'.replays = used.scrapes + used.replays + 1
  BY DEF Requeue, TypeOK
<1>3. \A p \in Products : outbox'[p] = IF p \in ids THEN Ready(outbox[p]) ELSE outbox[p]
  BY DEF Requeue
<1>4. \A p \in Products : Ready(outbox[p]).status = "pending"
  BY DEF Ready, TypeOK, Row
<1>5. /\ \A p \in ids : outbox'[p].status = "pending"
      /\ \A p \in Products \ ids : outbox'[p] = outbox[p]
  BY <1>1, <1>3, <1>4
<1>6. D!Order(ids)
  BY <1>1, <1>2, <1>5 DEF D!Order
<1> QED
  BY <1>1, <1>6

LEMMA ClaimStutters ==
    ASSUME TypeOK, NEW w \in Publishers, Claim(w)
    PROVE  UNCHANGED D!vars
<1> DEFINE ids == Oldest(Claimable, BatchSize)
<1>1. \A p \in Products : outbox'[p] = IF p \in ids
                                      THEN [outbox[p] EXCEPT !.status = "leased", !.lease = "live"]
                                      ELSE outbox[p]
  BY DEF Claim, ClaimRows
<1>2. \A p \in ids : outbox[p].status \in {"pending", "retryable", "leased"}
  BY OldestAreChosen DEF Claimable
<1>3. sent' = sent /\ used' = used /\ outbox \in [Products -> Row]
  BY DEF Claim, ClaimRows, TypeOK
<1> HIDE DEF ids
<1>4. \A p \in Products : \/ outbox'[p] = outbox[p]
                          \/ /\ outbox'[p].status = "leased"
                             /\ outbox[p].status \in {"pending", "retryable", "leased"}
  BY <1>1, <1>2, <1>3 DEF Row
<1> QED
  BY <1>3, <1>4 DEF D!vars

(* The broker takes a message only while its row is open. *)
LEMMA SendRefines ==
    ASSUME TypeOK, Awaited, NEW w \in Publishers, Send(w)
    PROVE  \/ \E p \in Products, v \in Versions : D!Accept(p, v)
           \/ UNCHANGED D!vars
<1> DEFINE m == Head(pub[w].todo)
<1>1. pub[w].pc \notin {"idle", "connecting"}
  BY DEF Send, Publish, Republish
<1>2. m \in Message /\ m.product \in Products /\ m.payload \in Versions
  BY <1>1, HeadOfTodo DEF Message
<1>3. 1 \in DOMAIN pub[w].todo /\ m = pub[w].todo[1]
  BY <1>1 DEF TypeOK, Publisher
<1>4. outbox[m.product].status \in {"pending", "leased"}
  BY <1>3 DEF Awaited
<1>5. sent' \in {sent, Accepted(m)} /\ outbox' = outbox /\ used' = used
  BY DEF Send, Publish, Republish, Attempt
<1> HIDE DEF m
<1>6. CASE sent' = sent
  BY <1>5, <1>6 DEF D!vars
<1>7. CASE sent' = Accepted(m)
  <2>1. D!Accept(m.product, m.payload)
    BY <1>2, <1>4, <1>5, <1>7 DEF D!Accept, Accepted
  <2> QED
    BY <1>2, <2>1
<1> QED
  BY <1>5, <1>6, <1>7

(* A mark answers the order of its message, or keeps it open. *)
LEMMA SettleRefines ==
    ASSUME TypeOK, ConfirmedWasSent, Awaited, NEW w \in Publishers, Settle(w)
    PROVE  \/ \E p \in Products : D!Conclude(p)
           \/ UNCHANGED D!vars
<1> DEFINE m == Head(pub[w].todo)
<1>1. pub[w].pc \notin {"idle", "connecting"}
  BY DEF Settle, MarkPublished, MarkFailed
<1>2. m \in Message
  BY <1>1, HeadOfTodo
<1> PICK q \in Products : q = m.product
  BY <1>2 DEF Message
<1>3. 1 \in DOMAIN pub[w].todo /\ m = pub[w].todo[1]
  BY <1>1 DEF TypeOK, Publisher
<1>4. outbox[q].status \in {"pending", "leased"} /\ outbox[q] \in Row /\ outbox \in [Products -> Row]
  BY <1>2, <1>3, SMTT(30) DEF Awaited, TypeOK
<1>5. sent' = sent /\ used' = used
  BY DEF Settle, MarkPublished, MarkFailed
<1>6. CASE MarkPublished(w)
  <2>1. outbox' = [outbox EXCEPT ![q] = Published(outbox[q], m)] /\ m.payload \in sent[q]
    BY <1>6 DEF MarkPublished, ConfirmedWasSent
  <2>2. Published(outbox[q], m).status = "published" /\ Published(outbox[q], m).payload = m.payload
    BY <1>4 DEF Published, Row
  <2> HIDE DEF m
  <2>3. D!Conclude(q)
    BY <1>2, <1>4, <1>5, <2>1, <2>2 DEF D!Conclude
  <2> QED
    BY <1>2, <2>3
<1>7. CASE MarkFailed(w)
  <2> DEFINE again == pub[w].pc # "fatal" /\ TriesLeft(outbox[q].retry + 1)
             row == [outbox[q] EXCEPT !.status = IF again THEN "retryable" ELSE "failed",
                                      !.retry = outbox[q].retry + 1,
                                      !.due = ~again, !.lease = "none"]
  <2>1. outbox' = [outbox EXCEPT ![q] = row] /\ row.status \in {"retryable", "failed"}
    BY <1>4, <1>7 DEF MarkFailed, Row
  <2> HIDE DEF m, row
  <2>2. CASE row.status = "retryable"
    BY <1>2, <1>4, <1>5, <2>1, <2>2 DEF D!vars
  <2>3. CASE row.status = "failed"
    <3>1. D!Conclude(q)
      BY <1>2, <1>4, <1>5, <2>1, <2>3 DEF D!Conclude
    <3> QED
      BY <1>2, <3>1
  <2> QED
    BY <2>1, <2>2, <2>3
<1> QED
  BY <1>6, <1>7, SMTT(30) DEF Settle

LEMMA NextRefines ==
    OnePublisher /\ TypeOK /\ ConfirmedWasSent /\ Awaited /\ [Next]_vars => [D!Next]_(D!vars)
<1> SUFFICES ASSUME OnePublisher, TypeOK, ConfirmedWasSent, Awaited, [Next]_vars
             PROVE  D!Next \/ UNCHANGED D!vars
  OBVIOUS
<1>1. ASSUME NEW p \in Products, NEW v \in Versions, Persist(p, v)
      PROVE  D!Next
  <2>1. p \in {p} /\ {p} \subseteq Products
    OBVIOUS
  <2> QED
    BY <1>1, <2>1, PersistRefines DEF D!Next
<1>2. ASSUME Replay
      PROVE  D!Next
  <2>1. \E ids \in SUBSET Persisted : Requeue(ids)
    BY <1>2, OldestAreChosen DEF Replay
  <2> QED
    BY <2>1, RequeueRefines DEF D!Next
<1>3. ASSUME NEW p \in Products, LeaseExpires(p) \/ BackoffEnds(p)
      PROVE  UNCHANGED D!vars
  <2>1. outbox[p] \in Row /\ outbox \in [Products -> Row]
    BY DEF TypeOK
  <2>2. PICK row \in {[outbox[p] EXCEPT !.lease = "expired"], [outbox[p] EXCEPT !.due = TRUE]} :
          outbox' = [outbox EXCEPT ![p] = row]
    BY <1>3 DEF LeaseExpires, BackoffEnds, TypeOK
  <2>3. row.status = outbox[p].status /\ row.payload = outbox[p].payload
    BY <2>1, <2>2 DEF Row
  <2>4. sent' = sent /\ used' = used
    BY <1>3 DEF LeaseExpires, BackoffEnds
  <2> QED
    BY <2>1, <2>2, <2>3, <2>4 DEF D!vars
<1>4. ASSUME NEW w \in Publishers, Poll(w) \/ Abandon(w)
      PROVE  UNCHANGED D!vars
  <2>1. outbox' = outbox /\ sent' = sent
    BY <1>4 DEF Poll, Connect, Abandon
  <2>2. used'.scrapes = used.scrapes /\ used'.replays = used.replays
    BY <1>4 DEF Poll, Connect, Abandon, TypeOK
  <2> QED
    BY <2>1, <2>2 DEF D!vars
<1>5. CASE UNCHANGED vars
  BY <1>5 DEF vars, D!vars
<1> QED
  BY <1>1, <1>2, <1>3, <1>4, <1>5, ClaimStutters, SendRefines, SettleRefines DEF Next, D!Next

(* With one publisher the outbox does nothing that Delivery does not       *)
(* allow: what the tables say of a product is changed by orders and by     *)
(* answers only, and an answer stands until the next order.                *)
THEOREM OnePublisherKeepsPromise == OnePublisher => (Spec => D!Spec)
<1> SUFFICES ASSUME OnePublisher
             PROVE  Spec => D!Spec
  OBVIOUS
<1> DEFINE IInv == TypeOK /\ ConfirmedWasSent /\ Awaited
<1>1. Init => IInv
  BY InitTypeOK, InitAwaited DEF Init, ConfirmedWasSent, Idle
<1>2. IInv /\ [Next]_vars => IInv'
  BY NextTypeOK, NextIsLoose, NextConfirmedWasSent, NextAwaited
<1>3. IInv /\ [Next]_vars => [D!Next]_(D!vars)
  BY NextRefines
<1> QED
  BY <1>1, <1>2, <1>3, InitRefines, PTL DEF Spec, D!Spec

-----------------------------------------------------------------------------
(* The SQLite outbox takes loose steps, so its tables are as sound as the  *)
(* Postgres ones; and because it never takes over a lease, no two          *)
(* publishers send the same row.                                           *)

LEMMA PersistIsPersist ==
    \A p \in Products, v \in Versions : SqlitePersist(p, v) <=> Persist(p, v)
BY DEF SqlitePersist, Persist, SqliteRow, SqliteRawRow

LEMMA SqliteNextIsLoose == [SqliteNext]_vars => [LooseNext]_vars
<1>1. ASSUME NEW w \in Publishers, SqliteClaim(w)
      PROVE  \E ids \in SUBSET Persisted : ClaimRows(w, ids)
  <2>1. Oldest(SqliteClaimable, BatchSize) \in SUBSET Persisted
    BY OldestAreChosen DEF SqliteClaimable
  <2> QED
    BY <1>1, <2>1 DEF SqliteClaim
<1> QED
  BY <1>1, PersistIsPersist DEF SqliteNext, LooseNext, SqlitePoll, SqliteSettle,
     SqliteMarkPublished, SqliteMarkFailed, Settle

LEMMA SqliteIsLoose == SqliteSpec => LooseSpec
BY SqliteNextIsLoose, PTL DEF SqliteSpec, LooseSpec

(* The two tables of the SQLite store agree after every transaction. *)
THEOREM SqliteTablesAgree == SqliteSpec => []TablesAgree
BY SqliteIsLoose, LooseTablesAgree

(* What the SQLite tables call published was accepted by RabbitMQ. *)
THEOREM SqlitePublishedWasSent == SqliteSpec => []PublishedWasSent
BY SqliteIsLoose, LoosePublishedWasSent

(* The SQLite attempt rows account for retry_count and the last verdict. *)
THEOREM SqliteLedgerComplete == SqliteSpec => []LedgerComplete
BY SqliteIsLoose, LooseLedgerComplete

-----------------------------------------------------------------------------
(* Why two publishers never send the same row: what a publisher holds is   *)
(* leased, it holds nothing twice, and nobody claims a leased row.  This   *)
(* is so of any group of rows that are not scraped again.                  *)
HeldIsLeased(S) ==
    \A w \in Publishers : \A i \in DOMAIN pub[w].todo :
        pub[w].todo[i].product \in S => outbox[pub[w].todo[i].product].status = "leased"

NothingTwice(S) ==
    \A w \in Publishers : \A i, j \in DOMAIN pub[w].todo :
        pub[w].todo[i].product \in S /\ pub[w].todo[i].product = pub[w].todo[j].product => i = j

OneHolder(S) ==
    \A p \in S : \A v, w \in Publishers : Holds(v, p) /\ Holds(w, p) => v = w

Held(S) == HeldIsLeased(S) /\ NothingTwice(S) /\ OneHolder(S)

(* Every persisted product was scraped at least once. *)
ScrapesCounted == Cardinality(Persisted) <= used.scrapes

HoldInv == ScrapedOnce => Held(Products)

LEMMA NobodyHolds == (\A w \in Publishers : pub[w].todo = <<>>) => \A S : Held(S)
BY DEF Held, HeldIsLeased, NothingTwice, OneHolder, Holds

LEMMA InitHold == Init => ScrapesCounted /\ HoldInv
<1> SUFFICES ASSUME Init
             PROVE  ScrapesCounted /\ HoldInv
  OBVIOUS
<1>1. Persisted = {}
  BY DEF Init, Persisted, NoRow
<1>2. Cardinality(Persisted) = 0
  BY <1>1, FS_EmptySet
<1>3. \A w \in Publishers : pub[w].todo = <<>>
  BY DEF Init, Idle
<1> QED
  BY <1>2, <1>3, NobodyHolds DEF ScrapesCounted, HoldInv, Init

(* Persisting a product counts it once, and a second time only if it was   *)
(* there.                                                                  *)
LEMMA PersistCounts ==
    ASSUME TypeOK, ScrapesCounted, NEW p \in Products, NEW v \in Versions, Persist(p, v)
    PROVE  /\ ScrapesCounted'
           /\ ScrapedOnce' => ScrapedOnce /\ p \notin Persisted
<1>1. outbox \in [Products -> Row] /\ used.scrapes \in Nat
  BY DEF TypeOK
<1>2. Persisted' = Persisted \cup {p}
  BY <1>1 DEF Persist, Persisted, FreshRow
<1>3. IsFiniteSet(Persisted) /\ Cardinality(Persisted) \in Nat
  BY SubsetsAreFinite DEF Persisted
<1>4. used'.scrapes = used.scrapes + 1
  BY DEF Persist, TypeOK
<1>5. CASE p \in Persisted
  <2>1. Cardinality(Persisted') = Cardinality(Persisted)
    BY <1>2, <1>5
  <2> QED
    BY <1>1, <1>3, <1>4, <2>1 DEF ScrapesCounted, ScrapedOnce
<1>6. CASE p \notin Persisted
  <2>1. Cardinality(Persisted') = Cardinality(Persisted) + 1
    BY <1>2, <1>3, <1>6, FS_AddElement
  <2> QED
    BY <1>1, <1>3, <1>4, <1>6, <2>1 DEF ScrapesCounted, ScrapedOnce
<1> QED
  BY <1>5, <1>6

(* Nothing changes for the holders when batches stay or are dropped and    *)
(* the status of no existing row changes.                                  *)
LEMMA QuietStepHold ==
    ASSUME TypeOK, NEW S, Held(S),
           \A u \in Publishers : pub'[u].todo = pub[u].todo \/ pub'[u].todo = <<>>,
           \A q \in Persisted \cap S : outbox'[q].status = outbox[q].status
    PROVE  Held(S)'
<1>1. \A u \in Publishers : \A i \in DOMAIN pub'[u].todo :
        /\ i \in DOMAIN pub[u].todo /\ pub'[u].todo[i] = pub[u].todo[i]
        /\ pub[u].todo[i].product \in Persisted
  BY DEF TypeOK
<1>2. HeldIsLeased(S)'
  BY <1>1 DEF Held, HeldIsLeased
<1>3. NothingTwice(S)'
  BY <1>1 DEF Held, NothingTwice
<1>4. OneHolder(S)'
  BY <1>1 DEF Held, OneHolder, Holds
<1> QED
  BY <1>2, <1>3, <1>4 DEF Held

(* A claim adds rows that nobody held, each once. *)
LEMMA ClaimHold ==
    ASSUME TypeOK, NEW S, Held(S), NEW w \in Publishers, SqliteClaim(w)
    PROVE  Held(S)'
<1> DEFINE ids == Oldest(SqliteClaimable, BatchSize)
<1>1. ids \subseteq SqliteClaimable /\ ids \subseteq Products
  BY OldestAreChosen DEF SqliteClaimable, Persisted
<1>2. /\ \A q \in Products : outbox'[q] = IF q \in ids
                                           THEN [outbox[q] EXCEPT !.status = "leased", !.lease = "live"]
                                           ELSE outbox[q]
  BY DEF SqliteClaim, ClaimRows
<1> PICK b \in InOrder(ids) :
        pub' = [pub EXCEPT ![w] =
                  [pc   |-> IF ids = {} THEN "idle" ELSE "publish",
                   todo |-> [i \in DOMAIN b |->
                               [product |-> b[i], payload |-> outbox[b[i]].payload]]]]
  BY DEF SqliteClaim, ClaimRows
<1> HIDE DEF ids
<1>3. Cardinality(ids) \in Nat
  BY <1>1, SubsetsAreFinite
<1>4. /\ b \in [1 .. Cardinality(ids) -> ids]
      /\ \A i, j \in DOMAIN b : i < j => outbox[b[i]].born < outbox[b[j]].born
  BY DEF InOrder
<1>5. \A i, j \in DOMAIN b : b[i] = b[j] => i = j
  <2> SUFFICES ASSUME NEW i \in DOMAIN b, NEW j \in DOMAIN b, b[i] = b[j], i # j
               PROVE  FALSE
    OBVIOUS
  <2>1. i \in Nat /\ j \in Nat
    BY <1>3, <1>4
  <2>2. outbox[b[i]].born \in Nat
    BY <1>1, <1>4 DEF TypeOK, Row
  <2>3. i < j \/ j < i
    BY <2>1
  <2> QED
    BY <1>4, <2>2, <2>3
<1> DEFINE todo == [i \in DOMAIN b |-> [product |-> b[i], payload |-> outbox[b[i]].payload]]
<1>6. /\ \A u \in Publishers \ {w} : pub'[u] = pub[u]
      /\ pub'[w].todo = todo
  BY DEF TypeOK
<1>7. DOMAIN todo = DOMAIN b /\ \A i \in DOMAIN b : todo[i].product = b[i] /\ b[i] \in ids
  BY <1>4
<1> HIDE DEF todo
<1>8. \A q \in ids : outbox'[q].status = "leased" /\ outbox[q].status # "leased"
  <2> SUFFICES ASSUME NEW q \in ids
               PROVE  outbox'[q].status = "leased" /\ outbox[q].status # "leased"
    OBVIOUS
  <2>1. outbox[q] \in Row /\ q \in Products
    BY <1>1 DEF TypeOK
  <2> QED
    BY <1>1, <1>2, <2>1 DEF SqliteClaimable, Row
<1>9. \A u \in Publishers \ {w} : \A i \in DOMAIN pub[u].todo :
        pub[u].todo[i].product \in S =>
          /\ pub[u].todo[i].product \in Products \ ids
          /\ outbox[pub[u].todo[i].product].status = "leased"
  BY <1>8 DEF Held, HeldIsLeased, TypeOK, Persisted
<1>10. HeldIsLeased(S)'
  <2> SUFFICES ASSUME NEW u \in Publishers, NEW i \in DOMAIN pub'[u].todo,
                      pub'[u].todo[i].product \in S
               PROVE  outbox'[pub'[u].todo[i].product].status = "leased"
    BY DEF HeldIsLeased
  <2>1. CASE u = w
    BY <1>6, <1>7, <1>8, <2>1
  <2>2. CASE u # w
    <3>1. pub'[u] = pub[u]
      BY <1>6, <2>2
    <3>2. /\ pub[u].todo[i].product \in Products \ ids
          /\ outbox[pub[u].todo[i].product].status = "leased"
      BY <1>9, <2>2, <3>1
    <3> QED
      BY <1>2, <3>1, <3>2
  <2> QED
    BY <2>1, <2>2
<1>11. NothingTwice(S)'
  BY <1>5, <1>6, <1>7 DEF Held, NothingTwice
<1>12. OneHolder(S)'
  BY <1>6, <1>7, <1>9, SMTT(30) DEF Held, OneHolder, Holds
<1> QED
  BY <1>10, <1>11, <1>12 DEF Held

(* A publisher that settles a message lets go of that row and no other. *)
LEMMA SettleHold ==
    ASSUME TypeOK, NEW S, Held(S), NEW w \in Publishers, Settle(w)
    PROVE  Held(S)'
<1> DEFINE todo == pub[w].todo
           rest == Tail(todo)
           p == Head(todo).product
<1>1. pub[w].pc \notin {"idle", "connecting"}
  BY DEF Settle, MarkPublished, MarkFailed
<1>2. todo \in Seq(Message) /\ todo # <<>>
  BY <1>1, TypeOKOfPub, SMTT(30) DEF PubOK, Publisher
<1>3. pub' = Handled(w) /\ \A q \in Products \ {p} : outbox'[q] = outbox[q]
  BY DEF Settle, MarkPublished, MarkFailed, TypeOK
<1>4. pub'[w].todo = rest /\ \A u \in Publishers \ {w} : pub'[u] = pub[u]
  BY <1>3 DEF Handled, TypeOK
<1> HIDE DEF todo
<1>5. /\ Len(todo) \in Nat \ {0} /\ DOMAIN todo = 1 .. Len(todo) /\ Head(todo) = todo[1]
      /\ rest \in Seq(Message) /\ Len(rest) = Len(todo) - 1
      /\ \A i \in 1 .. Len(rest) : rest[i] = todo[i + 1]
  BY <1>2, HeadTailProperties
<1>6. DOMAIN rest = 1 .. Len(rest)
  BY <1>5
<1> HIDE DEF rest
<1>7. \A i \in DOMAIN rest :
        /\ i + 1 \in DOMAIN todo /\ rest[i] = todo[i + 1]
        /\ rest[i].product \in S => rest[i].product # p
  <2> SUFFICES ASSUME NEW i \in DOMAIN rest
               PROVE  /\ i + 1 \in DOMAIN todo
                      /\ rest[i] = todo[i + 1]
                      /\ rest[i].product \in S => rest[i].product # p
    OBVIOUS
  <2>1. i + 1 \in DOMAIN todo /\ 1 \in DOMAIN todo /\ i + 1 # 1 /\ rest[i] = todo[i + 1]
    BY <1>5, <1>6
  <2>2. todo[i + 1].product \in S => todo[i + 1].product # todo[1].product
    BY <2>1 DEF Held, NothingTwice, todo
  <2> QED
    BY <1>5, <2>1, <2>2
<1>8. Holds(w, p)
  BY <1>5 DEF Holds, todo
<1>9. \A u \in Publishers \ {w} : \A i \in DOMAIN pub[u].todo :
        pub[u].todo[i].product \in S => pub[u].todo[i].product \in Products \ {p}
  <2> SUFFICES ASSUME NEW u \in Publishers \ {w}, NEW i \in DOMAIN pub[u].todo,
                      pub[u].todo[i].product \in S
               PROVE  pub[u].todo[i].product \in Products \ {p}
    OBVIOUS
  <2>1. pub[u].todo[i].product \in Products
    BY DEF TypeOK, Persisted
  <2>2. CASE pub[u].todo[i].product = p
    BY <1>8, <2>1, <2>2 DEF Held, OneHolder, Holds
  <2> QED
    BY <2>1, <2>2
<1>10. HeldIsLeased(S)'
  <2> SUFFICES ASSUME NEW u \in Publishers, NEW i \in DOMAIN pub'[u].todo,
                      pub'[u].todo[i].product \in S
               PROVE  outbox'[pub'[u].todo[i].product].status = "leased"
    BY DEF HeldIsLeased
  <2>1. CASE u = w
    <3>1. i \in DOMAIN rest /\ pub'[u].todo[i] = todo[i + 1] /\ i + 1 \in DOMAIN todo
      BY <1>4, <1>7, <2>1
    <3>2. todo[i + 1].product \in Products \ {p}
      BY <1>7, <3>1 DEF TypeOK, Persisted, todo
    <3>3. outbox[todo[i + 1].product].status = "leased"
      BY <3>1 DEF Held, HeldIsLeased, todo
    <3> QED
      BY <1>3, <3>1, <3>2, <3>3
  <2>2. CASE u # w
    BY <1>3, <1>4, <1>9, <2>2 DEF Held, HeldIsLeased
  <2> QED
    BY <2>1, <2>2
<1>11. NothingTwice(S)'
  <2> SUFFICES ASSUME NEW u \in Publishers, NEW i \in DOMAIN pub'[u].todo,
                      NEW j \in DOMAIN pub'[u].todo, pub'[u].todo[i].product \in S,
                      pub'[u].todo[i].product = pub'[u].todo[j].product
               PROVE  i = j
    BY DEF NothingTwice
  <2>1. CASE u = w
    <3>1. i + 1 \in DOMAIN todo /\ j + 1 \in DOMAIN todo /\ i \in Nat /\ j \in Nat
      BY <1>4, <1>5, <1>6, <1>7, <2>1
    <3>2. todo[i + 1].product \in S /\ todo[i + 1].product = todo[j + 1].product
      BY <1>4, <1>7, <2>1
    <3>3. i + 1 = j + 1
      BY <3>1, <3>2 DEF Held, NothingTwice, todo
    <3> QED
      BY <3>1, <3>3
  <2>2. CASE u # w
    BY <1>4, <2>2 DEF Held, NothingTwice
  <2> QED
    BY <2>1, <2>2
<1>12. \A u \in Publishers : \A q : Holds(u, q)' => Holds(u, q)
  <2> SUFFICES ASSUME NEW u \in Publishers, NEW q, NEW i \in DOMAIN pub'[u].todo,
                      pub'[u].todo[i].product = q
               PROVE  Holds(u, q)
    BY DEF Holds
  <2>1. CASE u = w
    BY <1>4, <1>7, <2>1 DEF Holds, todo
  <2>2. CASE u # w
    BY <1>4, <2>2 DEF Holds
  <2> QED
    BY <2>1, <2>2
<1>13. OneHolder(S)'
  BY <1>12 DEF Held, OneHolder
<1> QED
  BY <1>10, <1>11, <1>13 DEF Held

(* No other step than a new scrape changes what was counted. *)
LEMMA CountsKept ==
    ASSUME TypeOK, UNCHANGED used,
           \A q \in Products : (outbox'[q].status = "absent") <=> (outbox[q].status = "absent")
    PROVE  (ScrapesCounted' <=> ScrapesCounted) /\ (ScrapedOnce' <=> ScrapedOnce)
<1>1. Persisted' = Persisted
  BY DEF Persisted
<1> QED
  BY <1>1 DEF ScrapesCounted, ScrapedOnce

LEMMA NextHold ==
    TypeOK /\ ScrapesCounted /\ HoldInv /\ [SqliteNext]_vars => (ScrapesCounted /\ HoldInv)'
<1> SUFFICES ASSUME TypeOK, ScrapesCounted, HoldInv, [SqliteNext]_vars
             PROVE  ScrapesCounted' /\ HoldInv'
  OBVIOUS
<1>1. HoldInv <=> (ScrapedOnce => Held(Products))
  BY DEF HoldInv
<1>2. HoldInv' <=> (ScrapedOnce' => Held(Products)')
  BY DEF HoldInv
<1>3. ASSUME NEW p \in Products, NEW v \in Versions, Persist(p, v)
      PROVE  ScrapesCounted' /\ HoldInv'
  <2>1. ScrapesCounted' /\ (ScrapedOnce' => ScrapedOnce /\ p \notin Persisted)
    BY <1>3, PersistCounts
  <2>2. \A q \in Products \ {p} : outbox'[q] = outbox[q]
    BY <1>3 DEF Persist, TypeOK
  <2>3. p \notin Persisted => \A q \in Persisted : outbox'[q].status = outbox[q].status
    BY <2>2 DEF Persisted
  <2>4. UNCHANGED pub
    BY <1>3 DEF Persist
  <2> QED
    BY <1>1, <1>2, <2>1, <2>3, <2>4, QuietStepHold
<1>4. ASSUME NEW w \in Publishers, SqliteClaim(w)
      PROVE  ScrapesCounted' /\ HoldInv'
  <2> DEFINE ids == Oldest(SqliteClaimable, BatchSize)
  <2>1. ids \subseteq Persisted
    BY OldestAreChosen DEF SqliteClaimable
  <2>2. UNCHANGED used /\ \A q \in Products :
          outbox'[q] = IF q \in ids
                       THEN [outbox[q] EXCEPT !.status = "leased", !.lease = "live"]
                       ELSE outbox[q]
    BY <1>4 DEF SqliteClaim, ClaimRows
  <2> HIDE DEF ids
  <2>3. \A q \in Products : (outbox'[q].status = "absent") <=> (outbox[q].status = "absent")
    <3> SUFFICES ASSUME NEW q \in Products
                 PROVE  (outbox'[q].status = "absent") <=> (outbox[q].status = "absent")
      OBVIOUS
    <3>1. outbox[q] \in Row
      BY DEF TypeOK
    <3> QED
      BY <2>1, <2>2, <3>1 DEF Persisted, Row
  <2> QED
    BY <1>1, <1>2, <1>4, <2>2, <2>3, CountsKept, ClaimHold
<1>5. ASSUME NEW w \in Publishers, Settle(w)
      PROVE  ScrapesCounted' /\ HoldInv'
  <2> DEFINE p == Head(pub[w].todo).product
  <2>1. pub[w].pc \notin {"idle", "connecting"} /\ UNCHANGED used
    BY <1>5 DEF Settle, MarkPublished, MarkFailed
  <2>2. p \in Persisted
    BY <2>1, HeadOfTodo, SMTT(30)
  <2>3. \A q \in Products \ {p} : outbox'[q] = outbox[q]
    BY <1>5 DEF Settle, MarkPublished, MarkFailed, TypeOK
  <2>4. outbox'[p].status # "absent"
    <3>1. outbox[p] \in Row /\ p \in Products /\ outbox[p].status # "absent"
      BY <2>2 DEF TypeOK, Persisted
    <3> HIDE DEF p
    <3>2. Kept(p) \/ MarkedPublished(p) \/ MarkedFailed(p)
      BY <1>5, <3>1, MarkPublishedRow, MarkFailedRow DEF Settle
    <3> QED
      BY <3>1, <3>2 DEF Kept, MarkedPublished, Published, MarkedFailed, Row
  <2>5. \A q \in Products : (outbox'[q].status = "absent") <=> (outbox[q].status = "absent")
    BY <2>2, <2>3, <2>4 DEF Persisted
  <2> QED
    BY <1>1, <1>2, <1>5, <2>1, <2>5, CountsKept, SettleHold
<1>6. ASSUME NEW w \in Publishers, SqlitePoll(w) \/ Send(w)
      PROVE  ScrapesCounted' /\ HoldInv'
  <2>1. UNCHANGED <<outbox, used>>
    BY <1>6 DEF SqlitePoll, Connect, Send, Publish, Republish
  <2>2. PICK pc : pub' = [pub EXCEPT ![w].pc = pc]
    BY <1>6 DEF SqlitePoll, Connect, Send, Publish, Republish, Attempt
  <2>3. \A u \in Publishers : pub'[u].todo = pub[u].todo
    BY <2>2 DEF TypeOK, Publisher
  <2> QED
    BY <1>1, <1>2, <2>1, <2>3, CountsKept, QuietStepHold
<1>7. ASSUME NEW w \in Publishers, Abandon(w)
      PROVE  ScrapesCounted' /\ HoldInv'
  <2>1. UNCHANGED outbox /\ used'.scrapes = used.scrapes
    BY <1>7 DEF Abandon, TypeOK
  <2>2. \A u \in Publishers : pub'[u].todo = pub[u].todo \/ pub'[u].todo = <<>>
    BY <1>7 DEF Abandon, Idle, TypeOK
  <2>3. Persisted' = Persisted
    BY <2>1 DEF Persisted
  <2> QED
    BY <1>1, <1>2, <2>1, <2>2, <2>3, QuietStepHold DEF ScrapesCounted, ScrapedOnce
<1>8. ASSUME NEW p \in Products, LeaseExpires(p) \/ BackoffEnds(p)
      PROVE  ScrapesCounted' /\ HoldInv'
  <2>1. \A q \in Products : outbox'[q].status = outbox[q].status
    <3>1. outbox[p] \in Row
      BY DEF TypeOK
    <3>2. PICK row \in {[outbox[p] EXCEPT !.lease = "expired"], [outbox[p] EXCEPT !.due = TRUE]} :
            outbox' = [outbox EXCEPT ![p] = row]
      BY <1>8 DEF LeaseExpires, BackoffEnds, TypeOK
    <3>3. row.status = outbox[p].status
      BY <3>1, <3>2 DEF Row
    <3> QED
      BY <3>2, <3>3 DEF TypeOK
  <2>2. UNCHANGED <<pub, used>>
    BY <1>8 DEF LeaseExpires, BackoffEnds
  <2> QED
    BY <1>1, <1>2, <2>1, <2>2, CountsKept, QuietStepHold DEF Persisted
<1>9. CASE UNCHANGED vars
  BY <1>1, <1>2, <1>9, CountsKept, QuietStepHold DEF vars
<1> QED
  BY <1>3, <1>4, <1>5, <1>6, <1>7, <1>8, <1>9, PersistIsPersist
  DEF SqliteNext, SqliteSettle, SqliteMarkPublished, SqliteMarkFailed, Settle

(* Two publishers of a SQLite outbox never send the same row, unless its   *)
(* product was scraped again in the meantime.                              *)
THEOREM AlwaysExclusive == SqliteSpec => []Exclusive
<1>1. ScrapesCounted /\ HoldInv => Exclusive
  BY DEF HoldInv, Held, OneHolder, Exclusive
<1> QED
  BY <1>1, InitHold, NextHold, SqliteIsLoose, LooseTypeCorrect, PTL DEF SqliteSpec
=============================================================================
