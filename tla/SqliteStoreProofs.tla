------------------------- MODULE SqliteStoreProofs -------------------------
(***************************************************************************)
(* The whole SQLite store: the migration of an older file changes nothing  *)
(* in what OutboxProofs shows of SQLite.  The reason is that nobody works  *)
(* on the tables before they are migrated, and they are migrated once.     *)
(***************************************************************************)
EXTENDS SqliteStore, OutboxProofs

CrawlType ==
    [pc : {"new", "opened", "running", "closed", "dead"}, yielded : Nat, persisted : Nat,
     dropped : Nat, unparsed : Nat]

(* Before the migration the tables are empty and nobody has opened them. *)
Untouched ==
    /\ Persisted = {} /\ used.scrapes = 0
    /\ opened = {}
    /\ \A w \in Publishers : pub[w].todo = <<>>
    /\ \A c \in Crawls : crawl[c].pc \notin {"opened", "running"}

MigrationInv ==
    /\ db \in [old : Legacies, applied : BOOLEAN]
    /\ crawl \in [Crawls -> CrawlType]
    /\ opened \subseteq Publishers
    /\ ~db.applied => Untouched

StoreInv == MigrationInv /\ TypeOK /\ ScrapesCounted /\ HoldInv

LEMMA InitStore == SqliteStoreInit => StoreInv
<1> SUFFICES ASSUME SqliteStoreInit
             PROVE  StoreInv
  OBVIOUS
<1>1. PICK old \in Legacies : db = [old |-> old, applied |-> FALSE] /\ sent = SentBefore(old)
  BY DEF SqliteStoreInit
<1>2. sent \in [Products -> SUBSET Versions]
  BY <1>1, SqliteStoreAssumption DEF SentBefore, IsLegacy, OldRowType
<1>3. Persisted = {}
  BY DEF SqliteStoreInit, Persisted, NoRow
<1>4. Cardinality(Persisted) = 0
  BY <1>3, FS_EmptySet
<1>5. \A w \in Publishers : pub[w] = Idle
  BY DEF SqliteStoreInit
<1>6. TypeOK
  BY <1>2, <1>3, OutboxAssumption
  DEF SqliteStoreInit, TypeOK, NoRaw, NoRow, Idle, Row, Publisher, Message, Status, Persisted
<1>7. crawl \in [Crawls -> CrawlType] /\ \A c \in Crawls : crawl[c].pc = "new"
  BY DEF SqliteStoreInit, NewCrawl, CrawlType
<1>8. MigrationInv
  BY <1>1, <1>3, <1>5, <1>7 DEF SqliteStoreInit, MigrationInv, Untouched, Idle
<1>9. ScrapesCounted /\ HoldInv
  BY <1>4, <1>5, NobodyHolds DEF SqliteStoreInit, Idle, ScrapesCounted, HoldInv
<1> QED
  BY <1>6, <1>8, <1>9 DEF StoreInv

(* The migration fills empty tables with rows of the right type, which     *)
(* nobody holds.                                                           *)
LEMMA MigrateKeeps ==
    ASSUME StoreInv, ~db.applied, Migrate, UNCHANGED <<pub, sent>>
    PROVE  TypeOK' /\ ScrapesCounted' /\ HoldInv'
<1>1. /\ db.old \in Legacies /\ Untouched /\ TypeOK
      /\ IsLegacy(db.old)
  BY SqliteStoreAssumption DEF StoreInv, MigrationInv
<1>2. /\ MovedRows \subseteq Products
      /\ \A p \in MovedRows : db.old.rows[p] \in OldRowType
  BY <1>1 DEF MovedRows, IsLegacy
<1>3. \A p \in MovedRows : MovedBorn(p) \in Nat
  <2> SUFFICES ASSUME NEW p \in MovedRows
               PROVE  MovedBorn(p) \in Nat
    OBVIOUS
  <2>1. p \notin Persisted
    BY <1>1 DEF Untouched
  <2>2. {q \in MovedRows : db.old.rows[q].born <= db.old.rows[p].born} \in SUBSET Products
    BY <1>2
  <2> QED
    BY <2>1, <2>2, SubsetsAreFinite DEF MovedBorn
<1>4. \A p \in Products :
        /\ p \in MovedRows =>
             /\ outbox'[p] \in Row
             /\ outbox'[p].status \in Status
             /\ outbox'[p].payload \in Versions
        /\ p \notin MovedRows => outbox'[p] = outbox[p]
  BY <1>2, <1>3 DEF Migrate, MigrateOutbox, OldRowType, Row
<1>5. outbox' \in [Products -> Row]
  <2>1. outbox' = [p \in Products |-> outbox'[p]]
    BY DEF Migrate, MigrateOutbox
  <2> QED
    BY <1>1, <1>4, <2>1 DEF TypeOK
<1>6. Persisted' = MovedRows
  BY <1>1, <1>2, <1>4 DEF Persisted, Untouched, Status
<1>7. raw' \in [Products -> [hash : Versions \cup {None}, state : Status \cup {"absent"}]]
  <2>1. \A p \in DOMAIN db.old.items : db.old.items[p] \in Versions
    BY <1>1 DEF IsLegacy
  <2>2. \A p \in Products : raw[p].state \in Status \cup {"absent"}
    BY <1>1 DEF TypeOK
  <2>3. \A p \in MovedRows : db.old.rows[p].status \in Status
    BY <1>2 DEF OldRowType
  <2>4. \A p \in Products : raw'[p] \in [hash : Versions \cup {None}, state : Status \cup {"absent"}]
    <3> SUFFICES ASSUME NEW p \in Products
                 PROVE  raw'[p] \in [hash : Versions \cup {None}, state : Status \cup {"absent"}]
      OBVIOUS
    <3>1. CASE p \notin DOMAIN db.old.items
      BY <1>1, <3>1 DEF Migrate, MigrateProducts, TypeOK
    <3>2. CASE p \in DOMAIN db.old.items
      <4> DEFINE state == IF p \in MovedRows THEN db.old.rows[p].status
                          ELSE IF raw[p] = NoRaw THEN "pending" ELSE raw[p].state
      <4>1. state \in Status \cup {"absent"}
        BY <2>2, <2>3 DEF Status
      <4>2. raw'[p] = [hash |-> db.old.items[p], state |-> state]
        BY <3>2 DEF Migrate, MigrateProducts
      <4> HIDE DEF state
      <4> QED
        BY <2>1, <3>2, <4>1, <4>2
    <3> QED
      BY <3>1, <3>2
  <2>5. raw' = [p \in Products |-> raw'[p]]
    BY DEF Migrate, MigrateProducts
  <2> QED
    BY <2>4, <2>5
<1>8. attempts' \in [Products -> SUBSET [number : Nat \ {0}, success : BOOLEAN]]
  <2>1. \A p \in MovedRows : db.old.rows[p].tries \in SUBSET [number : Nat \ {0}, success : BOOLEAN]
    BY <1>2 DEF OldRowType
  <2> QED
    BY <1>1, <2>1 DEF Migrate, MigrateAttempts, TypeOK
<1>9. MovedRows \ Persisted = MovedRows /\ Cardinality(MovedRows) \in Nat
  BY <1>1, <1>2, SubsetsAreFinite DEF Untouched
<1>10. used' \in [scrapes : Nat, replays : Nat, faults : Nat]
       /\ used'.scrapes = Cardinality(MovedRows)
  BY <1>1, <1>9 DEF Migrate, TypeOK, Untouched
<1>11. \A w \in Publishers : pub'[w] = pub[w] /\ pub[w].todo = <<>>
  BY <1>1 DEF Untouched
<1>12. TypeOK'
  <2>1. \A p \in Persisted' : outbox'[p].payload \in Versions
    BY <1>2, <1>4, <1>6
  <2>2. \A w \in Publishers : pub'[w].pc \in {"idle", "connecting"} /\ DOMAIN pub'[w].todo = {}
    BY <1>1, <1>11 DEF TypeOK
  <2> QED
    BY <1>1, <1>5, <1>7, <1>8, <1>10, <2>1, <2>2 DEF TypeOK
<1>13. ScrapesCounted'
  BY <1>6, <1>9, <1>10 DEF ScrapesCounted
<1>14. HoldInv'
  BY <1>11 DEF HoldInv, Held, HeldIsLeased, NothingTwice, OneHolder, Holds
<1> QED
  BY <1>12, <1>13, <1>14

-----------------------------------------------------------------------------
(* ensure_schema, whoever runs it. *)
LEMMA EnsureSchemaKeeps ==
    ASSUME StoreInv, EnsureSchema, UNCHANGED <<pub, sent>>
    PROVE  /\ TypeOK' /\ ScrapesCounted' /\ HoldInv'
           /\ db' \in [old : Legacies, applied : BOOLEAN] /\ db'.applied
<1>1. db \in [old : Legacies, applied : BOOLEAN]
  BY DEF StoreInv, MigrationInv
<1>2. CASE db.applied
  <2>1. UNCHANGED <<vars, db>>
    BY <1>2 DEF EnsureSchema, vars
  <2> QED
    BY <1>1, <1>2, <2>1, NextTypeOK, NextHold DEF StoreInv, vars
<1>3. CASE ~db.applied
  <2>1. Migrate
    BY <1>3 DEF EnsureSchema
  <2>2. db' \in [old : Legacies, applied : BOOLEAN] /\ db'.applied
    BY <1>1, <2>1 DEF Migrate
  <2> QED
    BY <1>3, <2>1, <2>2, MigrateKeeps
<1> QED
  BY <1>2, <1>3

(* What goes wrong in a crawl changes no row and no holder. *)
LEMMA FaultKeeps ==
    ASSUME StoreInv, Fault
    PROVE  TypeOK' /\ ScrapesCounted' /\ HoldInv'
<1>1. /\ UNCHANGED <<raw, outbox, attempts, pub, sent>>
      /\ used'.scrapes = used.scrapes
      /\ used' \in [scrapes : Nat, replays : Nat, faults : Nat]
  BY DEF Fault, StoreInv, TypeOK
<1>2. TypeOK'
  BY <1>1 DEF StoreInv, TypeOK, Persisted
<1>3. ScrapesCounted'
  BY <1>1 DEF StoreInv, ScrapesCounted, Persisted
<1>4. HoldInv'
  BY <1>1 DEF StoreInv, HoldInv, ScrapedOnce, Persisted, Held, HeldIsLeased, NothingTwice,
     OneHolder, Holds
<1> QED
  BY <1>2, <1>3, <1>4

(* A step of the scraper, a publisher or a timer is one of SqliteOutbox. *)
LEMMA OutboxStepKeeps ==
    ASSUME StoreInv, [SqliteNext]_vars
    PROVE  TypeOK' /\ ScrapesCounted' /\ HoldInv'
BY NextTypeOK, NextHold, SqliteNextIsLoose DEF StoreInv

(* The counters of a crawl stay counters. *)
LEMMA CountersTyped ==
    ASSUME NEW k \in CrawlType
    PROVE  /\ Stored(k) \in CrawlType
           /\ Refused(k) \in CrawlType /\ Refused(k).pc = k.pc
           /\ Dropped(k) \in CrawlType /\ Dropped(k).pc = k.pc
<1> DEFINE l == [k EXCEPT !.yielded = k.yielded + 1]
<1>1. l \in CrawlType /\ l.pc = k.pc /\ l.persisted = k.persisted /\ l.dropped = k.dropped
  BY DEF CrawlType
<1>2. Stored(k) = [l EXCEPT !.persisted = k.persisted + 1]
  BY DEF Stored
<1>3. Refused(k) = l
  BY DEF Refused
<1>4. Dropped(k) = [l EXCEPT !.dropped = k.dropped + 1]
  BY DEF Dropped
<1>5. k.persisted + 1 \in Nat /\ k.dropped + 1 \in Nat
  BY DEF CrawlType
<1> HIDE DEF l
<1> QED
  BY <1>1, <1>2, <1>3, <1>4, <1>5 DEF CrawlType

LEMMA NextStore == StoreInv /\ [SqliteStoreNext]_storeVars => StoreInv'
<1> SUFFICES ASSUME StoreInv, [SqliteStoreNext]_storeVars
             PROVE  StoreInv'
  OBVIOUS
<1> USE DEF StoreInv
<1>1. /\ db \in [old : Legacies, applied : BOOLEAN]
      /\ crawl \in [Crawls -> CrawlType]
      /\ opened \subseteq Publishers
      /\ ~db.applied => Untouched
  BY DEF MigrationInv
<1>2. ASSUME NEW w \in Publishers, OpenStore(w)
      PROVE  StoreInv'
  <2>1. EnsureSchema /\ UNCHANGED <<pub, sent, crawl>> /\ opened' = opened \cup {w}
    BY <1>2 DEF OpenStore
  <2> QED
    BY <1>1, <2>1, EnsureSchemaKeeps DEF MigrationInv
<1>3. ASSUME NEW c \in Crawls, OpenSpider(c)
      PROVE  StoreInv'
  <2>1. /\ EnsureSchema /\ UNCHANGED <<pub, sent, opened>>
        /\ crawl' = [crawl EXCEPT ![c].pc = "opened"]
    BY <1>3 DEF OpenSpider
  <2>2. crawl' \in [Crawls -> CrawlType]
    BY <1>1, <2>1 DEF CrawlType
  <2> QED
    BY <1>1, <2>1, <2>2, EnsureSchemaKeeps DEF MigrationInv
<1>4. ASSUME NEW c \in Crawls,
             OpenSpiderFails(c) \/ RegisterRun(c) \/ CloseSpider(c)
      PROVE  StoreInv'
  <2>1. UNCHANGED <<vars, db, opened>>
    BY <1>4 DEF OpenSpiderFails, RegisterRun, CloseSpider
  <2>2. PICK pc \in {"dead", "running", "closed"} :
          /\ crawl' = [crawl EXCEPT ![c].pc = pc]
          /\ pc = "running" => crawl[c].pc = "opened"
    BY <1>4 DEF OpenSpiderFails, RegisterRun, CloseSpider
  <2>3. crawl' \in [Crawls -> CrawlType]
    BY <1>1, <2>2 DEF CrawlType
  <2>4. ~db.applied => \A k \in Crawls : crawl'[k].pc \notin {"opened", "running"}
    BY <1>1, <2>2 DEF Untouched, CrawlType
  <2>5. MigrationInv'
    BY <1>1, <2>1, <2>3, <2>4 DEF MigrationInv, Untouched, Persisted, vars
  <2> QED
    BY <2>1, <2>5, OutboxStepKeeps DEF vars
<1>5. ASSUME NEW c \in Crawls, NEW p \in Products, NEW v \in Versions, StoreItem(c, p, v)
      PROVE  StoreInv'
  <2>1. SqlitePersist(p, v) /\ UNCHANGED <<db, opened>> /\ crawl[c].pc = "running"
    BY <1>5 DEF StoreItem, Yielded
  <2>2. crawl' \in [Crawls -> CrawlType]
    <3>1. crawl[c] \in CrawlType
      BY <1>1
    <3>2. Stored(crawl[c]) \in CrawlType
      BY <3>1, CountersTyped
    <3>3. crawl' = [crawl EXCEPT ![c] = Stored(crawl[c])]
      BY <1>5 DEF StoreItem
    <3> QED
      BY <1>1, <3>2, <3>3
  <2>3. db.applied
    BY <1>1, <2>1 DEF Untouched
  <2>4. SqliteNext
    BY <2>1 DEF SqliteNext
  <2> QED
    BY <1>1, <2>1, <2>2, <2>3, <2>4, OutboxStepKeeps DEF MigrationInv
<1>6. ASSUME NEW c \in Crawls,
             \/ \E p \in Products, v \in Versions : RefuseItem(c, p, v) \/ DropItem(c, p, v)
             \/ FailToParse(c) \/ KillCrawl(c)
      PROVE  StoreInv'
  <2>1. Fault
    BY <1>6 DEF RefuseItem, DropItem, FailToParse, KillCrawl
  <2>2. crawl[c] \in CrawlType
    BY <1>1
  <2>3. PICK r : crawl' = [crawl EXCEPT ![c] = r] /\ r \in CrawlType /\ r.pc \in {crawl[c].pc, "dead"}
    <3> DEFINE refused == Refused(crawl[c])
               dropped == Dropped(crawl[c])
               missed == [crawl[c] EXCEPT !.unparsed = @ + 1]
               killed == [crawl[c] EXCEPT !.pc = "dead"]
    <3>2. /\ refused \in CrawlType /\ refused.pc = crawl[c].pc
          /\ dropped \in CrawlType /\ dropped.pc = crawl[c].pc
          /\ missed \in CrawlType /\ missed.pc = crawl[c].pc
          /\ killed \in CrawlType /\ killed.pc = "dead"
      BY <2>2, CountersTyped DEF CrawlType
    <3>3. \/ crawl' = [crawl EXCEPT ![c] = refused]
          \/ crawl' = [crawl EXCEPT ![c] = dropped]
          \/ crawl' = [crawl EXCEPT ![c] = missed]
          \/ crawl' = [crawl EXCEPT ![c] = killed]
      BY <1>1, <1>6 DEF RefuseItem, DropItem, FailToParse, KillCrawl
    <3> HIDE DEF refused, dropped, missed, killed
    <3> QED
      BY <3>2, <3>3
  <2>4. crawl' \in [Crawls -> CrawlType]
    BY <1>1, <2>3
  <2>5. ~db.applied => \A k \in Crawls : crawl'[k].pc \notin {"opened", "running"}
    BY <1>1, <2>3 DEF Untouched
  <2>6. UNCHANGED <<outbox, pub, db, opened>> /\ used'.scrapes = used.scrapes
    BY <2>1 DEF Fault, TypeOK
  <2>7. MigrationInv'
    BY <1>1, <2>4, <2>5, <2>6 DEF MigrationInv, Untouched, Persisted
  <2> QED
    BY <2>1, <2>7, FaultKeeps
<1>7. ASSUME NEW w \in opened, PublisherStep(w), UNCHANGED <<db, crawl, opened>>
      PROVE  StoreInv'
  <2>1. db.applied
    BY <1>1, <1>7 DEF Untouched
  <2>2. SqliteNext
    BY <1>1, <1>7 DEF PublisherStep, SqliteNext
  <2> QED
    BY <1>1, <1>7, <2>1, <2>2, OutboxStepKeeps DEF MigrationInv
<1>8. ASSUME NEW p \in Products, LeaseExpires(p) \/ BackoffEnds(p), UNCHANGED <<db, crawl, opened>>
      PROVE  StoreInv'
  <2>1. SqliteNext
    BY <1>8 DEF SqliteNext
  <2>2. \A q \in Products : outbox'[q].status = outbox[q].status
    <3>1. outbox[p] \in Row
      BY DEF TypeOK
    <3>2. PICK row \in {[outbox[p] EXCEPT !.lease = "expired"], [outbox[p] EXCEPT !.due = TRUE]} :
            outbox' = [outbox EXCEPT ![p] = row]
      BY <1>8 DEF LeaseExpires, BackoffEnds, TypeOK
    <3>3. row.status = outbox[p].status
      BY <3>1, <3>2 DEF Row
    <3> QED
      BY <3>2, <3>3 DEF TypeOK
  <2>3. UNCHANGED <<pub, used>>
    BY <1>8 DEF LeaseExpires, BackoffEnds
  <2>4. MigrationInv'
    BY <1>1, <1>8, <2>2, <2>3 DEF MigrationInv, Untouched, Persisted
  <2> QED
    BY <2>1, <2>4, OutboxStepKeeps
<1>9. CASE UNCHANGED storeVars
  <2>1. UNCHANGED <<vars, db, crawl, opened>>
    BY <1>9 DEF storeVars
  <2>2. MigrationInv'
    BY <1>1, <2>1 DEF MigrationInv, Untouched, Persisted, vars
  <2> QED
    BY <2>1, <2>2, OutboxStepKeeps
<1>10. ASSUME NEW c \in Crawls, CrawlStep(c)
       PROVE  StoreInv'
  BY <1>3, <1>4, <1>5, <1>6, <1>10 DEF CrawlStep
<1> QED
  BY <1>2, <1>7, <1>8, <1>9, <1>10 DEF SqliteStoreNext

LEMMA StoreInvHolds == SqliteStoreSpec => []StoreInv
BY InitStore, NextStore, PTL DEF SqliteStoreSpec

(* Two publishers never send the same row of a SQLite store unless its     *)
(* product was scraped again, whatever an older file held, whoever         *)
(* migrated it, and for any number of crawls, publishers and products.     *)
THEOREM StoreExclusive == SqliteStoreSpec => []Exclusive
<1>1. StoreInv => Exclusive
  BY DEF StoreInv, HoldInv, Held, OneHolder, Exclusive
<1> QED
  BY <1>1, StoreInvHolds, PTL

-----------------------------------------------------------------------------
(* A verdict is only ever written on a leased row.                         *)
VerdictKept ==
    \A p \in Products :
        ScrapedOnce /\ Settled(p) /\ outbox'[p].status # outbox[p].status => used' # used

LEMMA OutboxStepKeepsVerdicts ==
    ASSUME TypeOK, HoldInv, [SqliteNext]_vars
    PROVE  VerdictKept
<1> SUFFICES ASSUME NEW p \in Products, ScrapedOnce, Settled(p),
                    outbox'[p].status # outbox[p].status, UNCHANGED used
             PROVE  FALSE
  BY DEF VerdictKept
<1>1. outbox \in [Products -> Row] /\ outbox[p] \in Row /\ HeldIsLeased(Products)
  BY DEF TypeOK, HoldInv, Held
<1>2. ASSUME NEW q \in Products, NEW v \in Versions, SqlitePersist(q, v)
      PROVE  FALSE
  <2>1. used \in [scrapes : Nat, replays : Nat, faults : Nat]
    BY DEF TypeOK
  <2>2. used'.scrapes = used.scrapes + 1
    BY <1>2, <2>1 DEF SqlitePersist
  <2>3. used'.scrapes = used.scrapes /\ used.scrapes \in Nat
    BY <2>1
  <2> QED
    BY <2>2, <2>3
<1>3. ASSUME NEW w \in Publishers, SqliteClaim(w)
      PROVE  FALSE
  <2> DEFINE ids == Oldest(SqliteClaimable, BatchSize)
  <2>1. p \notin ids
    BY OldestAreChosen DEF SqliteClaimable, Settled
  <2>2. outbox'[p] = IF p \in ids
                     THEN [outbox[p] EXCEPT !.status = "leased", !.lease = "live"]
                     ELSE outbox[p]
    BY <1>3 DEF SqliteClaim, ClaimRows
  <2> QED
    BY <2>1, <2>2
<1>4. ASSUME NEW w \in Publishers, Settle(w)
      PROVE  FALSE
  <2> DEFINE q == Head(pub[w].todo).product
  <2>1. pub[w].todo \in Seq(Message) /\ pub[w].todo # <<>>
    BY <1>4 DEF Settle, MarkPublished, MarkFailed, TypeOK, Publisher
  <2>2. 1 \in DOMAIN pub[w].todo /\ Head(pub[w].todo) = pub[w].todo[1]
    BY <2>1
  <2>5. q \in Products
    BY <1>4, HeadOfTodo DEF Settle, MarkPublished, MarkFailed, Persisted
  <2>3. outbox[q].status = "leased"
    BY <1>1, <2>2, <2>5, SMTT(30) DEF HeldIsLeased
  <2>4. \A r \in Products \ {q} : outbox'[r] = outbox[r]
    BY <1>4 DEF Settle, MarkPublished, MarkFailed, TypeOK
  <2> QED
    BY <2>3, <2>4, SMTT(30) DEF Settled
<1>5. ASSUME NEW w \in Publishers, SqlitePoll(w) \/ Send(w) \/ Abandon(w)
      PROVE  FALSE
  BY <1>5 DEF SqlitePoll, Connect, Send, Publish, Republish, Abandon
<1>6. ASSUME NEW q \in Products, LeaseExpires(q) \/ BackoffEnds(q)
      PROVE  FALSE
  <2>1. outbox[q] \in Row
    BY <1>1
  <2>2. PICK row \in {[outbox[q] EXCEPT !.lease = "expired"], [outbox[q] EXCEPT !.due = TRUE]} :
          outbox' = [outbox EXCEPT ![q] = row]
    BY <1>6 DEF LeaseExpires, BackoffEnds, TypeOK
  <2>3. row.status = outbox[q].status
    BY <2>1, <2>2 DEF Row
  <2> QED
    BY <1>1, <2>2, <2>3
<1>7. CASE UNCHANGED vars
  BY <1>7 DEF vars
<1> QED
  BY <1>2, <1>3, <1>4, <1>5, <1>6, <1>7
  DEF SqliteNext, SqliteSettle, SqliteMarkPublished, SqliteMarkFailed, Settle

LEMMA StoreStepKeepsVerdicts == StoreInv /\ [SqliteStoreNext]_storeVars => VerdictKept
<1> SUFFICES ASSUME StoreInv, [SqliteStoreNext]_storeVars
             PROVE  VerdictKept
  OBVIOUS
<1>1. TypeOK /\ HoldInv /\ (~db.applied => Untouched) /\ opened \subseteq Publishers
  BY DEF StoreInv, MigrationInv
<1>2. ASSUME EnsureSchema
      PROVE  VerdictKept
  <2>1. CASE db.applied
    BY <1>2, <2>1 DEF EnsureSchema, VerdictKept
  <2>2. CASE ~db.applied
    BY <1>1, <2>2 DEF VerdictKept, Untouched, Persisted, Settled
  <2> QED
    BY <2>1, <2>2
<1>3. ASSUME UNCHANGED outbox
      PROVE  VerdictKept
  BY <1>3 DEF VerdictKept
<1>4. ASSUME SqliteNext
      PROVE  VerdictKept
  BY <1>1, <1>4, OutboxStepKeepsVerdicts
<1>5. ASSUME NEW c \in Crawls, CrawlStep(c)
      PROVE  VerdictKept
  <2>1. ASSUME NEW p \in Products, NEW v \in Versions, StoreItem(c, p, v)
        PROVE  SqliteNext
    BY <2>1 DEF StoreItem, SqliteNext
  <2>2. ASSUME NEW p \in Products, NEW v \in Versions, RefuseItem(c, p, v) \/ DropItem(c, p, v)
        PROVE  UNCHANGED outbox
    BY <2>2 DEF RefuseItem, DropItem, Fault
  <2>3. ASSUME \/ OpenSpiderFails(c) \/ RegisterRun(c) \/ CloseSpider(c)
               \/ FailToParse(c) \/ KillCrawl(c)
        PROVE  UNCHANGED outbox
    BY <2>3 DEF OpenSpiderFails, RegisterRun, CloseSpider, FailToParse, KillCrawl, Fault, vars
  <2>4. ASSUME OpenSpider(c)
        PROVE  EnsureSchema
    BY <2>4 DEF OpenSpider
  <2> QED
    BY <1>2, <1>3, <1>4, <1>5, <2>1, <2>2, <2>3, <2>4 DEF CrawlStep
<1>6. ASSUME NEW w \in Publishers, OpenStore(w)
      PROVE  VerdictKept
  BY <1>2, <1>6 DEF OpenStore
<1>7. ASSUME NEW w \in opened, PublisherStep(w)
      PROVE  VerdictKept
  BY <1>1, <1>4, <1>7 DEF PublisherStep, SqliteNext
<1>8. ASSUME NEW p \in Products, LeaseExpires(p) \/ BackoffEnds(p)
      PROVE  VerdictKept
  BY <1>4, <1>8 DEF SqliteNext
<1>9. CASE UNCHANGED storeVars
  BY <1>3, <1>9 DEF storeVars, vars
<1> QED
  BY <1>5, <1>6, <1>7, <1>8, <1>9 DEF SqliteStoreNext

(* On SQLite a verdict stands until the product is scraped again: no late  *)
(* publisher and no migration takes it back.                               *)
THEOREM StoreVerdictIsFinal == SqliteStoreSpec => VerdictIsFinal
<1>1. StoreInv /\ [SqliteStoreNext]_storeVars
        => [\A p \in Products :
              ScrapedOnce /\ Settled(p) /\ outbox'[p].status # outbox[p].status
                => used' # used]_vars
  BY StoreStepKeepsVerdicts DEF VerdictKept
<1> QED
  BY <1>1, StoreInvHolds, PTL DEF SqliteStoreSpec, VerdictIsFinal
-----------------------------------------------------------------------------
(* The rows of an older file.  No crawl scrapes their products again, so   *)
(* what a publisher holds of them is leased to it alone.                   *)
OldProducts == {p \in Products : RunOf[p] \in OldRuns}
OldHeld == Held(OldProducts)

(* A step that leaves the batches and the older rows alone: a batch may be *)
(* dropped, and a timer may run out.                                       *)
OldKept ==
    /\ \A u \in Publishers : pub'[u].todo = pub[u].todo \/ pub'[u].todo = <<>>
    /\ \A p \in OldProducts \cap Persisted :
         /\ outbox'[p].status = outbox[p].status /\ outbox'[p].retry = outbox[p].retry
         /\ attempts'[p] = attempts[p]

(* The first process that opens the file. *)
FirstOpening == Persisted = {} /\ \A w \in Publishers : pub[w].todo = <<>> /\ pub'[w] = pub[w]

LEMMA OpeningOld ==
    ASSUME StoreInv, EnsureSchema, UNCHANGED pub
    PROVE  OldKept \/ FirstOpening
<1>1. CASE db.applied
  BY <1>1 DEF EnsureSchema, OldKept
<1>2. CASE ~db.applied
  BY <1>2 DEF StoreInv, MigrationInv, Untouched, FirstOpening
<1> QED
  BY <1>1, <1>2

LEMMA TimersOld ==
    ASSUME TypeOK, NEW p \in Products, LeaseExpires(p) \/ BackoffEnds(p)
    PROVE  OldKept
<1>1. outbox[p] \in Row /\ UNCHANGED <<pub, attempts>>
  BY DEF TypeOK, LeaseExpires, BackoffEnds
<1>2. PICK row \in {[outbox[p] EXCEPT !.lease = "expired"], [outbox[p] EXCEPT !.due = TRUE]} :
        outbox' = [outbox EXCEPT ![p] = row]
  BY DEF LeaseExpires, BackoffEnds, TypeOK
<1>3. row.status = outbox[p].status /\ row.retry = outbox[p].retry
  BY <1>1, <1>2 DEF Row
<1> QED
  BY <1>1, <1>2, <1>3 DEF OldKept, TypeOK, OldProducts

LEMMA OldSteps ==
    ASSUME StoreInv, [SqliteStoreNext]_storeVars
    PROVE  \/ OldKept \/ FirstOpening
           \/ \E w \in Publishers : SqliteClaim(w) \/ Settle(w)
<1>1. TypeOK /\ opened \subseteq Publishers
  BY DEF StoreInv, MigrationInv
<1>2. ASSUME UNCHANGED <<outbox, attempts, pub>>
      PROVE  OldKept
  BY <1>2 DEF OldKept
<1>3. ASSUME NEW c \in Crawls, NEW p \in Products, NEW v \in Versions, StoreItem(c, p, v)
      PROVE  OldKept
  <2>1. SqlitePersist(p, v) /\ RunOf[p] = c
    BY <1>3 DEF StoreItem, Yielded
  <2>2. p \notin OldProducts
    BY <2>1, SqliteStoreAssumption DEF OldProducts
  <2>3. UNCHANGED <<attempts, pub>> /\ \A q \in Products \ {p} : outbox'[q] = outbox[q]
    BY <1>1, <2>1 DEF SqlitePersist, TypeOK
  <2> QED
    BY <2>2, <2>3 DEF OldKept, OldProducts
<1>4. ASSUME NEW c \in Crawls, CrawlStep(c)
      PROVE  OldKept \/ FirstOpening
  <2>1. CASE OpenSpider(c)
    BY <2>1, OpeningOld DEF OpenSpider
  <2>2. CASE \E p \in Products, v \in Versions : StoreItem(c, p, v)
    BY <1>3, <2>2
  <2>3. CASE \/ \E p \in Products, v \in Versions : RefuseItem(c, p, v) \/ DropItem(c, p, v)
             \/ OpenSpiderFails(c) \/ RegisterRun(c) \/ CloseSpider(c)
             \/ FailToParse(c) \/ KillCrawl(c)
    BY <1>2, <2>3 DEF RefuseItem, DropItem, OpenSpiderFails, RegisterRun, CloseSpider,
       FailToParse, KillCrawl, Fault, vars
  <2> QED
    BY <1>4, <2>1, <2>2, <2>3 DEF CrawlStep
<1>5. ASSUME NEW w \in opened, PublisherStep(w)
      PROVE  OldKept \/ SqliteClaim(w) \/ Settle(w)
  <2>1. CASE SqlitePoll(w) \/ Send(w)
    <3>1. PICK pc : pub' = [pub EXCEPT ![w].pc = pc]
      BY <2>1 DEF SqlitePoll, Connect, Send, Publish, Republish, Attempt
    <3>2. UNCHANGED <<outbox, attempts>>
      BY <2>1 DEF SqlitePoll, Connect, Send, Publish, Republish
    <3>3. \A u \in Publishers : pub'[u].todo = pub[u].todo
      BY <1>1, <3>1 DEF TypeOK, Publisher
    <3> QED
      BY <3>2, <3>3 DEF OldKept
  <2>2. CASE Abandon(w)
    BY <1>1, <2>2 DEF Abandon, Idle, TypeOK, OldKept
  <2>3. CASE SqliteSettle(w)
    BY <2>3 DEF SqliteSettle, SqliteMarkPublished, SqliteMarkFailed, Settle
  <2> QED
    BY <1>5, <2>1, <2>2, <2>3 DEF PublisherStep
<1>6. ASSUME NEW w \in Publishers, OpenStore(w)
      PROVE  OldKept \/ FirstOpening
  BY <1>6, OpeningOld DEF OpenStore
<1>7. CASE UNCHANGED storeVars
  BY <1>2, <1>7 DEF storeVars, vars
<1> QED
  BY <1>1, <1>4, <1>5, <1>6, <1>7, TimersOld DEF SqliteStoreNext

LEMMA InitOldHeld == SqliteStoreInit => OldHeld
<1>1. SqliteStoreInit => \A w \in Publishers : pub[w].todo = <<>>
  BY DEF SqliteStoreInit, Idle
<1> QED
  BY <1>1, NobodyHolds DEF OldHeld

LEMMA NextOldHeld == StoreInv /\ OldHeld /\ [SqliteStoreNext]_storeVars => OldHeld'
<1> SUFFICES ASSUME StoreInv, OldHeld, [SqliteStoreNext]_storeVars
             PROVE  Held(OldProducts)'
  BY DEF OldHeld
<1>1. TypeOK /\ Held(OldProducts)
  BY DEF StoreInv, OldHeld
<1>2. CASE OldKept
  BY <1>1, <1>2, QuietStepHold DEF OldKept
<1>3. CASE FirstOpening
  <2>1. \A w \in Publishers : pub'[w].todo = <<>>
    BY <1>3 DEF FirstOpening
  <2> QED
    BY <2>1 DEF Held, HeldIsLeased, NothingTwice, OneHolder, Holds
<1>4. CASE \E w \in Publishers : SqliteClaim(w) \/ Settle(w)
  BY <1>1, <1>4, ClaimHold, SettleHold
<1> QED
  BY <1>2, <1>3, <1>4, OldSteps

(* An attempt is replaced by one with its number. *)
LEMMA LoggedKeepsNumbers ==
    ASSUME NEW p, NEW n, NEW ok
    PROVE  \A a \in attempts[p] : \E b \in Logged(p, n, ok) : a.number = b.number
<1> SUFFICES ASSUME NEW a \in attempts[p]
             PROVE  \E b \in Logged(p, n, ok) : a.number = b.number
  OBVIOUS
<1>1. CASE a.number = n
  <2>1. [number |-> n, success |-> ok] \in Logged(p, n, ok)
    BY DEF Logged
  <2> QED
    BY <1>1, <2>1
<1>2. CASE a.number # n
  BY <1>2 DEF Logged
<1> QED
  BY <1>1, <1>2

OldForward ==
    \A p \in Products :
        RunOf[p] \in OldRuns /\ p \in Persisted
          => /\ outbox'[p].retry >= outbox[p].retry
             /\ Settled(p) => outbox'[p].status = outbox[p].status
             /\ \A a \in attempts[p] : \E b \in attempts'[p] : a.number = b.number

LEMMA NextOldForward == StoreInv /\ OldHeld /\ [SqliteStoreNext]_storeVars => OldForward
<1> SUFFICES ASSUME StoreInv, OldHeld, [SqliteStoreNext]_storeVars,
                    NEW p \in Products, RunOf[p] \in OldRuns, p \in Persisted
             PROVE  /\ outbox'[p].retry >= outbox[p].retry
                    /\ Settled(p) => outbox'[p].status = outbox[p].status
                    /\ \A a \in attempts[p] : \E b \in attempts'[p] : a.number = b.number
  BY DEF OldForward
<1>1. TypeOK /\ outbox[p] \in Row /\ outbox[p].retry \in Nat /\ p \in OldProducts
  BY DEF StoreInv, TypeOK, Row, OldProducts
<1>2. CASE OldKept
  <2>1. outbox'[p].status = outbox[p].status /\ outbox'[p].retry = outbox[p].retry
        /\ attempts'[p] = attempts[p]
    BY <1>1, <1>2 DEF OldKept
  <2> QED
    BY <1>1, <2>1
<1>3. CASE FirstOpening
  BY <1>3 DEF FirstOpening
<1>4. ASSUME NEW w \in Publishers, SqliteClaim(w)
      PROVE  /\ outbox'[p].retry = outbox[p].retry
             /\ Settled(p) => outbox'[p].status = outbox[p].status
             /\ attempts' = attempts
  <2> DEFINE ids == Oldest(SqliteClaimable, BatchSize)
  <2>1. Settled(p) => p \notin ids
    BY OldestAreChosen DEF SqliteClaimable, Settled
  <2>2. outbox'[p] = IF p \in ids
                     THEN [outbox[p] EXCEPT !.status = "leased", !.lease = "live"]
                     ELSE outbox[p]
    BY <1>4 DEF SqliteClaim, ClaimRows
  <2>3. attempts' = attempts
    BY <1>4 DEF SqliteClaim, ClaimRows
  <2> HIDE DEF ids
  <2> QED
    BY <1>1, <2>1, <2>2, <2>3 DEF Row
<1>5. ASSUME NEW w \in Publishers, Settle(w)
      PROVE  /\ outbox'[p].retry >= outbox[p].retry
             /\ Settled(p) => outbox'[p].status = outbox[p].status
             /\ \A a \in attempts[p] : \E b \in attempts'[p] : a.number = b.number
  <2> DEFINE q == Head(pub[w].todo).product
  <2>1. pub[w].todo \in Seq(Message) /\ pub[w].todo # <<>>
    BY <1>1, <1>5 DEF Settle, MarkPublished, MarkFailed, TypeOK, Publisher
  <2>2. 1 \in DOMAIN pub[w].todo /\ Head(pub[w].todo) = pub[w].todo[1]
    BY <2>1
  <2>3. q \in OldProducts => outbox[q].status = "leased"
    BY <2>2 DEF OldHeld, Held, HeldIsLeased
  <2>4. p # q => outbox'[p] = outbox[p] /\ attempts'[p] = attempts[p]
    BY <1>1, <1>5 DEF Settle, MarkPublished, MarkFailed, TypeOK
  <2>5. Settled(p) => p # q
    BY <1>1, <2>3 DEF Settled
  <2>6. Kept(p) \/ MarkedPublished(p) \/ MarkedFailed(p)
    BY <1>1, <1>5, MarkPublishedRow, MarkFailedRow DEF Settle
  <2>7. outbox'[p].retry \in {outbox[p].retry, outbox[p].retry + 1}
    BY <1>1, <2>6 DEF Kept, MarkedPublished, Published, MarkedFailed, Row
  <2> DEFINE good == Logged(p, outbox[p].retry + 1, TRUE)
             bad == Logged(p, outbox[p].retry + 1, FALSE)
  <2>8. /\ \A a \in attempts[p] : \E b \in good : a.number = b.number
        /\ \A a \in attempts[p] : \E b \in bad : a.number = b.number
    <3>1. \A n, ok : \A a \in attempts[p] : \E b \in Logged(p, n, ok) : a.number = b.number
      BY LoggedKeepsNumbers
    <3>2. \A a \in attempts[p] : \E b \in good : a.number = b.number
      BY <3>1
    <3>3. \A a \in attempts[p] : \E b \in bad : a.number = b.number
      BY <3>1
    <3> QED
      BY <3>2, <3>3
  <2>9. attempts'[p] \in {attempts[p], good, bad}
    BY <2>6 DEF Kept, MarkedPublished, MarkedFailed
  <2> HIDE DEF good, bad
  <2>10. \A a \in attempts[p] : \E b \in attempts'[p] : a.number = b.number
    BY <2>8, <2>9
  <2> HIDE DEF q
  <2> QED
    BY <1>1, <2>4, <2>5, <2>7, <2>10, SMTT(30)
<1> QED
  BY <1>1, <1>2, <1>3, <1>4, <1>5, OldSteps

LEMMA OldHeldHolds == SqliteStoreSpec => []OldHeld
<1>1. StoreInv /\ OldHeld /\ [SqliteStoreNext]_storeVars => OldHeld'
  BY NextOldHeld
<1> QED
  BY <1>1, InitOldHeld, StoreInvHolds, PTL DEF SqliteStoreSpec

(* A row of the older file only moves forward, whoever opens the store and *)
(* works on it: its attempts are kept and its verdict stands.              *)
THEOREM OldRowsAlwaysMoveForward == SqliteStoreSpec => OldRowsMoveForward
<1>1. StoreInv /\ OldHeld /\ [SqliteStoreNext]_storeVars
        => [\A p \in Products :
              RunOf[p] \in OldRuns /\ p \in Persisted
                => /\ outbox'[p].retry >= outbox[p].retry
                   /\ Settled(p) => outbox'[p].status = outbox[p].status
                   /\ \A a \in attempts[p] : \E b \in attempts'[p] : a.number = b.number]_storeVars
  BY NextOldForward DEF OldForward
<1> QED
  BY <1>1, StoreInvHolds, OldHeldHolds, PTL DEF SqliteStoreSpec, OldRowsMoveForward
-----------------------------------------------------------------------------
(* What a finished run tells.  A crawl's two counters agree only as long   *)
(* as every item it yielded was stored, and its report is final.           *)
CountersTell(c) ==
    /\ crawl[c].persisted <= crawl[c].yielded
    /\ crawl[c].persisted = crawl[c].yielded
         => \A p \in Products : RunOf[p] = c => newest[p] \in {None, raw[p].hash}

ReportFinal(c) ==
    runs[c].status = "completed"
      => /\ crawl[c].pc = "closed"
         /\ runs[c].scraped = crawl[c].yielded
         /\ runs[c].persisted = crawl[c].persisted

CountsInv ==
    /\ DOMAIN runs = Runs /\ DOMAIN newest = Products
    /\ \A c \in Crawls : CountersTell(c) /\ ReportFinal(c)

(* The snapshots of a crawl's products stay what they are. *)
SnapshotsKept == \A p \in Products : RunOf[p] \in Crawls => raw'[p].hash = raw[p].hash

LEMMA InitCounts == SqliteStoreInit => CountsInv
<1> SUFFICES ASSUME SqliteStoreInit
             PROVE  CountsInv
  OBVIOUS
<1>1. /\ runs = [r \in Runs |-> NoRun] /\ newest = [p \in Products |-> None]
      /\ crawl = [c \in Crawls |-> NewCrawl]
  BY DEF SqliteStoreInit
<1> QED
  BY <1>1 DEF CountsInv, CountersTell, ReportFinal, NoRun, NewCrawl, Runs

(* Only the rows of older runs are migrated. *)
LEMMA EnsureSchemaCounts ==
    ASSUME StoreInv, CountsInv, EnsureSchema
    PROVE  /\ SnapshotsKept
           /\ DOMAIN runs' = Runs /\ \A c \in Crawls : runs'[c] = runs[c]
<1>1. CASE db.applied
  BY <1>1 DEF EnsureSchema, SnapshotsKept, CountsInv
<1>2. CASE ~db.applied
  <2>1. Migrate
    BY <1>2 DEF EnsureSchema
  <2>2. IsLegacy(db.old)
    BY SqliteStoreAssumption DEF StoreInv, MigrationInv
  <2>3. \A p \in Products : RunOf[p] \in Crawls => raw'[p] = raw[p]
    BY <2>1, <2>2, SqliteStoreAssumption DEF Migrate, MigrateProducts, IsLegacy
  <2>4. DOMAIN runs' = Runs /\ \A c \in Crawls : runs'[c] = runs[c]
    BY <2>1, <2>2, SqliteStoreAssumption DEF Migrate, MigrateRuns, IsLegacy, Runs
  <2> QED
    BY <2>3, <2>4 DEF SnapshotsKept
<1> QED
  BY <1>1, <1>2

(* No publisher and no timer touches a snapshot. *)
LEMMA PublisherCounts ==
    ASSUME TypeOK,
           \/ \E w \in Publishers : PublisherStep(w)
           \/ \E p \in Products : LeaseExpires(p) \/ BackoffEnds(p)
    PROVE  SnapshotsKept
<1> SUFFICES ASSUME NEW p \in Products
             PROVE  raw'[p].hash = raw[p].hash
  BY DEF SnapshotsKept
<1>1. raw[p] \in [hash : Versions \cup {None}, state : Status \cup {"absent"}]
  BY DEF TypeOK
<1>2. ASSUME NEW w \in Publishers, SqliteClaim(w)
      PROVE  raw'[p].hash = raw[p].hash
  <2> DEFINE ids == Oldest(SqliteClaimable, BatchSize)
  <2>1. raw'[p] = IF p \in ids THEN [raw[p] EXCEPT !.state = "leased"] ELSE raw[p]
    BY <1>2 DEF SqliteClaim, ClaimRows
  <2> HIDE DEF ids
  <2> QED
    BY <1>1, <2>1
<1>3. ASSUME NEW w \in Publishers, SqliteSettle(w)
      PROVE  raw'[p].hash = raw[p].hash
  <2>1. Kept(p) \/ MarkedPublished(p) \/ MarkedFailed(p)
    BY <1>3, MarkPublishedRow, MarkFailedRow
    DEF SqliteSettle, SqliteMarkPublished, SqliteMarkFailed
  <2>2. \/ raw'[p] = raw[p]
        \/ raw'[p] = [raw[p] EXCEPT !.state = "published"]
        \/ raw'[p] = [raw[p] EXCEPT !.state = "retryable"]
        \/ raw'[p] = [raw[p] EXCEPT !.state = "failed"]
    BY <2>1 DEF Kept, MarkedPublished, MarkedFailed
  <2> QED
    BY <1>1, <2>2
<1>4. ASSUME NEW w \in Publishers, SqlitePoll(w) \/ Send(w) \/ Abandon(w)
      PROVE  raw' = raw
  BY <1>4 DEF SqlitePoll, Connect, Send, Publish, Republish, Abandon
<1>5. ASSUME NEW q \in Products, LeaseExpires(q) \/ BackoffEnds(q)
      PROVE  raw' = raw
  BY <1>5 DEF LeaseExpires, BackoffEnds
<1> QED
  BY <1>2, <1>3, <1>4, <1>5 DEF PublisherStep

(* A step that counts nothing and reports nothing. *)
LEMMA NothingCounted ==
    ASSUME CountsInv, NEW c \in Crawls,
           crawl'[c].yielded = crawl[c].yielded, crawl'[c].persisted = crawl[c].persisted,
           SnapshotsKept, newest' = newest
    PROVE  CountersTell(c)'
<1>1. CountersTell(c)
  BY DEF CountsInv
<1>2. \A p \in Products : RunOf[p] = c => raw'[p].hash = raw[p].hash
  BY DEF SnapshotsKept
<1> QED
  BY <1>1, <1>2 DEF CountersTell

LEMMA NothingReported ==
    ASSUME CountsInv, NEW c \in Crawls,
           crawl'[c].yielded = crawl[c].yielded, crawl'[c].persisted = crawl[c].persisted,
           crawl[c].pc = "closed" => crawl'[c].pc = "closed",
           runs'[c] = runs[c]
    PROVE  ReportFinal(c)'
BY DEF CountsInv, ReportFinal
LEMMA NextCounts == StoreInv /\ CountsInv /\ [SqliteStoreNext]_storeVars => CountsInv'
<1> SUFFICES ASSUME StoreInv, CountsInv, [SqliteStoreNext]_storeVars
             PROVE  CountsInv'
  OBVIOUS
<1>1. /\ TypeOK /\ crawl \in [Crawls -> CrawlType] /\ opened \subseteq Publishers
      /\ DOMAIN runs = Runs /\ DOMAIN newest = Products
      /\ \A c \in Crawls : CountersTell(c) /\ ReportFinal(c) /\ c \in Runs
  BY DEF StoreInv, MigrationInv, CountsInv, Runs
<1>2. ASSUME SnapshotsKept, DOMAIN runs' = Runs, newest' = newest,
             \A c \in Crawls :
               /\ crawl'[c].yielded = crawl[c].yielded /\ crawl'[c].persisted = crawl[c].persisted
               /\ crawl[c].pc = "closed" => crawl'[c].pc = "closed"
               /\ runs'[c] = runs[c]
      PROVE  CountsInv'
  BY <1>1, <1>2, NothingCounted, NothingReported DEF CountsInv
<1>3. ASSUME NEW w \in Publishers, OpenStore(w)
      PROVE  CountsInv'
  BY <1>2, <1>3, EnsureSchemaCounts DEF OpenStore
<1>4. ASSUME NEW c \in Crawls, OpenSpider(c)
      PROVE  CountsInv'
  <2>1. /\ EnsureSchema /\ newest' = newest /\ crawl[c].pc = "new"
        /\ crawl' = [crawl EXCEPT ![c].pc = "opened"]
    BY <1>4 DEF OpenSpider
  <2>2. \A k \in Crawls :
          /\ crawl'[k].yielded = crawl[k].yielded /\ crawl'[k].persisted = crawl[k].persisted
          /\ crawl[k].pc = "closed" => crawl'[k].pc = "closed"
    BY <1>1, <2>1 DEF CrawlType
  <2> QED
    BY <1>2, <2>1, <2>2, EnsureSchemaCounts
<1>5. ASSUME NEW c \in Crawls, OpenSpiderFails(c) \/ FailToParse(c) \/ KillCrawl(c)
      PROVE  CountsInv'
  <2>1. UNCHANGED <<raw, runs, newest>> /\ crawl[c].pc # "closed"
    BY <1>5 DEF OpenSpiderFails, FailToParse, KillCrawl, Fault, vars
  <2>2. \/ crawl' = [crawl EXCEPT ![c].pc = "dead"]
        \/ crawl' = [crawl EXCEPT ![c].unparsed = @ + 1]
    BY <1>5 DEF OpenSpiderFails, FailToParse, KillCrawl
  <2>3. \A k \in Crawls :
          /\ crawl'[k].yielded = crawl[k].yielded /\ crawl'[k].persisted = crawl[k].persisted
          /\ crawl[k].pc = "closed" => crawl'[k].pc = "closed"
    BY <1>1, <2>1, <2>2 DEF CrawlType
  <2> QED
    BY <1>1, <1>2, <2>1, <2>3 DEF SnapshotsKept
<1>6. ASSUME NEW c \in Crawls, RegisterRun(c)
      PROVE  CountsInv'
  <2>1. UNCHANGED <<raw, newest>> /\ crawl[c].pc = "opened" /\ DOMAIN runs' = Runs
    BY <1>1, <1>6 DEF RegisterRun, vars
  <2>2. /\ runs'[c].status = "running"
        /\ \A k \in Crawls \ {c} : runs'[k] = runs[k]
    BY <1>1, <1>6 DEF RegisterRun, NoRun
  <2>3. \A k \in Crawls :
          /\ crawl'[k].yielded = crawl[k].yielded /\ crawl'[k].persisted = crawl[k].persisted
          /\ crawl[k].pc = "closed" => crawl'[k].pc = "closed"
    BY <1>1, <1>6, <2>1 DEF RegisterRun, CrawlType
  <2>4. \A k \in Crawls : CountersTell(k)'
    BY <2>1, <2>3, NothingCounted DEF SnapshotsKept
  <2>5. \A k \in Crawls \ {c} : ReportFinal(k)'
    BY <2>2, <2>3, NothingReported
  <2>6. ReportFinal(c)'
    BY <2>2 DEF ReportFinal
  <2> QED
    BY <1>1, <2>1, <2>4, <2>5, <2>6 DEF CountsInv
<1>7. ASSUME NEW c \in Crawls, CloseSpider(c)
      PROVE  CountsInv'
  <2>1. UNCHANGED <<raw, newest>> /\ crawl[c].pc = "running" /\ DOMAIN runs' = Runs
    BY <1>1, <1>7 DEF CloseSpider, vars
  <2>2. /\ runs'[c].scraped = crawl[c].yielded /\ runs'[c].persisted = crawl[c].persisted
        /\ \A k \in Crawls \ {c} : runs'[k] = runs[k]
    BY <1>1, <1>7 DEF CloseSpider, RunReport
  <2>3. /\ crawl'[c].pc = "closed"
        /\ \A k \in Crawls :
             /\ crawl'[k].yielded = crawl[k].yielded /\ crawl'[k].persisted = crawl[k].persisted
             /\ crawl[k].pc = "closed" => crawl'[k].pc = "closed"
    BY <1>1, <1>7, <2>1 DEF CloseSpider, CrawlType
  <2>4. \A k \in Crawls : CountersTell(k)'
    BY <2>1, <2>3, NothingCounted DEF SnapshotsKept
  <2>5. \A k \in Crawls \ {c} : ReportFinal(k)'
    BY <2>2, <2>3, NothingReported
  <2>6. ReportFinal(c)'
    BY <2>2, <2>3 DEF ReportFinal
  <2> QED
    BY <1>1, <2>1, <2>4, <2>5, <2>6 DEF CountsInv
<1>8. ASSUME NEW c \in Crawls, NEW p \in Products, NEW v \in Versions,
             StoreItem(c, p, v) \/ RefuseItem(c, p, v) \/ DropItem(c, p, v)
      PROVE  CountsInv'
  <2>1. /\ crawl[c].pc = "running" /\ RunOf[p] = c /\ runs' = runs
        /\ newest' = [newest EXCEPT ![p] = v] /\ crawl[c] \in CrawlType
    BY <1>1, <1>8 DEF StoreItem, RefuseItem, DropItem, Yielded
  <2>2. \A q \in Products \ {p} : raw'[q] = raw[q] /\ newest'[q] = newest[q]
    BY <1>1, <1>8, <2>1 DEF StoreItem, RefuseItem, DropItem, Fault, SqlitePersist, TypeOK
  <2>3. \A k \in Crawls \ {c} : crawl'[k] = crawl[k]
    BY <1>1, <1>8 DEF StoreItem, RefuseItem, DropItem
  <2>4. \A k \in Crawls \ {c} : CountersTell(k)' /\ ReportFinal(k)'
    BY <1>1, <2>1, <2>2, <2>3 DEF CountersTell, ReportFinal
  <2>5. ReportFinal(c)'
    BY <1>1, <2>1 DEF ReportFinal
  <2>6. CASE StoreItem(c, p, v)
    <3>1. crawl'[c] = Stored(crawl[c]) /\ raw' = [raw EXCEPT ![p] = SqliteRawRow(v)]
      BY <1>1, <2>6 DEF StoreItem, SqlitePersist
    <3>2. crawl'[c].yielded = crawl[c].yielded + 1 /\ crawl'[c].persisted = crawl[c].persisted + 1
      BY <2>1, <3>1 DEF Stored, CrawlType
    <3>3. raw'[p].hash = v /\ newest'[p] = v
      BY <1>1, <2>1, <3>1 DEF SqliteRawRow, TypeOK
    <3>4. crawl[c].yielded \in Nat /\ crawl[c].persisted \in Nat
      BY <2>1 DEF CrawlType
    <3> QED
      BY <1>1, <2>1, <2>2, <2>4, <2>5, <3>2, <3>3, <3>4 DEF CountersTell, CountsInv
  <2>7. CASE RefuseItem(c, p, v) \/ DropItem(c, p, v)
    <3>1. crawl'[c] = Refused(crawl[c]) \/ crawl'[c] = Dropped(crawl[c])
      BY <1>1, <2>7 DEF RefuseItem, DropItem
    <3>2. crawl'[c].yielded = crawl[c].yielded + 1 /\ crawl'[c].persisted = crawl[c].persisted
      BY <2>1, <3>1 DEF Refused, Dropped, CrawlType
    <3>3. crawl[c].yielded \in Nat /\ crawl[c].persisted \in Nat
      BY <2>1 DEF CrawlType
    <3>4. CountersTell(c)'
      BY <1>1, <3>2, <3>3 DEF CountersTell
    <3> QED
      BY <1>1, <2>1, <2>4, <2>5, <3>4 DEF CountsInv
  <2> QED
    BY <1>8, <2>6, <2>7
<1>9. ASSUME \/ \E w \in opened : PublisherStep(w)
             \/ \E p \in Products : LeaseExpires(p) \/ BackoffEnds(p),
             UNCHANGED <<runs, crawl, newest>>
      PROVE  CountsInv'
  BY <1>1, <1>2, <1>9, PublisherCounts
<1>10. CASE UNCHANGED storeVars
  BY <1>1, <1>2, <1>10 DEF storeVars, vars, SnapshotsKept
<1> QED
  BY <1>3, <1>4, <1>5, <1>6, <1>7, <1>8, <1>9, <1>10 DEF SqliteStoreNext, CrawlStep

(* A completed run whose two counters agree has every snapshot its spider  *)
(* yielded last in the tables, however many crawls share the file, and     *)
(* with whatever was in it before.                                         *)
THEOREM RunsTellLosses == SqliteStoreSpec => []RunTellsLosses
<1>1. CountsInv => RunTellsLosses
  BY DEF CountsInv, CountersTell, ReportFinal, RunTellsLosses
<1>2. StoreInv /\ CountsInv /\ [SqliteStoreNext]_storeVars => CountsInv'
  BY NextCounts
<1> QED
  BY <1>1, <1>2, InitCounts, StoreInvHolds, PTL DEF SqliteStoreSpec
=============================================================================
