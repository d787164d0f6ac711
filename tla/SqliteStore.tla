---------------------------- MODULE SqliteStore ----------------------------
(***************************************************************************)
(* The SQLite store around the outbox: the schema and the migration of the *)
(* tables an older version left in the file, the scrape runs, and the      *)
(* storage pipeline that feeds it.                                         *)
(*                                                                         *)
(* Every process that builds the store (each crawl's open_spider, each     *)
(* publisher) runs ensure_schema; the first one migrates.  The older       *)
(* tables are renamed and kept, so only the version row in                 *)
(* schema_migrations keeps the others from migrating again.  What an older *)
(* file may contain is given by Legacies: no code in the repository writes *)
(* such tables any more.                                                   *)
(*                                                                         *)
(* A crawl yields items one at a time; process_item is synchronous, so the *)
(* pipelines handle one item in one step.                                  *)
(***************************************************************************)
EXTENDS SqliteOutbox
LOCAL INSTANCE SequencesExt

CONSTANTS
    Crawls,      \* crawl processes, each with its own run id
    OldRuns,     \* run ids of the older file
    RunOf,       \* the run a product belongs to (its identity key includes it)
    RawSpecs,    \* the raw_specs of each snapshot: leaves with their path of keys
    Legacies     \* what an older file may contain

Runs == Crawls \cup OldRuns

(* A key is the sequence of its parts between " / ": the flattened name of *)
(* a nested spec joins the keys below its section in the same way.         *)
IsSpec(spec) == /\ spec.path # <<>>
                /\ \A i \in DOMAIN spec.path : spec.path[i] # <<>>

OldRowType ==
    [status : Status, payload : Versions, born : Nat, retry : Nat, due : BOOLEAN,
     lease : {"none", "live", "expired"},
     tries : SUBSET [number : Nat \ {0}, success : BOOLEAN]]

(* The older tables: scrape runs, items, outbox rows with their attempts.  *)
IsLegacy(old) ==
    /\ DOMAIN old.runs \subseteq OldRuns
    /\ DOMAIN old.items \subseteq Products
    /\ DOMAIN old.rows \subseteq Products
    /\ \A p \in DOMAIN old.items : RunOf[p] \in OldRuns /\ old.items[p] \in Versions
    /\ \A p \in DOMAIN old.rows : old.rows[p] \in OldRowType

ASSUME SqliteStoreAssumption ==
    /\ Crawls \cap OldRuns = {}
    /\ RunOf \in [Products -> Runs]
    /\ DOMAIN RawSpecs = Versions
    /\ \A v \in Versions : \A spec \in RawSpecs[v] : IsSpec(spec)
    /\ \A old \in Legacies : IsLegacy(old)

VARIABLES
    db,      \* the older tables, and whether the version row is there
    runs,    \* scrape_runs
    crawl,   \* the crawl processes: the storage pipeline and the spider's counters
    newest,  \* the last snapshot a spider yielded of each product
    opened   \* publishers that have built their store

storeVars == <<vars, db, runs, crawl, newest, opened>>

NoRun == [status |-> "absent", scraped |-> 0, persisted |-> 0, failed |-> 0]

NewCrawl == [pc |-> "new", yielded |-> 0, persisted |-> 0, dropped |-> 0, unparsed |-> 0]

(* What the older publisher called published, RabbitMQ has. *)
SentBefore(old) ==
    [p \in Products |->
       IF p \in DOMAIN old.rows /\ old.rows[p].status = "published"
       THEN {old.rows[p].payload} ELSE {}]

SqliteStoreInit ==
    /\ raw = [p \in Products |-> NoRaw]
    /\ outbox = [p \in Products |-> NoRow]
    /\ attempts = [p \in Products |-> {}]
    /\ pub = [w \in Publishers |-> Idle]
    /\ used = [scrapes |-> 0, replays |-> 0, faults |-> 0]
    /\ \E old \in Legacies :
         /\ db = [old |-> old, applied |-> FALSE]
         /\ sent = SentBefore(old)
    /\ runs = [r \in Runs |-> NoRun]
    /\ crawl = [c \in Crawls |-> NewCrawl]
    /\ newest = [p \in Products |-> None]
    /\ opened = {}

-----------------------------------------------------------------------------
(* The specs of a product.                                                 *)

(* _flatten_specs: the row of one leaf of raw_specs. *)
FlattenSpec(spec) ==
    [section |-> IF Len(spec.path) = 1 THEN <<>> ELSE Head(spec.path),
     name    |-> IF Len(spec.path) = 1 THEN Head(spec.path) ELSE FlattenSeq(Tail(spec.path)),
     value   |-> spec.value]

(* _replace_spec_rows raises when two leaves make one row                  *)
(* (ux_raw_product_specs_identity).                                        *)
Unstorable ==
    {v \in Versions :
        \E spec, other \in RawSpecs[v] :
            spec # other /\ FlattenSpec(spec) = FlattenSpec(other)}

-----------------------------------------------------------------------------
(* The schema.                                                             *)

(* The foreign key of raw_products and the key of its specs: an item whose *)
(* run is gone, or whose specs clash, makes the migration raise, and the   *)
(* whole transaction is rolled back.                                       *)
Migratable ==
    \A p \in DOMAIN db.old.items :
        RunOf[p] \in DOMAIN db.old.runs /\ db.old.items[p] \notin Unstorable

(* item_mapping: an outbox row whose item is gone is skipped. *)
MovedRows == DOMAIN db.old.rows \cap DOMAIN db.old.items

(* _migrate_legacy_scrape_runs. *)
MigrateRuns ==
    runs' = [r \in Runs |-> IF r \in DOMAIN db.old.runs THEN db.old.runs[r] ELSE runs[r]]

(* _migrate_legacy_scraped_products, and the update of publication_state   *)
(* in _migrate_legacy_outbox.                                              *)
MigrateProducts ==
    raw' = [p \in Products |->
              IF p \notin DOMAIN db.old.items THEN raw[p]
              ELSE [hash  |-> db.old.items[p],
                    state |-> IF p \in MovedRows THEN db.old.rows[p].status
                              ELSE IF raw[p] = NoRaw THEN "pending" ELSE raw[p].state]]

(* created_at is kept: the moved rows stay in their order. *)
MovedBorn(p) ==
    IF p \in Persisted THEN outbox[p].born
    ELSE Cardinality({q \in MovedRows : db.old.rows[q].born <= db.old.rows[p].born})

(* _migrate_legacy_outbox copies status, available_at, lease and count. *)
MigrateOutbox ==
    outbox' = [p \in Products |->
                 IF p \notin MovedRows THEN outbox[p]
                 ELSE LET row == db.old.rows[p]
                      IN [status |-> row.status, hash |-> row.payload,
                          payload |-> row.payload, born |-> MovedBorn(p),
                          retry |-> row.retry, due |-> row.due, lease |-> row.lease]]

(* _migrate_legacy_attempts: nothing on conflict. *)
MigrateAttempts ==
    attempts' = [p \in Products |->
                   IF p \notin MovedRows THEN attempts[p]
                   ELSE attempts[p] \cup
                          {a \in db.old.rows[p].tries : \A b \in attempts[p] : b.number # a.number}]

(* A moved row counts as the first scrape of its product. *)
Migrate ==
    /\ Migratable
    /\ MigrateRuns /\ MigrateProducts /\ MigrateOutbox /\ MigrateAttempts
    /\ used' = [used EXCEPT !.scrapes = @ + Cardinality(MovedRows \ Persisted)]
    /\ db' = [db EXCEPT !.applied = TRUE]

(* Mutant: the version row is not looked at. *)
EnsureSchemaEveryTime == Migrate

(* ensure_schema, one transaction. *)
EnsureSchema ==
    IF db.applied
    THEN UNCHANGED <<raw, outbox, attempts, used, db, runs>>
    ELSE Migrate

(* A publisher builds its store before it polls; when that raises it is    *)
(* started again.                                                          *)
OpenStore(w) ==
    /\ w \notin opened
    /\ EnsureSchema
    /\ opened' = opened \cup {w}
    /\ UNCHANGED <<pub, sent, crawl, newest>>

-----------------------------------------------------------------------------
(* The storage pipeline.                                                   *)

(* open_spider builds the store, ... *)
OpenSpider(c) ==
    /\ crawl[c].pc = "new"
    /\ EnsureSchema
    /\ crawl' = [crawl EXCEPT ![c].pc = "opened"]
    /\ UNCHANGED <<pub, sent, newest, opened>>

(* ... which may raise, and then there is no crawl, ... *)
OpenSpiderFails(c) ==
    /\ crawl[c].pc = "new"
    /\ ~db.applied /\ ~Migratable
    /\ crawl' = [crawl EXCEPT ![c].pc = "dead"]
    /\ UNCHANGED <<vars, db, runs, newest, opened>>

(* ... and registers the run. *)
RegisterRun(c) ==
    /\ crawl[c].pc = "opened"
    /\ runs' = [runs EXCEPT ![c] = [NoRun EXCEPT !.status = "running"]]
    /\ crawl' = [crawl EXCEPT ![c].pc = "running"]
    /\ UNCHANGED <<vars, db, newest, opened>>

(* The counters of a crawl after an item was stored, refused, dropped. *)
Stored(k) == [k EXCEPT !.yielded = @ + 1, !.persisted = @ + 1]
Refused(k) == [k EXCEPT !.yielded = @ + 1]
Dropped(k) == [k EXCEPT !.yielded = @ + 1, !.dropped = @ + 1]

Yielded(c, p) ==
    /\ crawl[c].pc = "running"
    /\ RunOf[p] = c

(* ValidatePipeline lets the item pass and the snapshot is persisted; then *)
(* it is counted.                                                          *)
StoreItem(c, p, v) ==
    /\ Yielded(c, p)
    /\ v \notin Unstorable
    /\ SqlitePersist(p, v)
    /\ crawl' = [crawl EXCEPT ![c] = Stored(crawl[c])]
    /\ newest' = [newest EXCEPT ![p] = v]
    /\ UNCHANGED <<db, runs, opened>>

(* Whatever goes wrong in a crawl is one of the MaxFaults. *)
Fault ==
    /\ used.faults < MaxFaults
    /\ used' = [used EXCEPT !.faults = @ + 1]
    /\ UNCHANGED <<raw, outbox, attempts, pub, sent, db, opened>>

(* Mutant: the item is counted before it is persisted. *)
RefuseItemCounted(c, p, v) ==
    /\ Yielded(c, p)
    /\ v \in Unstorable
    /\ Fault
    /\ crawl' = [crawl EXCEPT ![c] = Stored(crawl[c])]
    /\ newest' = [newest EXCEPT ![p] = v]
    /\ UNCHANGED runs

(* persist_snapshot raises and its transaction is rolled back.  Scrapy     *)
(* logs the exception and goes on; no counter of the run sees it.          *)
RefuseItem(c, p, v) ==
    /\ Yielded(c, p)
    /\ v \in Unstorable
    /\ Fault
    /\ crawl' = [crawl EXCEPT ![c] = Refused(crawl[c])]
    /\ newest' = [newest EXCEPT ![p] = v]
    /\ UNCHANGED runs

(* ValidatePipeline drops the item: item_dropped_count. *)
DropItem(c, p, v) ==
    /\ Yielded(c, p)
    /\ Fault
    /\ crawl' = [crawl EXCEPT ![c] = Dropped(crawl[c])]
    /\ newest' = [newest EXCEPT ![p] = v]
    /\ UNCHANGED runs

(* A product page without a product: product_parse_failed_total. *)
FailToParse(c) ==
    /\ crawl[c].pc = "running"
    /\ Fault
    /\ crawl' = [crawl EXCEPT ![c].unparsed = @ + 1]
    /\ UNCHANGED <<runs, newest>>

ItemsFailed(c) == IF crawl[c].unparsed > 0 THEN crawl[c].unparsed ELSE crawl[c].dropped

(* What close_spider reports.  Scrapy writes finish_reason only after the  *)
(* pipelines are closed, so the status is never "failed".                  *)
RunReport(c) ==
    [status    |-> IF ItemsFailed(c) > 0 THEN "partial_failure" ELSE "completed",
     scraped   |-> crawl[c].yielded,
     persisted |-> crawl[c].persisted,
     failed    |-> ItemsFailed(c)]

(* The crawl has run dry or was asked to stop. *)
CloseSpider(c) ==
    /\ crawl[c].pc = "running"
    /\ runs' = [runs EXCEPT ![c] = RunReport(c)]
    /\ crawl' = [crawl EXCEPT ![c].pc = "closed"]
    /\ UNCHANGED <<vars, db, newest, opened>>

(* The process dies, or one of the pipeline's own transactions raises      *)
(* (the database is busy for longer than the timeout).                     *)
KillCrawl(c) ==
    /\ crawl[c].pc \in {"new", "opened", "running"}
    /\ Fault
    /\ crawl' = [crawl EXCEPT ![c].pc = "dead"]
    /\ UNCHANGED <<runs, newest>>

-----------------------------------------------------------------------------
CrawlStep(c) ==
    \/ OpenSpider(c) \/ OpenSpiderFails(c) \/ RegisterRun(c)
    \/ \E p \in Products, v \in Versions :
         StoreItem(c, p, v) \/ RefuseItem(c, p, v) \/ DropItem(c, p, v)
    \/ FailToParse(c) \/ CloseSpider(c) \/ KillCrawl(c)

PublisherStep(w) ==
    SqlitePoll(w) \/ SqliteClaim(w) \/ Send(w) \/ SqliteSettle(w) \/ Abandon(w)

SqliteStoreNext ==
    \/ \E c \in Crawls : CrawlStep(c)
    \/ \E w \in Publishers : OpenStore(w)
    \/ /\ \/ \E w \in opened : PublisherStep(w)
          \/ \E p \in Products : LeaseExpires(p) \/ BackoffEnds(p)
       /\ UNCHANGED <<db, runs, crawl, newest, opened>>

(* The publishers and the timers as in SqliteOutbox; a process that is     *)
(* started builds its store.                                               *)
SqliteStoreFairness ==
    /\ \A w \in Publishers :
         /\ WF_storeVars(OpenStore(w))
         /\ WF_storeVars(w \in opened /\ SqlitePoll(w) /\ UNCHANGED <<db, runs, crawl, newest, opened>>)
         /\ WF_storeVars(SqliteClaim(w) /\ UNCHANGED <<db, runs, crawl, newest, opened>>)
         /\ WF_storeVars(Send(w) /\ UNCHANGED <<db, runs, crawl, newest, opened>>)
         /\ WF_storeVars(SqliteSettle(w) /\ UNCHANGED <<db, runs, crawl, newest, opened>>)
    /\ \A p \in Products :
         /\ WF_storeVars(LeaseExpires(p) /\ UNCHANGED <<db, runs, crawl, newest, opened>>)
         /\ WF_storeVars(BackoffEnds(p) /\ UNCHANGED <<db, runs, crawl, newest, opened>>)
    /\ \A c \in Crawls : WF_storeVars(OpenSpider(c)) /\ WF_storeVars(RegisterRun(c))

SqliteStoreSpec ==
    SqliteStoreInit /\ [][SqliteStoreNext]_storeVars /\ SqliteStoreFairness

-----------------------------------------------------------------------------
(* Properties.                                                             *)

(* A row of the older file only moves forward, however many processes open *)
(* the store and in whatever order: its attempts are never forgotten and   *)
(* its verdict stands.                                                     *)
OldRowsMoveForward ==
    [][\A p \in Products :
         RunOf[p] \in OldRuns /\ p \in Persisted
           => /\ outbox'[p].retry >= outbox[p].retry
              /\ Settled(p) => outbox'[p].status = outbox[p].status
              /\ \A a \in attempts[p] : \E b \in attempts'[p] : a.number = b.number]_storeVars

(* What a finished run tells: when it is "completed" and its two counts    *)
(* agree, the tables hold the last snapshot of every product its spider    *)
(* yielded.  The status alone does not tell: an item that could not be     *)
(* stored shows only in items_persisted.                                   *)
RunTellsLosses ==
    \A c \in Crawls :
        runs[c].status = "completed" /\ runs[c].scraped = runs[c].persisted
          => \A p \in Products : RunOf[p] = c => newest[p] \in {None, raw[p].hash}

(* A row that was leased when the older file was migrated: its holder was  *)
(* a process of the older version.                                         *)
LeasedBefore(p) == p \in MovedRows /\ db.old.rows[p].status = "leased"

(* Every row, scraped or migrated, is settled, unless the publisher that   *)
(* had it crashed or belonged to the older version; neither holds up the   *)
(* other rows.                                                             *)
SettledUnlessStranded ==
    \A p \in Products :
        Unsettled(p) ~> \/ Settled(p)
                        \/ Stranded(p) /\ (used.faults > 0 \/ LeasedBefore(p))
=============================================================================
