# Verification of the Moscraper platform

TLA+ models of the parts of this repository where several actors share state,
TLC configurations that check them on small instances, and TLAPS proofs, for
instances of any size, of the safety of the outboxes, the operator UI, the crawl,
the access layer, the CRM sync pipeline and the operators' verdicts. Every definition of a module is
translated from the Python and SQL it stands for; `PROJECT.json` ("map") names
the lines.

```
cd tla
tlc -workers 2 -config outbox_overlap.cfg MCOutbox.tla     # one run
tlapm OutboxProofs.tla                                     # one module's proofs
```

## 1. The system

Spiders crawl a store's listing and product pages with Scrapy. Each product is
stored as a snapshot in a scraper database (Postgres or SQLite) together with a
row of a *transactional outbox*, in one transaction. A publisher service claims
batches of outbox rows, sends them to RabbitMQ and marks them. A CRM, not part
of the repository, consumes the queue. An operator UI starts and stops crawls
as subprocesses, and a script replays outbox rows. An older path, kept but not
wired into `ITEM_PIPELINES`, sends items to the CRM over HTTP in batches.

```
 site --> spider framework --> storage pipeline --> scraper DB (raw + outbox)
            |  ^                                       |    ^        ^
            v  |                                 claim v    | mark   | replay
      access layer, budgets                     publisher service   operator
            ^                                          |
 UI runner -+ (subprocess)                             v
                                                   RabbitMQ --> CRM
```

### Inventory

| Component | State it keeps | Operations | Meets | What is hard | What makes it correct | Module |
|---|---|---|---|---|---|---|
| Postgres outbox (`postgres_store.py`, migration 0002, `replay_outbox.py`) | `raw_products`, `publication_outbox`, `publication_attempts` | persist_snapshot, claim_outbox_batch, mark_outbox_published/failed, requeue_outbox | scraper, publishers, operator | marks that arrive late, leases that run out, re-scrapes in between | tables agree, what is called published was accepted, nothing gets out of reach | `Outbox`, `Delivery` |
| Publisher service (`services/publisher`) | the batch in hand, the connection | run_once, run_forever, publish | outbox, RabbitMQ | crash between claim and mark, a lost confirmation, half a batch | every row settled in the end | `Outbox` |
| SQLite store (`sqlite_store.py`) | the same tables in one file, scrape runs, schema version | ensure_schema, migrate, register/finish run, persist, claim, mark | crawls, publishers | several processes open an older file, two publishers on one file, a crash | migrated once, no row sent twice, verdicts stand, a run tells its losses | `SqliteOutbox`, `SqliteStore` |
| Storage pipeline and ingestion (`scraper_storage_pipeline.py`, `application/ingestion`) | the scrape run and its counters | open_spider, process_item, close_spider | spider, store | an item lost on the way, a crawl that dies before close | counts agree with rows | `SqliteStore` |
| Spider framework (`spiders/base.py`, `runtime_crawl_registry.py`) | crawl registry, deferred product queue, pages in flight | start_requests, parse, schedule, defer, drain, errback | Scrapy, budgets | callbacks interleave at every yield, lost responses, full budget | nothing requested twice or forgotten, the queue is drained, the crawl ends | `Crawl` |
| Store spiders (`uzum.py`, `mediapark.py`, `texnomart.py`) | sitemap queue, leaf offsets, graph queue, candidate queue | read a sitemap, a leaf batch, a homepage, open a product in a browser | spider framework | several queues emptied by several callbacks | the same, and every sitemap read to its end | `Discovery` |
| Resource governance (`resource_governance.py`, `resource_tracker.py`, `concurrency_policy.py`) | in-flight counters | admit, take and release a slot, downgrade | spider framework, access layer | a slot that is not given back | counters equal what is outstanding | `Crawl`, `Access` |
| Access layer and downloader middlewares | proxy health, leases, per-request retry keys | route, mark a result, retry, replay, solve, escalate | Scrapy, spiders | several middlewares count repeats of one request, a pool that is cooling down | repeats are bounded, a request that goes out again gets a free proxy | `Access` |
| CRM sync pipeline and transports (legacy path) | two queues, outstanding fingerprints, registry, identity bridge, flushes in flight | process_item, flush, apply results, reconcile, requeue, close_spider | CRM over HTTP | overlapping flushes, answers lost or malformed, a batch endpoint that is missing, close during a flush | fingerprints equal what is outstanding, what is skipped was applied, close ends | `SyncDelivery` |
| CRM lifecycle policies (`application/lifecycle`) | none | event type, downgrade, classify a result, reconcile | sync pipeline | a delta without the ids it needs | a delta is about an entity the CRM has | `Lifecycle` |
| Extraction, normalization, payload (`application/extractors`, `application/normalization`, `crm_sync_builder.py`) | none | rows to typed fields, category, brand, model, targets, hash | sync pipeline | the same facts in another order, contradictions, fields that vanish | the hash does not depend on row order, every field is accounted for | `TypedSpecs`, `ProductPayload` |
| Release, readiness, go-live, rollout, observability (`application/release`, `application/readiness`, `application/go_live`, `infrastructure/observability`) | what the operators look at | evaluate gates, contract, health, checklist, cutover, stages | operators, feature switches of a crawl | a loss that goes through several tables and turns into a gain | worse never helps, a failing store is acted on, a first launch is a canary | `Rollout`, `Monitoring`, `Readiness`, `Release`, `GoLive`, `Operations` |
| UI scraper runner (`services/ui_api`) | runs.json, `_processes`, `_stop_requested` | start, stop, watch, refresh, link a run | HTTP threads, watcher threads, subprocesses | stop during start, stop against end, restart, a full pipe | a run that is over is listed as it ended, a stop ends the crawl | `UiRunner` |
| RabbitMQ topology bootstrap | exchanges, queues, bindings | declare, recreate | broker, CRM | a queue recreated while it fills | - | not modelled |
| Security helpers, developer and export scripts | files nobody reads back | - | - | - | - | not modelled |

Everything in this code that a test hardly reaches is listed at its line in
`PROJECT.json` ("hazards"), with the properties that watch it. A hazard without
a property says why.

## 2. Modules

| Module | Content |
|---|---|
| `Delivery` | The abstract specification of the outbox: an order to publish is answered with "published" (only after the broker accepted that payload) or "failed", and the answer stands until the next order. |
| `Outbox` | Postgres tables, scraper, publishers, operator, timers. Ends with the refinement mapping to `Delivery` and the properties. |
| `SqliteOutbox` | EXTENDS `Outbox`; replaces the claim, drops the replay. |
| `SqliteStore` | EXTENDS `SqliteOutbox`; adds the schema and its migration, the scrape runs, the storage pipeline and the crawl that feeds it. |
| `UiRunner` | The operator UI's runner. |
| `Crawl` | One crawl of one store: framework, registry, budgets, deferred queue. |
| `Discovery` | EXTENDS `Crawl`; the sitemap, the leaves, the homepage and the browser pages of Texnomart, MediaPark and Uzum. |
| `Access` | One store's requests: routes, proxy pool, middlewares. |
| `Rollout`, `Monitoring`, `Readiness`, `Release`, `GoLive` | The decisions of the operation as operators over settings and counters. |
| `Operations` | EXTENDS `Access` and `GoLive`: the operators' office, and the crawl that starts under the switches the verdicts leave on. |
| `Lifecycle` | Event types, downgrades and the classification of CRM results, as operators. |
| `TypedSpecs` | Rows of a page to typed fields, as operators. |
| `ProductPayload` | EXTENDS `TypedSpecs`; category, names, payload, hash, and what is required of them. |
| `SyncDelivery` | EXTENDS `Lifecycle` and `ProductPayload`: the CRM sync pipeline and the transport as it sees it. |
| `MCOutbox`, `MCSqliteStore`, `MCCrawl`, `MCDiscovery`, `MCAccess`, `MCOperations`, `MCSync` | The instances for TLC. |
| `OutboxProofs` | Type correctness and the safety invariants of `Outbox`, that it implements `Delivery`, and the safety of `SqliteOutbox`. |
| `SqliteStoreProofs` | Safety of `SqliteStore`, migration included. |
| `UiRunnerProofs` | Safety of the operator UI's runner. |
| `DiscoveryProofs`, `DiscoverySafety` | The crawl of every kind of shop: types, registry and budgets in the first, what is kept and who empties it in the second. |
| `AccessProofs` | Repeats, counters and proxies of a store's requests under the operators' switches. |
| `OperationsProofs` | EXTENDS `AccessProofs`: the verdicts of `Rollout`, `Monitoring`, `Readiness`, `Release` and `GoLive`, and what a step of `Operations` does to them. |
| `SyncProofs` | Memories, deltas, fingerprints and order of the CRM sync pipeline; what the payload says of the rows of a page. |

Operators whose comment calls them mutants are deliberate errors. The runs
never use them; they show that a property notices when the code is broken that
way (`PROJECT.json`, "mutants").

### Outbox

*State.* `raw` and `outbox` hold the columns of a product's two rows that any
statement reads; `attempts` the rows of `publication_attempts`; `pub` the
position of each publisher in `run_once` and the batch it still has to send;
`sent` the payloads the broker has accepted. `event_id` is a function of the
run and the product, so the product names the row.

*Actions.* One database transaction is one action: `Persist`, `Claim`,
`MarkPublished`, `MarkFailed`, `Requeue`. `Poll` is `has_claimable_outbox_rows`.
`Publish` and `Republish` are the two tries of `RabbitMQPublisher.publish`: the
contract check may refuse the event (fatal), the broker may confirm, the
connection may be lost before or after the broker took the message, the broker
may return it, and the fresh connection may fail. `Abandon` is an exception
that leaves `run_once` or the death of the process: the leases stay. Time is
reduced to what the queries compare: `LeaseExpires` and `BackoffEnds` may
happen at any moment, so leases may run out while their holder is at work.

*What the marks do not check.* Neither mark looks at the row's status, its
lease or its owner. A late mark therefore overwrites whatever the row is by
now: a failure report can end a row another publisher has published, a success
can end one that had failed for good, and `retry_count` can pass the maximum.
The model does exactly that; the invariants below hold in spite of it, and
`outbox_lost_update` shows what does not.

*Documentation.* The docs mention `pending` and `retryable` as the rows to
claim; the Postgres store also takes over rows whose lease has expired, and so
does the model.

### SqliteOutbox

The status `publishing` of the SQLite tables is written "leased". The claim
takes waiting rows only (its look at the lease concerns rows that have none),
`begin immediate` serialises the claims, there is no replay, and a busy
database is a fault like any other.

### SqliteStore

Every process that builds a store runs `ensure_schema`: `OpenStore` for a
publisher, the opening of a spider for a crawl. The first one migrates an older
file; the older tables are renamed and kept, so that only the version row keeps
the others from migrating again. What an older file may contain is a constant,
because no code in the repository writes such tables any more: rows in every
status but "failed", items that were never queued, rows without an item (skipped), items
without a run or with clashing specs (the migration raises and rolls back, and
the store cannot be opened). A spec clash is what the unique index says: a nested key and a
key that contains " / " give the same row. Run ids are fresh.

A crawl yields items one after another; the pipeline handles an item in one
step, and may lose it in each of the ways the code knows (validation, an
exception of the store, a drop). `persist` exceptions are not counted as
failures by the spider's statistics, so a run can be "completed" although items were lost: only
`items_persisted` tells, and that is what `RunTellsLosses` says. A crawl that
dies leaves its run "running" for ever; nothing in the code closes it, so no
property promises that a run ends. `finish_reason` is written by Scrapy after the
pipelines close, so the status "failed" never occurs. Timestamps are all
written in UTC by one function; that their texts compare like the times is
assumed.

### UiRunner

Every HTTP request is a thread and every run has a watcher thread; the model
has a program counter for each. A step is one call of the registry (which has a
lock of its own) or one block under the runner's lock. A crawl yields up to
`MaxItems` items. It saves one (perhaps again) and prints a line for it into a
pipe of `PipeSize` lines, or loses it; at its end it may log its totals
(`Report`), and ends with or without them. When the pipe is full and nobody
reads, the crawl blocks. The watcher counts different products (`Noted`) until
the line with the totals replaces its count; `Ended` takes the watcher's
numbers, or what is listed where they are zero. Every call of `start`, the
patch in `stop` and the last patch of the watcher may raise (`StartFails`,
`ShowStopping`, `Conclude`), and so may the reading of a line (`ReadFails`).
What was done before stays: a crawl whose watcher never started runs on, in the
table, with nobody to read its output (`Unread`); a stop request that failed
before `terminate()` has ended without an effect but its mark. `Restart` is the death and the new start of the
server: threads and tables are gone, `runs.json` stays, a crawl may survive.
`Look` and `Link` are `enrich_run`, which writes back what it read before
searching the log and the database. That the database search may pick the
scrape run of another crawl of the same store is left out, and so are durations
and warning counts.

### Crawl

Scrapy callbacks are generators: whenever one yields a request, another may go
on. A callback is a sequence of steps, one for each link it looks at
(`FollowLink`, `FollowSubcategory`, `Paginate`) or each turn of the drain
(`DrainOver`, `DrainKnown`, `DrainRequest`). The model interleaves at every
link, also at those that yield nothing: it has every interleaving of the code
and some more, which is sound for the safety properties. `listing` and
`product` hold each page's request, response and callback; `known` is the
registry; `inflight` the tracker's counters, `pending` the deferred queue.

Requests that come to nothing (errback, a response the download guard rejects,
a product URL that shows an empty listing) are `LoseListing` and `LoseProduct`;
retries happen below the spider and keep the slot. Scrapy's dupefilter drops a
second request for a page; neither `parse` nor the errback hears of it, so the
slot it took is counted in `filtered`. A product URL without a source id is a
source id of its own. The GLOBAL limit is that of one store in one process.
The retryable queue of the CRM path, which would refuse requests too, is empty
because that path is not installed. The registry of 50,000 entries never evicts
in the model.

### Discovery

Texnomart's homepage callback reads the sitemap into a queue of the store's
own; MediaPark's reads an index of leaves, each asked for again (without a
slot) until its products are used up; Uzum's opens products in a browser for
the products they show and defers what is not admitted to a graph queue and a candidate
queue. A callback is, as in `Crawl`, a sequence of turns; `drain` says which
queues it still has to empty. Listings of categories interleave at every link;
the homepage, when it is read as a listing, interleaves more in the model than in the code.

What the code forgets, the model forgets: a next page, a seed or a subcategory
that is not admitted is not kept; candidates beyond the fan-out limit are
dropped; the loss of a leaf loses the rest of it, and a first leaf that is not
admitted means that no leaf is read. `Excused`, `Endless` and `LeavesRead` name these
cases, so that the properties say exactly how far the code's promise goes. A
leaf whose next product the policy refuses is requested for ever (`Endless`).

### Access and Operations

`Access` follows the requests of a crawl: `Schedule` is schedule_safe_request
with the store's own changes to the meta and the budgets' downgrade; `Respond`
is one answer on its way through the three downloader middlewares, which retry,
replay as a desktop, solve a captcha or escalate to a browser or a proxy, each
with its counter in the meta; `Disconnect` is a download that fails;
`CooldownEnds` is time. Which proxy the ranking picks is left open. A
sticky proxy is leased to a domain; a repeat by the access middleware does not
say which, and has a lease of its own (`Domains`). That a proxy is dropped for
the sake of its target does not happen here: `schedule_safe_request` has let
only the store's own URLs through before. The meta is
handed to the next page and to the products, counters included. Delays, headers
and the monitoring of ban spikes are left out.

`Operations` puts the operators before that crawl. `office` is what they look
at: missing files, gates, confirmed and denied statements, counters of the
stores, the payload's contract, the stages. A step changes one of these;
`Launch` fixes the switches the rollout gives the store and starts the crawl of
`Access`. Nothing in the code makes a launch wait for the verdicts; the model's
operators do what the verdicts say. The health snapshot gives every store the counters its
own crawl had; the code gives every store the counters of the whole process, which agree when a process
crawls one store, as the runner starts them.

`WorseNeverHelps` compares the verdicts before and after a step that is for the
worse (`Worse`): a missing file, a withdrawn word, bad news, a failed gate and
a counted failure are; a change of the payload is when it brings it no closer
to the baseline in the eyes of either judge (`Damage`), adds no other field
and bridges no other rename; a change of the counters is when no rate got
better, of one store or of all together (`NoneBetter`). The last condition is
there because counters of one failure may improve another rate: there is more
to divide by, and the rate of all stores may fall while that of each one rises.
Of the roadmap's blockers the property follows those that stand for a gap or
an entry of the checklist (`GapBlockers`). A roadmap without gaps shows three
seeded blockers (`Seeds`), and the first file that is lost takes them away:
a project that lacks one document may have fewer blockers listed than one that
lacks nothing. Reports read the list, and an item of the cutover checklist that does not block
(`cutover.roadmap_canary_readiness`).
Two more exceptions are written into the property, and each is needed. A high alert that turns
critical leaves the budget of the high ones (`stabilization_plan.py:77-81`),
so the outcome may improve unless every critical alert counts. With the guard
on and blockFailing off, a failing store gets back the sensitive features a
degraded one loses.

### SyncDelivery, Lifecycle, TypedSpecs, ProductPayload

The pipeline is asyncio code in one process: a step ends at an await, that is
at the sleep of a throttled flush and at each HTTP request. `Boarded` takes a
batch, `SendBatch`/`SendOne` are the requests with every answer the transport
can turn them into, and what follows an answer up to the next request is one
step. The CRM may be busy, refuse, apply a request whose answer is lost, answer
with too few rows, or have no batch endpoint. An answer that comes from another
host than the one asked is a 400 or a 502 for the pipeline, though the CRM may
have applied the request. `SyncPipeline` is not in `ITEM_PIPELINES`; it is the
CRM path the tests construct.

A row of characteristics is its normalised label and its text; a text is its
numbers with units, a word that decides (yes, no, dual, ...) and its words.
Values are whole numbers (tenths of an inch, grams, millilitres). The
candidates of the fields are a set of records, each with the place of its row
and the field the row was read for; where the code looks at their order (the
first one, the surest one) the operators compare the places. The operators
follow the code from the alias rules to the checks across fields, and to the payload and
its hash, which sorts keys and warnings but not the devices an accessory is
for. `reading` is the page a spider reads: `OpenPage` and `ReadRow` (in
`SyncDelivery` composed as `ReadPage`) build its table row by row, and the
properties of the payload hold after every row. A label counts once as it is
spelled, but two spellings may have one normalised form, so the same row may
come twice. What is read does not depend on the state of the pipeline;
therefore pages are read before the first item only. `settings.mapped` are the
stores `typed_specs_mapping` is rolled out to.

A few facts of this code a reader will notice: RAM values of 65 to 128 are
always taken for storage; the pattern for watts holds garbled Cyrillic, so
that "Вт" is not a unit; a refresh rate with its unit is believed whatever it
is; the category check of the compatibility targets changes nothing.

## 3. Runs

Twelve runs; every property of a passing run has a mutant that breaks it.

| Run | Question | Instance |
|---|---|---|
| `outbox_overlap` | Do the tables stay consistent and is every product settled, with two publishers whose leases overlap, re-scrapes, a replay and a crash? | 1 product, 2 snapshots (one the contract refuses), 2 publishers, 3 scrapes, 1 replay, 1 fault, 2 tries |
| `outbox_promise` | Does the outbox keep the promise of `Delivery`, fairness included? | 2 products in batches of 2, 1 publisher, 2 scrapes, 1 replay, 1 fault |
| `outbox_lost_update` | (violation) A row called published holds the newest snapshot. | 1 product, 1 publisher, 2 scrapes |
| `outbox_history` | (violation) Attempts are only appended. | 1 product, 1 publisher, 2 scrapes |
| `sqlite_exclusive` | On SQLite, with an older file, a crawl and two publishers that may all migrate it: does only one publisher hold a row, is a verdict final, do older rows only move forward, does a run tell its losses, is every row settled unless its publisher died? | `MCSqliteStore`: 9 older files, 1 product of an older run and 1 of a crawl, 2 publishers, batches of 2, 2 scrapes, 1 fault or loss |
| `sqlite_stranded` | (violation) Every product is settled, crash or not. | 1 product, 1 publisher, 1 fault |
| `ui_runner` | Do list, table and processes agree whatever the threads do and whichever of their calls fails? | 1 run, 1 stop request, 1 viewer, 2 products, 2 items, a pipe of 1 line, 1 fault, 1 restart |
| `ui_stop` | (violation) A stop request ends the crawl. | 1 run, 1 stop request |
| `crawl` | Is the budget kept, nothing requested twice or forgotten, every queue drained, every sitemap read, and does the crawl end? | `MCDiscovery`: 9 shops (categories, sitemap, leaves, browser graph, and mixtures) of 7 listings, 6 URLs, 3 leaves; budgets of 3 or 4; 1 failure |
| `crawl_repeats` | (violation) Pagination stops when pages repeat. | 4 pages with the same products |
| `sync` | Do the fingerprints equal what is outstanding, was everything that is skipped applied, does an entity only go back by a repeat, does close end; and does the payload not depend on the order of rows? | `MCSync`: 1 entity with 3 snapshots, 3 settings, 3 items, batches of 2, 2 requests; every table of up to 3 of 17 rows on 3 pages of 2 stores |
| `operations` | Are repeats bounded and counters right for 5 stores under the switches of 3 policies; does worse never help, is a failing store acted on, is a first launch a canary, does every request end? | `MCOperations`: 4 requests, 2 proxies (1 refused), at most 2 changes of what the operators look at before a crawl starts |

*The bounds, and why they are enough.* Rows of different products meet only in
a batch, so one product with two publishers shows every overlap, and two
products in one batch show everything about batches. Three scrapes let a
product be scraped while it is being sent and again after a failure; two tries
have a first, a last and a surplus one. A snapshot that the contract refuses
gives the fatal branch. In `ui_runner` a run has its own entry, process and
threads, so one run suffices; the stop request may come at any moment from the
listing on, and a second one adds nothing but another mark. Two items of two
products are the least for which different products, saves and yielded items
are three different numbers, and fill a pipe of one line twice. In `crawl`, there is one seed more than the
listing budget, one product more than the product budget, a subcategory that is
also a seed (so that the dupefilter drops a request), a listing that is its own
next page, an empty page, and one turn for each drain, so that the queue needs
several; a leaf has more products than a batch, a browser page shows more than
the slots that are free. The budgets leave room for one product beside all
listings and browser pages, as those of `config/store_resource_budgets.py` do;
`QueueHasDrainer` depends on it. In `sync` one entity is enough because
fingerprints, memories and ids are kept per entity; three items, two of which
may be equal, fill a batch and leave one behind. The tables of up to three rows
contain every pair of rows with a bystander. In `operations` two changes let
something get worse after something else has changed, which is what
`WorseNeverHelps` is about; `RETRY_TIMES` is 2 instead of 4, for a limit that is
reached. Counters (scrapes, replays, faults, restarts, failures) are capped in
the guards by the constants named so.

*Fairness.* Weak fairness of every publisher's steps: `run_forever` polls again
after every exception and every call returns or raises. Weak fairness of
timers: time passes. No fairness of scrapes, replays, faults. In `UiRunner`
threads run on (or end with the error they met), and a crawl that was told to end does so unless it is blocked
(strong fairness of the exit of a crawl that was told: it needs room in the
pipe, which comes and goes); stop requests come when they like. In `Crawl`
every callback goes on and every request is answered, or lost, because Scrapy
has a download timeout. In `Discovery` it is enough that seeds, that some
callback of a listing, product or browser page, and that each leaf's callback
go on. In `Access` every request ends, with an answer or its timeout, and
cooldowns end when they like: nothing waits for a proxy. In `SyncDelivery` each
flush goes on (a request has a timeout, a sleep ends), and the final flushes of
close_spider are made; items come when they like. In `SqliteStore` processes
that were started open the store, and a crawl registers its run; that it ever
ends is not assumed. `CHECK_DEADLOCK FALSE` stands where the system really
stops: the bounds are spent and everything is settled.

*Disagreements found.* Five, each with a violation run and quoted in
`PROJECT.json` ("findings"):

- a mark that lands on a re-scraped row calls the new snapshot published, and no
  event for it is ever sent;
- a re-scrape numbers attempts from 1 again and overwrites the old ones;
- on SQLite the row of a dead publisher is never claimed again;
- a stop request between the listing of a run and the registration of its
  process is forgotten;
- the listing signature contains the page number, so repeated pages are never
  duplicates.

More facts the models show, which no document contradicts:

- a listing slot is leaked whenever the dupefilter drops a request (`filtered`
  in `SlotsAreHeld`); deferred products are left behind when the last outstanding
  product requests fail, or when a URL the policy refuses is at the head of the
  queue (`Excused`), and Uzum's graph queue is emptied by few answers;
- on SQLite a row that was leased in an older file stays leased for ever, and
  an older item without a row stays pending for ever;
- the resend of a reconciliation is always dropped, because the fingerprint of
  the first event is still outstanding; an older payload can overwrite a newer
  one by a repeat or an overlap (`OlderOnlyByRepeat` says when); a raise in
  close_spider loses the queue; a full retry queue pauses flushes until the end;
- an error in the patch to "stopping" ends a stop request before `terminate()`;
  one in the patch to "running" leaves a crawl without a watcher, and it blocks
  when its pipe is full; a watcher that left its loop waits without reading.
  `StopEndsCrawl` holds but for these cases, which it names (`Jammed`);
- the number of items of an ended run means two things: the crawl's totals,
  which count a product again when it is saved again, when the crawl logged
  them, and the number of different products when it did not (`ItemsCounted`);
- a cap on the events one batch takes from the retry queue
  (CRM_BATCH_MAX_RETRYABLE_ITEMS_PER_FLUSH) lets new events overtake repeats,
  which `OlderOnlyByRepeat` allows; a cap of 0, which settings accept, would never send
  them again, and only the limit of 2000 rounds would end the close;
- the hash depends on the order of rows in the exceptions of
  `ReorderedPageIsTheSame`, each of which is needed: TLC finds a table for each
  when it is left out;
- the ban score of a proxy is never reset, a failing connection never marks a
  proxy, and when all proxies cool down a request goes out without one;
- the guard of the feature rollout, with blockFailing off, gives a failing
  store the sensitive features back that a degraded one loses; the callers of
  is_feature_enabled pass no status, so the guard never acts at runtime; no
  code asks can_store_run or the go-live decision: they are advice;
- GO_LIVE_REQUIRE_READINESS_READY is on by default and makes
  "go_with_constraints" unreachable; an approved canary exception satisfies the
  cutover item but not the exit criterion.

## 4. Proofs

For every value of the constants, from the modules' named assumptions:

| Theorem | Statement |
|---|---|
| **`Outbox`** (`OutboxProofs`) | |
| `TypeCorrect` | `Spec => []TypeOK` |
| `TablesAlwaysAgree` | the raw row repeats status and hash of the outbox row |
| `UnsettledAlwaysReachable` | a pending row is due, a leased row has a lease that can run out |
| `RetryableAlwaysHasTriesLeft` | a retryable row has tries left |
| `LedgerAlwaysComplete` | the attempt rows account for `retry_count` |
| `PublishedAlwaysWasSent` | what is called published was accepted by RabbitMQ |
| `OnePublisherKeepsPromise` | with one publisher every step is one of `Delivery` or changes nothing there |
| **`SqliteOutbox`** (`OutboxProofs`) | |
| `SqliteTablesAgree`, `SqlitePublishedWasSent` | the same on SQLite |
| `AlwaysExclusive` | two publishers never hold one row unless its product was scraped again |
| **`SqliteStore`** (`SqliteStoreProofs`) | |
| `StoreExclusive` | the same, whatever an older file held and whoever migrated it |
| `StoreVerdictIsFinal` | a verdict stands until the product is scraped again |
| `OldRowsAlwaysMoveForward` | a row of an older file never loses retries, attempts or its verdict |
| `RunsTellLosses` | a completed run whose counts agree has everything it yielded in the tables |
| **`UiRunner`** (`UiRunnerProofs`) | |
| `LiveRunAlwaysFound` | a crawl that was registered is in the table until it ends, whatever fails later |
| `EndedNeverRunning` | a run that was concluded is never listed as running again |
| `EndingAlwaysTrue` | what a run is listed to have ended with is what happened |
| `ItemsAlwaysCounted` | the numbers listed for an ended run are its crawl's logged totals or, without them, the number of different products it saved |
| **`Crawl` and `Discovery`** (`DiscoveryProofs`, `DiscoverySafety`) | |
| `CrawlAlwaysInv` | the inductive invariant of a crawl, types included |
| `SlotsAlwaysHeld` | every slot is held by one outstanding request or was leaked by the dupefilter |
| `AlwaysRequestedOnce` | of the URLs of one product one is requested |
| `AlwaysWithinBudget` | the outstanding requests stay within the budgets |
| `NothingEverForgotten` | what was read was requested or waits in a queue |
| `QueueAlwaysHasDrainer` | a queue that holds something has somebody who will empty it |
| **`Access`, `Operations`** (`AccessProofs`) | |
| `TrackerAlwaysMatches` | the budget's counters are those of the requests that are out |
| `ProxyAlwaysFree` | a request that is sent again through a proxy has a usable one |
| `RepeatsAlwaysBounded` | a page and those that led to it are repeated no more often than all limits together |
| **`Operations`** (`OperationsProofs`) | |
| `FailingAlwaysActedOn` | a failing store is acted on wherever its status is looked at |
| `LaunchAlwaysCanary` | a first launch finds every store on the canary stage and switches on nothing outside the canary's buckets |
| `DeclineNeverHelps` | when something gets worse and nothing better, no verdict improves, no gap or entry of the checklist leaves the roadmap's blockers and nothing new is permitted |
| **`SyncDelivery`** (`SyncProofs`) | |
| `SyncInvariant` | the inductive invariant of the pipeline, its flights and the CRM |
| `RememberedIsApplied` | what is skipped as already sent was applied |
| `DeltasKnowTheirEntity` | a delta that waits or flies is about an entity the CRM has |
| `OutstandingAlwaysLive` | each fingerprint belongs to exactly one event that waits or flies |
| `OlderIsARepeat` | the CRM goes back to an older snapshot only by a repeat or an overlap |
| `FieldsAlwaysAccountedFor` | what the rows of a page give a field is typed, as some row says and as sure as the category asks, or suppressed with a reason, never both |
| `AgreementAlwaysHelps` | one more row that confirms a typed field costs it neither value nor confidence |

### What is assumed of the constants

- `OutboxAssumption`: finitely many products, `None` is no snapshot, positive
  limits. `SqliteStoreAssumption`: an older file holds rows of the tables' types.
- `RunnerAssumption`: finitely many products (the count of the saved ones is a
  number), a line with the totals that is none of theirs, and a pipe with room
  for a line.
- `CrawlAssumption`: pages, listings and other callbacks are different things;
  the graph of links is any graph; a budget leaves room for a product beside
  all listings and browser pages. `DiscoveryAssumption`: which drains the
  callbacks of each kind of shop run, as the three spiders have it, and one slot
  more where a shop reads leaves. The budgets of
  `config/store_resource_budgets.py` satisfy both; `QueueHasDrainer`
  would be false without them.
- `AccessAssumption`: requests form a forest (a page is found before it is
  requested), limits are natural numbers, the stores have the fields of
  `StoreType`.
- `OperationsAssumption`: finitely many stores (their counters are added up and
  those under stress counted); thresholds and budgets are natural numbers, as in
  `config/settings.py`; what the operators may take back is not bad news; every
  feature the registry knows that a crawl asks about supports the canary, as the
  five entries of `config/feature_flags.py` do (only store_acceptance_enforced
  does not, and a crawl never asks for it).
- `SyncAssumption`: an answer is one of the rows the classification
  distinguishes, a snapshot has a payload, and the flights the settings allow are
  at most `MaxFlights`.
- `TypedSpecsAssumption`: the registry has finitely many rules and a policy for
  pages of unknown category, and who may have memory may have storage: a
  category that enables `ram_gb` enables `storage_gb`, a store that disables
  `storage_gb` disables `ram_gb`. The code moves a memory that cannot be RAM to
  `storage_gb` without asking again whether that field is wanted; the lists of
  `spec_registry_common.py` have both or neither, and no store disables one.
  `PayloadAssumption`: the categories' vocabularies are those of
  `category_inference.py`, and the words of a row are a sequence.

TLC evaluates all of them on each run's instance.

### The arguments

*Outbox.* `TypeOK` is already strengthened to be inductive: a publisher that
is sending has a non-empty list of messages about rows that exist. The other
invariants use it. `TablesAgree`, `UnsettledIsReachable` and
`RetryableHasTriesLeft` are inductive row by row (`RowSteps` says what a step
can do to one row). `LedgerComplete` needs that attempt numbers are positive and
that a new attempt replaces the one of its number (`LoggedCompletes`).
`PublishedWasSent` is not inductive: a mark needs to know that the message was
accepted before, so it is proved with `ConfirmedWasSent` (a publisher in
"confirmed" holds a message the broker accepted), which is stable because
`sent` only grows.

*The refinement.* With one publisher, a mark finds the row "open" only if
nothing else settled it since the claim. The invariant `Awaited` says that: an
idle publisher has no batch, the rows of a batch are pending or leased, and no
product is named twice in it. Joined with `ConfirmedWasSent` it maps each mark to
`Conclude`, each acceptance to `Accept`, a scrape or a replay to `Order`, and
the rest to a stutter. This is the safety half of `KeepsPromise`; its fairness
half stays with TLC. With two publishers the refinement is false
(`outbox_overlap` is about what holds then).

*SQLite.* The two backends share the steps but not the claim. The proofs go
through `LooseNext`, where a claim leases any finite set of existing rows;
`Next` and `SqliteNext` both imply it, and an invariant of `LooseSpec` is one of
either. What depends on the claim's condition is proved for SQLite alone:
`AlwaysExclusive` needs `HoldInv` (a held row is leased, no batch names a row
twice, no two publishers hold one row, all while every product was scraped
once) and `ScrapesCounted` (no more products than scrapes), which makes
"scraped again" visible in a counter.

`SqliteStore` adds the migration. Its invariant `StoreInv` joins `TypeOK`,
`ScrapesCounted` and `HoldInv` to `MigrationInv`: until the version row is
there the tables are empty and nobody has opened them. Without that conjunct a
migration could fill tables a publisher already holds rows of. `MigrateKeeps`
then shows that it makes rows of the right type which nobody holds, and every
other step is one of `SqliteOutbox` or leaves the tables alone.
`StoreVerdictIsFinal` is an action property from the same invariant: a mark
comes from a holder, a holder's row is leased, and a leased row is not settled.
For `OldRowsAlwaysMoveForward` the invariant is stated for any set of products
nobody scrapes (`Held(S)`): an older file's products have no crawl. For
`RunsTellLosses`, `CountsInv` relates a run's two counters to the items that
were lost on the way. Proving it for many crawls showed the property as
first stated, over all products at once, to be false with two crawls, one
of which loses what the other one counts; it is now stated of each crawl's
products.

*UiRunner.* `LifeInv` relates, for each run, the starting thread, the process
and the watcher: who has not got further cannot have a process, and a watcher
that has waited for one has seen its death. `RequestInv` says that a crawl that was
told to end stays in `_stop_requested` until its watcher has judged it, and that
nobody is in it whom no stop request named. `CountInv` says that what a crawl
saved or reported has been counted by its watcher or is in the pipe, which is
empty when a watcher that read to the end concludes, that the totals come last,
and that the entry repeats the watcher's numbers: the patches of the other
threads write fields of their own.

*Crawl and Discovery.* `CrawlInv` has the types, `RegistryInv` (what was
requested is registered, under its URL and its source id), `BudgetInv`, the
counters against the cardinality of the sets of requests that hold a slot, and
`LeafInv` (one leaf at a time). The thirty or so actions are first reduced
to nine effects on states, slots and registry (`Effects`), for which the counting
is done once. `SafetyInv` adds how far each callback has read (`PageRead`,
`SitemapRead`, `LeavesReadUpTo`, `CandidatesSeen`) and that what it passed is
requested, excused or queued (`Remembered`), and, for each queue, a request
that will empty it or a callback that is about to. The heart of
`QueueAlwaysHasDrainer` is that a drain stops early only when the budget is
full, and a full budget has an outstanding product, because listings and browser
pages alone cannot fill it.

*Access.* `AccessInv` says that the counters in a request's meta stay
within their limits and that what a request was sent again, plus what it
inherited from its parent's meta, is what its meta has spent. The bound on the repeats
of a page together with its ancestors follows by induction on the
rank of the page in the forest, written as the absence of a least counterexample.

*Operations.* `OfficeInv` has the types of what the operators look at; the rest is
about the tables. `FailingAlwaysActedOn` rests on one fact about two of
them: a store is failing only if a threshold whose own severity is critical is
breached (`FailingIsCritical`), and the alert's severity is the worse of that and
the distance, so there is a critical alert for whoever looks at the alerts.
`LaunchAlwaysCanary` follows the decision back to the scope criterion
and the stage down to the bucket.

`DeclineNeverHelps` is a chain of monotonicity lemmas. A step that is for the
worse is first shown to be one (`ChangeWorsens`): policy kept, files only lost,
gates only failed, counters only grown, words taken back and bad news told
(`Retracted`). With `Worse` that gives `Sunk`, which holds of every table
read later. *Health*: a rate that got no better keeps its breach
(`BreachStays`), and its distance from the threshold only grows
(`DistanceGrows`), so alerts stay and get no milder (`AlertStays`). The number of items
needs the counters' growth: an item too few is a warning, none at all only an
info, so a fall to zero would help; counts never fall. For
the run, the counters of all stores are added up: `MergedGrows` reads the sum
as a function on subsets (`Total`), and the two stores under stress are
counted by the cardinality of a larger set. *Outcome*: each trigger and each failed window stays.
*Readiness*: a lost file makes no item ready (`ItemSinks`) and
unblocks nothing; a phase looks at the worst status of a domain, where partial
beats not started, so an item that falls from partial to not started might
free a domain. It cannot, because the phases that ask for "ready" ask it of
guarded domains, which then block (`GuardedIsReady`), of the crawl domain,
whose items each have one file (`CrawlIsNeverPartial`), or together with an overall
"ready". *Contract*: the level of a payload is breaking or not and compatible
or not by conditions that only damage adds to (`ChangesAre`). *Launch*: gates,
criteria and cutover items that were not met stay so, the canary scope
included, which is the operators' word once they gave one (`CanarySinks`).

TLC found the first statements of this property false, and the proof found
more: a field that turns from int to float breaks one judge of the contract and passes
the other, more items lower the other rates, and the sum of the counters may
improve while no store does. `Worse` says now what it leaves out.

*Sync.* `SyncInv` says of the pipeline that its memories name only what the
CRM took, of a flight that what it counts as a success the CRM took
(`Honest`), of every event that a delta has the ids it needs (`Aware`), and of
the fingerprints that they are those of what waits or flies, each once (`Tidy`,
`LiveIn`). `Carrying` keeps this for a flight between its answer and the end of
its results, where the pipeline is changed item by item: the lemmas about
one result (`ProcessItem`) are lifted to a batch by the absence of a
first item that breaks them. That a resend is always dropped is
what makes the fingerprints unique: the event it repeats is still outstanding.

`OrderInv` adds the order of the queues. A number has *left* when every event
that was never sent is newer (`Left`); what was put back, what flies and what
the CRM holds has left, so a first try that waits is newer than all of it. In a
flight, a first try is newer than what precedes it (`Rising`: a batch takes the
retry queue first, then the oldest of the pending ones). While nothing disturbed a
flight it is alone at work (`Solitary`), and its first tries still to be answered are
newer than what the CRM holds (`Ahead`). An older snapshot therefore comes back only by
an event tried before, or in a flight that repeats a request or was overlapped.

*Typed fields.* A page is read row by row, so `PageInv` (the table is a
sequence of rows) is all the invariant there is; the work is in the operators.
`Evidence` is what the candidates of a table have in common: finitely many,
each a number with a score, and one row says one thing of a field, although a
label may stand for memory and for storage (`ReadIsEvidence`, from the
normalisers' range in `TextIsRead`). `ResolveIs` says when candidates are
typed (`Typed`), as what (`Chosen`), and on whose word (`Supporters`).
`FieldsAddUp` then follows a field through resolution and the checks across
fields. For one more row that agrees, `AgreementKeeps` compares the candidates
without and with it: the first row stays the first, the surest value stays,
who supported it still does, and the best score and the number of supporters,
all that the confidence depends on (`MergedGrows`), only grow. `RowAgrees`
lifts that to tables.

### Model-checked only

- Liveness under fairness, which the prover does not do: `EventuallySettled`,
  the fairness half of `KeepsPromise`, `SettledUnlessStranded`,
  `StopEndsCrawl`, `EndIsListed`, `CrawlFinishes`, `SyncEnds`, `RequestsEnd`.
- `ReorderedPageIsTheSame`: brand, model, targets, category and the joined text
  are read with `SelectSeq` and `FlattenSeq`, recursive operators the prover has no
  facts about, for two orders of a table of any length.

## 5. Not modelled

- What a selector reads from a page, and the classification of products in
  `product_classifier.py` beyond the brands: data of the models.
- Fields of text, prices, barcodes, pictures, descriptions, and the acceptance
  reports of `application/qa`.
- Image rows, their counters, and the spec rows but for their clashes: written
  and deleted with the snapshot in its transaction. On Postgres, the scrape
  runs, which `SqliteStore` models for SQLite.
- The RabbitMQ bootstrap. A queue that is empty but of another shape is deleted
  and declared again: what is routed to it in between is lost, and what arrives
  between the look and the deletion, too. It is run by hand before anything else.
- In `Access`: delays, headers, the monitoring of ban spikes. In
  `SyncDelivery`: the trimming of caches, the replay journal (what it holds
  is only logged), the limit of 2000 flush rounds. In `Crawl`: the eviction from a
  registry of 50,000 entries.
- The web page of the operator UI: overlapping polls of its logs.
- Read-only endpoints, reports, logs, metrics, traces, exports, security helpers.
- The CRM: not in the repository.

## 6. Plan

1. An abstract specification of the sync pipeline, "each item ends applied,
   rejected, exhausted or dropped at close", and `SyncDelivery` as its implementation.
2. The scrape runs of Postgres, and the UI's linking of runs to them.
3. The eviction from the crawl registry, and the admission of seeds and next
   pages that the code does not keep.
4. The RabbitMQ topology as a graph of queues with dead-letter routes.
