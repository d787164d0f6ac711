------------------------------- MODULE Crawl -------------------------------
(***************************************************************************)
(* One crawl of one store by the spider framework: seeds, listing pages    *)
(* with their pagination, product pages, the crawl registry that dedupes   *)
(* them, the admission of requests against the store's budget, and the     *)
(* queue of products that were not admitted.                               *)
(*                                                                         *)
(* Callbacks are generators: at every request they yield, Scrapy may go on *)
(* with another callback.  A callback is therefore a sequence of steps,    *)
(* one for each link it looks at, and all callbacks interleave.  What the  *)
(* site answers is fixed; whether it answers is not.                       *)
(***************************************************************************)
EXTENDS Integers, Sequences, FiniteSets, SequencesExt

CONSTANTS
    Listings,     \* canonical listing URLs
    Urls,         \* canonical product URLs
    Others,       \* requests that take a product's slot and are for no product
    None,         \* no next page, no entry
    Shops,        \* the stores that may be crawled, each with a bound on the
                  \* requests that fail or are not answered as asked
    Path,         \* the path of a listing URL
    Links,        \* the product URLs on a listing, a sequence
    Subcategories,\* the listings a listing links to, a sequence
    NextPage,     \* the next page of a listing, or None
    SourceId,     \* the source id in a product URL
    Refused,      \* product URLs the outbound policy never lets through
    MaxPages,     \* SCRAPY_MAX_PAGES_PER_CATEGORY
    MaxEmpty,     \* SCRAPY_MAX_EMPTY_LISTING_REPEATS
    MaxRepeats,   \* SCRAPY_MAX_DUPLICATE_LISTING_REPEATS
    DrainLimit    \* how many requests one callback makes from each queue

(* The products of a listing, or of another answer, that are not admitted  *)
(* wait in the framework's queue or in the store's own.                    *)
Queues == {"framework", "own"}

Pages == Urls \cup Others

(* Every budget of store_resource_budgets.py has room for a product beside *)
(* all listings and browser pages, also after the GLOBAL_MAX_... settings  *)
(* have cut it.                                                            *)
ASSUME CrawlAssumption ==
    /\ IsFiniteSet(Listings) /\ IsFiniteSet(Pages) /\ None \notin Listings
    /\ Urls \cap Others = {} /\ Listings \cap Pages = {}
    /\ Links \in [Listings -> Seq(Urls)]
    /\ Subcategories \in [Listings -> Seq(Listings)]
    /\ NextPage \in [Listings -> Listings \cup {None}]
    /\ Refused \subseteq Urls
    /\ DrainLimit \in [Queues -> Nat \ {0}]
    /\ MaxPages \in Nat /\ MaxEmpty \in Nat /\ MaxRepeats \in Nat
    /\ \A s \in Shops :
         /\ s.seeds \in Seq(Listings)
         /\ s.failures \in Nat /\ {s.hydrates, s.numbered} \subseteq BOOLEAN
         /\ s.budget \in [{"total", "listing", "product", "browser"} -> Nat]
         /\ s.budget.listing + s.budget.browser < s.budget.total
         /\ s.budget.browser < s.budget.product

VARIABLES
    shop,       \* the store that is crawled
    seeds,      \* what start_requests has not come to yet
    listing,    \* each listing page: its request, its response, its callback
    product,    \* each page that takes a product's slot, the same
    queue,      \* the products that wait to be admitted
    drain,      \* the queues each callback is still going to empty
    known,      \* the crawl registry: urls, ids, pages and signatures seen
    inflight,   \* the resource tracker's counters
    filtered,   \* the slots of the requests Scrapy's dupefilter dropped
    failures    \* how much of the bound is spent

vars == <<shop, seeds, listing, product, queue, drain, known, inflight, filtered, failures>>

NewListing == [state |-> "new", page |-> 0, empty |-> 0, repeats |-> 0, browser |-> FALSE,
               links |-> <<>>, subs |-> <<>>, seen |-> {}]
NewProduct == [state |-> "new", depth |-> 0]

Idle == [queues |-> <<>>, drained |-> 0]

Init ==
    /\ shop \in Shops
    /\ seeds = shop.seeds
    /\ listing = [l \in Listings |-> NewListing]
    /\ product = [p \in Pages |-> NewProduct]
    /\ queue = [q \in Queues |-> <<>>]
    /\ drain = [c \in Listings \cup Pages |-> Idle]
    /\ known = [urls |-> {}, ids |-> {}, pages |-> {}, signatures |-> {}]
    /\ inflight = [listing |-> 0, product |-> 0, browser |-> 0]
    /\ filtered = [listing |-> 0, product |-> 0, browser |-> 0]
    /\ failures = 0

-----------------------------------------------------------------------------
(* Resource governance.                                                    *)

(* decide_request_admission, under the load r.  A browser or a proxy over  *)
(* budget downgrades a request and refuses none, and the queue of the CRM  *)
(* batches is empty in this process.  The mutant looks at the purpose      *)
(* alone.                                                                  *)
AdmitByPurpose(r, kind) == r[kind] < shop.budget[kind]
Admit(r, kind) ==
    /\ r.listing + r.product < shop.budget.total
    /\ r[kind] < shop.budget[kind]

(* record_request_scheduled_governance. *)
Taken(r, kind, browser) ==
    [r EXCEPT ![kind] = @ + 1, !["browser"] = @ + (IF browser THEN 1 ELSE 0)]

(* release_request_governance_counters; never below zero. *)
Released(r, kind, browser) ==
    LET less(n) == IF n > 0 THEN n - 1 ELSE 0
    IN [r EXCEPT ![kind] = less(@), !["browser"] = IF browser THEN less(@) ELSE @]

(* A browser page is within the budget. *)
Browses(r) == r.browser < shop.budget.browser

-----------------------------------------------------------------------------
(* Requests.                                                               *)

(* schedule_safe_request for a listing, and what Scrapy does with it: a    *)
(* request for a page that was requested before is dropped, and neither    *)
(* parse nor the errback will release its slot.  A request that is not     *)
(* admitted is forgotten.  In a store whose listings need a browser it     *)
(* gets one while the budget lasts.  updated is the listings after the     *)
(* caller's own step.                                                      *)
RequestListing(updated, l, page, empty, repeats) ==
    LET browser == shop.hydrates /\ Browses(inflight)
    IN IF ~Admit(inflight, "listing")
       THEN listing' = updated /\ UNCHANGED <<inflight, filtered>>
       ELSE /\ inflight' = Taken(inflight, "listing", browser)
            /\ IF updated[l].state = "new"
               THEN /\ listing' = [updated EXCEPT ![l] =
                         [@ EXCEPT !.state = "queued", !.page = page, !.browser = browser,
                                   !.empty = empty, !.repeats = repeats]]
                    /\ UNCHANGED filtered
               ELSE listing' = updated /\ filtered' = Taken(filtered, "listing", browser)

(* start_requests; the entry of a store, if it has one, is its first seed. *)
StartSeed ==
    /\ seeds # <<>>
    /\ seeds' = Tail(seeds)
    /\ RequestListing(listing, Head(seeds), 1, 0, 0)
    /\ UNCHANGED <<shop, product, queue, drain, known, failures>>

(* should_skip_product_url.  The mutant compares URLs only. *)
SkipByUrl(u) == u \in known.urls
Skip(u) == u \in known.urls \/ SourceId[u] \in known.ids

Remember(u) == [known EXCEPT !.urls = @ \cup {u}, !.ids = @ \cup {SourceId[u]}]

CanRequest(u) == u \notin Refused /\ Admit(inflight, "product")

(* schedule_product_request, admitted, and the registry's note of it. *)
RequestProduct(updated, u) ==
    /\ known' = Remember(u)
    /\ inflight' = Taken(inflight, "product", FALSE)
    /\ IF updated[u].state = "new"
       THEN /\ product' = [updated EXCEPT ![u].state = "queued"]
            /\ UNCHANGED filtered
       ELSE product' = updated /\ filtered' = Taken(filtered, "product", FALSE)

(* _enqueue_pending_listing_product; the store's own queue does the same. *)
Waits(q, u) == Contains(queue[q], u)
Enqueued(q, u) == IF Waits(q, u) THEN queue ELSE [queue EXCEPT ![q] = Append(@, u)]

-----------------------------------------------------------------------------
(* Listing pages.                                                          *)

(* build_listing_signature: path, page number and the products.  That of   *)
(* Uzum leaves the page number out.                                        *)
PageNumber(l) == IF shop.numbered THEN listing[l].page ELSE 0
Signature(l) == <<Path[l], PageNumber(l), Links[l]>>

(* The first part of _parse_listing_inner, and the listing after it. *)
Answered(l) ==
    [listing[l] EXCEPT
        !.state = "parsing", !.links = Links[l], !.subs = Subcategories[l],
        !.empty = IF Links[l] = <<>> THEN listing[l].empty + 1 ELSE 0,
        !.repeats = IF Signature(l) \in known.signatures THEN listing[l].repeats + 1 ELSE 0]

ReadListing(l) ==
    /\ known' = [known EXCEPT !.pages = @ \cup {l}, !.signatures = @ \cup {Signature(l)}]
    /\ listing' = [listing EXCEPT ![l] = Answered(l)]
    /\ UNCHANGED <<shop, seeds, product, queue, drain, filtered, failures>>

(* parse. *)
ParseListing(l) ==
    /\ listing[l].state = "queued"
    /\ inflight' = Released(inflight, "listing", listing[l].browser)
    /\ ReadListing(l)

(* One product link of the page.  A product that is not admitted is put    *)
(* into the queue, without being remembered.                               *)
FollowLink(l) ==
    LET u == Head(listing[l].links)
        onPage == \E s \in listing[l].seen : s = u \/ SourceId[s] = SourceId[u]
        rest == [listing EXCEPT ![l].links = Tail(@)]
        noted == [rest EXCEPT ![l].seen = @ \cup {u}]
    IN /\ listing[l].state = "parsing"
       /\ listing[l].links # <<>>
       /\ \/ /\ onPage \/ Skip(u)
             /\ listing' = rest
             /\ UNCHANGED <<product, queue, known, inflight, filtered>>
          \/ /\ ~onPage /\ ~Skip(u) /\ ~CanRequest(u)
             /\ listing' = noted
             /\ queue' = Enqueued("framework", u)
             /\ UNCHANGED <<product, known, inflight, filtered>>
          \/ /\ ~onPage /\ ~Skip(u) /\ CanRequest(u)
             /\ listing' = noted
             /\ RequestProduct(product, u)
             /\ UNCHANGED queue
       /\ UNCHANGED <<shop, seeds, drain, failures>>

(* One subcategory; it is remembered whether it can be requested or not. *)
FollowSubcategory(l) ==
    LET c == Head(listing[l].subs)
        rest == [listing EXCEPT ![l].subs = Tail(@)]
    IN /\ listing[l].state = "parsing"
       /\ listing[l].links = <<>> /\ listing[l].subs # <<>>
       /\ known' = [known EXCEPT !.pages = @ \cup {c}]
       /\ IF c \in known.pages
          THEN listing' = rest /\ UNCHANGED <<inflight, filtered>>
          ELSE RequestListing(rest, c, 1, 0, 0)
       /\ UNCHANGED <<shop, seeds, product, queue, drain, failures>>

(* should_stop_pagination and the check for a page seen before. *)
StopsAt(l) ==
    \/ NextPage[l] = None
    \/ listing[l].page >= MaxPages
    \/ listing[l].empty >= MaxEmpty
    \/ listing[l].repeats >= MaxRepeats
    \/ NextPage[l] \in known.pages

Paginate(l) ==
    LET done == [listing EXCEPT ![l].state = "done"]
    IN /\ listing[l].state = "parsing"
       /\ listing[l].links = <<>> /\ listing[l].subs = <<>>
       /\ IF StopsAt(l)
          THEN listing' = done /\ UNCHANGED <<inflight, filtered>>
          ELSE RequestListing(done, NextPage[l], listing[l].page + 1,
                              listing[l].empty, listing[l].repeats)
       /\ UNCHANGED <<shop, seeds, product, queue, drain, known, failures>>

-----------------------------------------------------------------------------
(* Product pages.                                                          *)

(* parse for a product page: the queues it empties when it has given its   *)
(* item.                                                                   *)
ParseProduct(u) ==
    /\ product[u].state = "queued"
    /\ inflight' = Released(inflight, "product", FALSE)
    /\ product' = [product EXCEPT ![u].state = "done"]
    /\ drain' = [drain EXCEPT ![u].queues = shop.drains]
    /\ UNCHANGED <<shop, seeds, listing, queue, known, filtered, failures>>

(* _drain_pending_listing_products and its like, one turn of the loop at a *)
(* time.                                                                   *)
At(c, q) == drain[c].queues # <<>> /\ Head(drain[c].queues) = q
HasTurn(c, q) == queue[q] # <<>> /\ drain[c].drained < DrainLimit[q]

(* The callback c goes on to its next queue. *)
EndTurn(c) == drain' = [drain EXCEPT ![c] = [Idle EXCEPT !.queues = Tail(drain[c].queues)]]

(* No turn is left, or the head of the queue is not admitted and stays. *)
DrainOver(c, q) ==
    /\ At(c, q) /\ EndTurn(c)
    /\ HasTurn(c, q) => ~Skip(Head(queue[q])) /\ ~CanRequest(Head(queue[q]))
    /\ UNCHANGED <<shop, seeds, listing, product, queue, known, inflight, filtered, failures>>

(* The head was requested meanwhile, under this URL or another.  One       *)
(* mutant takes that for the end of the queue, the other goes on without   *)
(* taking it out.                                                          *)
DrainKnownStopping(c, q) ==
    /\ At(c, q) /\ HasTurn(c, q) /\ Skip(Head(queue[q]))
    /\ EndTurn(c)
    /\ UNCHANGED <<shop, seeds, listing, product, queue, known, inflight, filtered, failures>>
DrainKnownKeeping(c, q) ==
    /\ At(c, q) /\ HasTurn(c, q) /\ Skip(Head(queue[q]))
    /\ UNCHANGED vars
DrainKnown(c, q) ==
    /\ At(c, q) /\ HasTurn(c, q) /\ Skip(Head(queue[q]))
    /\ queue' = [queue EXCEPT ![q] = Tail(@)]
    /\ UNCHANGED <<shop, seeds, listing, product, drain, known, inflight, filtered, failures>>

(* depth is how the product was found, which the queue has kept. *)
DrainRequestOf(c, q, depth) ==
    /\ At(c, q) /\ HasTurn(c, q) /\ ~Skip(Head(queue[q])) /\ CanRequest(Head(queue[q]))
    /\ queue' = [queue EXCEPT ![q] = Tail(@)]
    /\ drain' = [drain EXCEPT ![c].drained = @ + 1]
    /\ RequestProduct([product EXCEPT ![Head(queue[q])].depth = depth], Head(queue[q]))
    /\ UNCHANGED <<shop, seeds, listing, failures>>
DrainRequest(c, q) == DrainRequestOf(c, q, 0)

-----------------------------------------------------------------------------
(* Requests that come to nothing.                                          *)

Fails == failures < shop.failures /\ failures' = failures + 1

(* The errback; that of texnomart empties its own queue. *)
LoseListing(l) ==
    /\ Fails
    /\ listing[l].state = "queued"
    /\ inflight' = Released(inflight, "listing", listing[l].browser)
    /\ listing' = [listing EXCEPT ![l].state = "failed"]
    /\ drain' = [drain EXCEPT ![l].queues = shop.errback]
    /\ UNCHANGED <<shop, seeds, product, queue, known, filtered>>

LoseProduct(u) ==
    /\ Fails
    /\ product[u].state = "queued"
    /\ inflight' = Released(inflight, "product", FALSE)
    /\ product' = [product EXCEPT ![u].state = "failed"]
    /\ drain' = [drain EXCEPT ![u].queues = shop.errback]
    /\ UNCHANGED <<shop, seeds, listing, queue, known, filtered>>

(* An answer the download guard rejects, or a product page whose callback  *)
(* fails: the slot is released, and nothing else is done.                  *)
RejectProduct(u) ==
    /\ Fails
    /\ product[u].state = "queued"
    /\ inflight' = Released(inflight, "product", FALSE)
    /\ product' = [product EXCEPT ![u].state = "rejected"]
    /\ UNCHANGED <<shop, seeds, listing, queue, drain, known, filtered>>

-----------------------------------------------------------------------------

DrainStep(c) == \E q \in Queues : DrainOver(c, q) \/ DrainKnown(c, q) \/ DrainRequest(c, q)
FollowStep(l) == FollowLink(l) \/ FollowSubcategory(l) \/ Paginate(l)
ListingStep(l) == ParseListing(l) \/ FollowStep(l)
ProductStep(u) == ParseProduct(u) \/ DrainStep(u)

Next ==
    \/ StartSeed
    \/ \E l \in Listings : ListingStep(l) \/ LoseListing(l)
    \/ \E u \in Urls : ProductStep(u) \/ LoseProduct(u) \/ RejectProduct(u)

Spec == Init /\ [][Next]_vars

-----------------------------------------------------------------------------
(* Properties.                                                             *)

Queued(pages) == {p \in DOMAIN pages : pages[p].state = "queued"}
Waiting == UNION {ToSet(queue[q]) : q \in Queues}

(* A slot of the budget is held by exactly one outstanding request, apart  *)
(* from the slots that went with the listings the dupefilter dropped;      *)
(* product slots are never lost that way: the registry knows a product     *)
(* before its request can be repeated (schedule_safe_request takes the     *)
(* slots, parse, the stores' own callbacks and errback_default give them   *)
(* back).                                                                  *)
SlotsAreHeld ==
    LET browsing == {l \in Queued(listing) : listing[l].browser}
    IN /\ inflight.listing = Cardinality(Queued(listing)) + filtered.listing
       /\ inflight.product = Cardinality(Queued(product))
       /\ inflight.browser = Cardinality(browsing) + filtered.browser
                              + Cardinality(Queued(product) \cap shop.browsing)

(* However the callbacks interleave, no more requests are outstanding than *)
(* the store's budget allows, in all and of each kind                      *)
(* (decide_request_admission).                                             *)
WithinBudget ==
    /\ Cardinality(Queued(listing)) <= shop.budget.listing
    /\ Cardinality(Queued(product)) <= shop.budget.product
    /\ Cardinality(Queued(listing)) + Cardinality(Queued(product)) <= shop.budget.total

(* Of all the URLs that carry one source id, at most one is ever           *)
(* requested, though a product may wait in a queue, or in two, while       *)
(* another page shows it under another URL (should_skip_product_url, asked *)
(* again by whatever empties a queue).                                     *)
RequestedOnce ==
    \A u, v \in Urls :
        u # v /\ SourceId[u] = SourceId[v] => "new" \in {product[u].state, product[v].state}

(* The product of a link was requested, under this URL or another, or      *)
(* waits in a queue.                                                       *)
Remembered(u) ==
    \E v \in Urls : /\ SourceId[v] = SourceId[u]
                    /\ product[v].state # "new" \/ v \in Waiting

(* The product links a page was read up to are not forgotten               *)
(* (_parse_listing_inner, _drain_pending_listing_products).                *)
LinksRemembered ==
    \A l \in Listings : listing[l].state \in {"parsing", "done"} =>
        \A i \in 1..Len(Links[l]) - Len(listing[l].links) : Remembered(Links[l][i])

(* What a queue cannot survive: only the answers to some requests empty    *)
(* it, and a URL the policy refuses stays at its head.                     *)
Excused(q) ==
    \/ ToSet(queue[q]) \cap Refused # {}
    \/ \E p \in Pages :
         \/ product[p].state = "rejected"
         \/ product[p].state = "failed" /\ ~Contains(shop.errback, q)

(* The queues the answer to a request empties. *)
Empties(p) == IF p \in Urls THEN shop.drains ELSE shop.others

(* While products wait in a queue, somebody is still going to empty it: a  *)
(* request whose answer does is outstanding, or a callback has turns left. *)
(* It depends on the budgets leaving room for a product beside all         *)
(* listings and browser pages (_drain_pending_listing_products,            *)
(* _drain_pending_sitemap_products, _drain_pending_product_candidates).    *)
QueueHasDrainer ==
    \A q \in Queues : queue[q] # <<>> /\ ~Excused(q) =>
        \/ \E p \in Queued(product) : Contains(Empties(p), q)
        \/ \E c \in DOMAIN drain :
             /\ Contains(drain[c].queues, q)
             /\ At(c, q) => drain[c].drained < DrainLimit[q]

(* docs/stores/mediapark.md:26: pagination "stops on repeated empty or     *)
(* duplicate listings".  After MaxRepeats pages that show what the page    *)
(* before them showed, the next page is not requested, in a shop whose     *)
(* pages are reached by pagination alone                                   *)
(* (build_listing_signature, should_stop_pagination).                      *)
RepeatsStop ==
    \A run \in [0..MaxRepeats -> Listings] :
        /\ \A i \in 1..MaxRepeats :
             /\ run[i] = NextPage[run[i - 1]]
             /\ Path[run[i]] = Path[run[0]] /\ Links[run[i]] = Links[run[0]]
        /\ NextPage[run[MaxRepeats]] # None
        => listing[NextPage[run[MaxRepeats]]].state = "new"
=============================================================================
