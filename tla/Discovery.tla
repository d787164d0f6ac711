----------------------------- MODULE Discovery -----------------------------
(***************************************************************************)
(* The stores that find their products beside their listings.  Texnomart   *)
(* reads a sitemap into a queue of its own.  MediaPark reads an index of   *)
(* sitemaps, the leaves, in batches, and asks for a leaf again until it    *)
(* has read it.  Uzum starts from its homepage in a browser, opens some    *)
(* products in a browser again for the products they show, and defers what *)
(* is not admitted to queues of its own.  The rest is the crawl of Crawl.  *)
(***************************************************************************)
EXTENDS Crawl

CONSTANTS
    LeafUrls,        \* the products of each leaf, a sequence
    Batch,           \* _sitemap_product_batch_size()
    GraphLinks,      \* the products a product's page shows in a browser
    ExpansionLimit,  \* _UZUM_BROWSER_GRAPH_EXPANSION_LIMIT
    GraphDrainLimit, \* _UZUM_PENDING_GRAPH_DRAIN_LIMIT
    FanOut           \* _UZUM_PRODUCT_GRAPH_FANOUT_LIMIT

Leaves == DOMAIN LeafUrls
Graph(u) == <<"graph", u>>
Graphs == {Graph(u) : u \in Urls}

(* What the callbacks of a store do when they have read their page; only   *)
(* Uzum has more than queues to empty.                                     *)
Stages(s) == IF s.discovery = "graph" THEN Queues \cup {"links", "expand", "graph"} ELSE Queues

(* The product pages of every store empty the queues the store fills, and  *)
(* so do the browser pages.  The budget of MediaPark has room for a leaf,  *)
(* too.                                                                    *)
ASSUME DiscoveryAssumption ==
    /\ Others = Leaves \cup Graphs /\ Leaves \cap Graphs = {}
    /\ LeafUrls \in [Leaves -> Seq(Urls)] /\ GraphLinks \in [Urls -> Seq(Urls)]
    /\ {Batch, ExpansionLimit, GraphDrainLimit, FanOut} \subseteq Nat \ {0}
    /\ \A s \in Shops : /\ s.discovery \in {"categories", "sitemap", "leaves", "graph"}
                        /\ s.sitemap \in Seq(Urls) /\ s.leaves \in Seq(Leaves)
                        /\ s.discovery # "categories" => s.seeds # <<>>
                        /\ {s.drains, s.others, s.errback} \subseteq Seq(Stages(s))
                        /\ s.browsing = Graphs
                        /\ Contains(s.drains, "framework")
                        /\ s.discovery \in {"sitemap", "graph"} => Contains(s.drains, "own")
                        /\ s.discovery = "graph" => s.errback = <<>>
                        /\ s.discovery # "graph" => s.others = <<>>
                        /\ s.leaves # <<>> =>
                             /\ s.budget.listing + s.budget.browser + 1 < s.budget.total
                             /\ s.budget.browser + 1 < s.budget.product

VARIABLES
    leaf,    \* of each leaf, how far it was read and how far this batch goes
    graph,   \* the seeds that wait for a browser; what was opened in one;
             \* the products in the own queue that were found in one
    fan      \* the candidates of the callback that runs

own == <<leaf, graph, fan>>
discovery == <<vars, own>>

NoFan == [links |-> <<>>, seen |-> {}, scheduled |-> 0]

DiscoveryInit ==
    /\ Init
    /\ leaf = [f \in Leaves |-> [offset |-> 0, until |-> 0]]
    /\ graph = [waiting |-> <<>>, expanded |-> {}, deep |-> {}]
    /\ fan = NoFan

(* The request a store starts with, before any category. *)
Entry == IF shop.discovery = "categories" THEN None ELSE Head(shop.seeds)

(* The entry was answered and its own callback takes it. *)
EntryTo(state) == listing' = [listing EXCEPT ![Entry].state = state]
EntryReleased == Released(inflight, "listing", listing[Entry].browser)

-----------------------------------------------------------------------------
(* Texnomart.                                                              *)

(* _iter_product_urls_from_sitemap and _seed_sitemap_product_queue, for    *)
(* one URL and for all of them.                                            *)
Unlisted(q, u) ==
    IF Skip(u) \/ \E i \in DOMAIN q : SourceId[q[i]] = SourceId[u] THEN q ELSE Append(q, u)
Fresh(urls) ==
    LET upTo[n \in 0..Len(urls)] == IF n = 0 THEN <<>> ELSE Unlisted(upTo[n - 1], urls[n])
    IN upTo[Len(urls)]

(* parse_product_sitemap up to the drain. *)
ReadSitemap ==
    /\ shop.discovery = "sitemap" /\ listing[Entry].state = "queued"
    /\ EntryTo("seeded") /\ inflight' = EntryReleased
    /\ known' = [known EXCEPT !.pages = @ \cup {Entry}]
    /\ queue' = IF queue["own"] = <<>> THEN [queue EXCEPT !["own"] = Fresh(shop.sitemap)]
                ELSE queue
    /\ drain' = [drain EXCEPT ![Entry].queues = <<"own">>]
    /\ UNCHANGED <<shop, seeds, product, filtered, failures, own>>

-----------------------------------------------------------------------------
(* MediaPark.                                                              *)

(* parse_product_sitemap_index.  The first leaf takes a product's slot; if *)
(* it is not admitted no sitemap is read.                                  *)
ReadIndex ==
    LET first == Head(shop.leaves)
    IN /\ shop.discovery = "leaves" /\ listing[Entry].state = "queued"
       /\ EntryTo("seeded")
       /\ IF shop.leaves # <<>> /\ Admit(EntryReleased, "product")
          THEN /\ product' = [product EXCEPT ![first].state = "queued"]
               /\ inflight' = Taken(EntryReleased, "product", FALSE)
          ELSE inflight' = EntryReleased /\ UNCHANGED product
       /\ UNCHANGED <<shop, seeds, queue, drain, known, filtered, failures, own>>

(* parse_product_sitemap_leaf, its first part.  A request the callback     *)
(* made itself (_build_internal_sitemap_request) holds no slot.            *)
ReadLeaf(f) ==
    /\ product[f].state \in {"queued", "internal"}
    /\ inflight' = IF product[f].state = "queued" THEN Released(inflight, "product", FALSE)
                   ELSE inflight
    /\ product' = [product EXCEPT ![f].state = "reading"]
    /\ leaf' = [leaf EXCEPT ![f].until = Min({@ + Batch, Len(LeafUrls[f])})]
    /\ UNCHANGED <<shop, seeds, listing, queue, drain, known, filtered, failures, graph, fan>>

LeafUrl(f) == LeafUrls[f][leaf[f].offset + 1]
Reads(f) == product[f].state = "reading" /\ leaf[f].offset < leaf[f].until
NextUrl(f) == leaf' = [leaf EXCEPT ![f].offset = @ + 1]

LeafKnown(f) ==
    /\ Reads(f) /\ Skip(LeafUrl(f)) /\ NextUrl(f)
    /\ UNCHANGED <<vars, graph, fan>>

LeafProduct(f) ==
    /\ Reads(f) /\ ~Skip(LeafUrl(f)) /\ CanRequest(LeafUrl(f)) /\ NextUrl(f)
    /\ RequestProduct(product, LeafUrl(f))
    /\ UNCHANGED <<shop, seeds, listing, queue, drain, failures, graph, fan>>

(* The batch is read, or a product is not admitted.  The leaf is asked for *)
(* again from there, or the next one is.  The mutant takes the product     *)
(* that was not admitted for read.                                         *)
LeafOverFrom(f, offset) ==
    LET at == CHOOSE i \in DOMAIN shop.leaves : shop.leaves[i] = f
        over == [product EXCEPT ![f].state = "done"]
    IN /\ product[f].state = "reading"
       /\ Reads(f) => ~Skip(LeafUrl(f)) /\ ~CanRequest(LeafUrl(f))
       /\ leaf' = [leaf EXCEPT ![f] = [offset |-> offset, until |-> offset]]
       /\ product' = IF offset < Len(LeafUrls[f])
                     THEN [product EXCEPT ![f].state = "internal"]
                     ELSE IF at < Len(shop.leaves)
                     THEN [over EXCEPT ![shop.leaves[at + 1]].state = "internal"]
                     ELSE over
       /\ UNCHANGED <<shop, seeds, listing, queue, drain, known, inflight, filtered, failures,
                      graph, fan>>
LeafOverPast(f) == LeafOverFrom(f, leaf[f].until)
LeafOver(f) == LeafOverFrom(f, leaf[f].offset)

(* The errback of a request that holds no slot. *)
LoseLeaf(f) ==
    /\ Fails
    /\ product[f].state = "internal"
    /\ product' = [product EXCEPT ![f].state = "failed"]
    /\ UNCHANGED <<shop, seeds, listing, queue, drain, known, inflight, filtered, own>>

-----------------------------------------------------------------------------
(* Uzum.                                                                   *)

(* The callbacks of the homepage and of a product in a browser make a list *)
(* of their requests: no other callback runs meanwhile.                    *)
Atomic == {c \in Listings \cup Graphs : c = Entry \/ c \in Graphs}
Running == {c \in Atomic : shop.discovery = "graph" /\ drain[c].queues # <<>>}

(* parse_homepage_seed.  The slots are given back before the callback      *)
(* waits for the page; without a browser the homepage is a listing.        *)
HomepageArrives ==
    /\ shop.discovery = "graph" /\ listing[Entry].state = "queued" /\ listing[Entry].browser
    /\ EntryTo("awaiting") /\ inflight' = EntryReleased
    /\ UNCHANGED <<shop, seeds, product, queue, drain, known, filtered, failures, own>>

HomepageShowsNone ==
    /\ shop.discovery = "graph" /\ listing[Entry].state = "awaiting"
    /\ ReadListing(Entry)
    /\ UNCHANGED <<inflight, own>>

HomepageShows ==
    /\ shop.discovery = "graph" /\ listing[Entry].state = "awaiting" /\ Links[Entry] # <<>>
    /\ EntryTo("seeded")
    /\ known' = [known EXCEPT !.pages = @ \cup {Entry}]
    /\ drain' = [drain EXCEPT ![Entry].queues = <<"links">>]
    /\ fan' = [NoFan EXCEPT !.links = Links[Entry]]
    /\ UNCHANGED <<shop, seeds, product, queue, inflight, filtered, failures, leaf, graph>>

HomepageBreaks ==
    /\ shop.discovery = "graph" /\ listing[Entry].state = "awaiting"
    /\ Fails /\ EntryTo("failed")
    /\ UNCHANGED <<shop, seeds, product, queue, drain, known, inflight, filtered, own>>

(* _schedule_product_requests_from_candidates, one candidate.  What was    *)
(* found in a browser is not opened in one (graph_depth).                  *)
Depth(c) == IF c \in Graphs THEN 1 ELSE 0

Candidate(c) ==
    LET u == Head(fan.links)
        onPage == \E s \in fan.seen : SourceId[s] = SourceId[u]
        noted == [fan EXCEPT !.links = Tail(@), !.seen = @ \cup {u}]
    IN /\ At(c, "links") /\ fan.links # <<>> /\ fan.scheduled < FanOut
       /\ \/ /\ onPage \/ Skip(u)
             /\ fan' = [fan EXCEPT !.links = Tail(@)]
             /\ UNCHANGED <<product, queue, known, inflight, filtered, graph>>
          \/ /\ ~onPage /\ ~Skip(u) /\ ~CanRequest(u)
             /\ fan' = noted
             /\ queue' = Enqueued("own", u)
             /\ graph' = IF Waits("own", u) \/ Depth(c) = 0 THEN graph
                         ELSE [graph EXCEPT !.deep = @ \cup {u}]
             /\ UNCHANGED <<product, known, inflight, filtered>>
          \/ /\ ~onPage /\ ~Skip(u) /\ CanRequest(u)
             /\ fan' = [noted EXCEPT !.scheduled = @ + 1]
             /\ RequestProduct([product EXCEPT ![u].depth = Depth(c)], u)
             /\ UNCHANGED <<queue, graph>>
       /\ UNCHANGED <<shop, seeds, listing, drain, failures, leaf>>

(* Beyond the fan-out the candidates are forgotten. *)
CandidatesOver(c) ==
    /\ At(c, "links") /\ (fan.links = <<>> \/ fan.scheduled = FanOut)
    /\ EndTurn(c) /\ fan' = NoFan
    /\ UNCHANGED <<shop, seeds, listing, product, queue, known, inflight, filtered, failures,
                   leaf, graph>>

(* _schedule_graph_request_from_seed: a seed that may still be expanded,   *)
(* and one that gets a browser.                                            *)
Expandable(u) ==
    product[u].depth = 0 /\ Cardinality(graph.expanded) < ExpansionLimit /\ u \notin graph.expanded
Opens == Admit(inflight, "product") /\ Browses(inflight)

Open(u, waiting) ==
    /\ product' = [product EXCEPT ![Graph(u)].state = "queued"]
    /\ inflight' = Taken(inflight, "product", TRUE)
    /\ graph' = [graph EXCEPT !.waiting = waiting, !.expanded = @ \cup {u}]

(* _build_browser_graph_request, for a product that was just parsed. *)
Expand(u) ==
    /\ At(u, "expand") /\ EndTurn(u)
    /\ \/ /\ Expandable(u) /\ Opens
          /\ Open(u, graph.waiting)
       \/ /\ Expandable(u) /\ ~Opens
          /\ graph' = IF Contains(graph.waiting, u) THEN graph
                      ELSE [graph EXCEPT !.waiting = Append(@, u)]
          /\ UNCHANGED <<product, inflight>>
       \/ /\ ~Expandable(u)
          /\ UNCHANGED <<product, inflight, graph>>
    /\ UNCHANGED <<shop, seeds, listing, queue, known, filtered, failures, leaf, fan>>

(* _drain_pending_graph_candidates. *)
SeedOpens(c) ==
    /\ graph.waiting # <<>> /\ drain[c].drained < GraphDrainLimit
    /\ Expandable(Head(graph.waiting)) /\ Opens

DrainGraph(c) ==
    /\ At(c, "graph") /\ SeedOpens(c)
    /\ Open(Head(graph.waiting), Tail(graph.waiting))
    /\ drain' = [drain EXCEPT ![c].drained = @ + 1]
    /\ UNCHANGED <<shop, seeds, listing, queue, known, filtered, failures, leaf, fan>>

DrainGraphOver(c) ==
    /\ At(c, "graph") /\ ~SeedOpens(c) /\ EndTurn(c)
    /\ UNCHANGED <<shop, seeds, listing, product, queue, known, inflight, filtered, failures, own>>

(* parse_product_graph_browser.  The mutant forgets the browser's slot. *)
ParseGraphKeepingBrowser(u) ==
    /\ product[Graph(u)].state = "queued"
    /\ product' = [product EXCEPT ![Graph(u)].state = "done"]
    /\ inflight' = Released(inflight, "product", FALSE)
    /\ drain' = [drain EXCEPT ![Graph(u)].queues = shop.others]
    /\ fan' = [NoFan EXCEPT !.links = GraphLinks[u]]
    /\ UNCHANGED <<shop, seeds, listing, queue, known, filtered, failures, leaf, graph>>
ParseGraph(u) ==
    /\ product[Graph(u)].state = "queued"
    /\ product' = [product EXCEPT ![Graph(u)].state = "done"]
    /\ inflight' = Released(inflight, "product", TRUE)
    /\ drain' = [drain EXCEPT ![Graph(u)].queues = shop.others]
    /\ fan' = [NoFan EXCEPT !.links = GraphLinks[u]]
    /\ UNCHANGED <<shop, seeds, listing, queue, known, filtered, failures, leaf, graph>>

(* _drain_pending_product_candidates and _drain_pending_sitemap_products. *)
DrainOwn(c) ==
    LET depth == IF Head(queue["own"]) \in graph.deep THEN 1 ELSE 0
    IN /\ \/ DrainOver(c, "own") /\ UNCHANGED graph
          \/ /\ DrainKnown(c, "own") \/ DrainRequestOf(c, "own", depth)
             /\ graph' = [graph EXCEPT !.deep = @ \ {Head(queue["own"])}]
       /\ UNCHANGED <<leaf, fan>>

LoseGraph(u) ==
    /\ Fails
    /\ product[Graph(u)].state = "queued"
    /\ inflight' = Released(inflight, "product", TRUE)
    /\ product' = [product EXCEPT ![Graph(u)].state = "failed"]
    /\ UNCHANGED <<shop, seeds, listing, queue, drain, known, filtered, own>>

-----------------------------------------------------------------------------

EntryStep ==
    \/ ReadSitemap \/ ReadIndex
    \/ HomepageArrives \/ HomepageShowsNone \/ HomepageShows
    \/ /\ shop.discovery = "graph" /\ ~listing[Entry].browser
       /\ ParseListing(Entry) /\ UNCHANGED own

ListingTurn(l) ==
    \/ l = Entry /\ EntryStep
    \/ l # Entry /\ ParseListing(l) /\ UNCHANGED own
    \/ FollowStep(l) /\ UNCHANGED own

ProductTurn(u) ==
    \/ ParseProduct(u) /\ UNCHANGED own
    \/ /\ DrainOver(u, "framework") \/ DrainKnown(u, "framework") \/ DrainRequest(u, "framework")
       /\ UNCHANGED own
    \/ Expand(u)

LeafTurn(f) == ReadLeaf(f) \/ LeafKnown(f) \/ LeafProduct(f) \/ LeafOver(f)

(* A step of the callback c. *)
Turn(c) ==
    /\ Running \subseteq {c}
    /\ \/ c \in Listings /\ ListingTurn(c)
       \/ c \in Urls /\ ProductTurn(c)
       \/ c \in Leaves /\ LeafTurn(c)
       \/ \E u \in Urls : c = Graph(u) /\ ParseGraph(u)
       \/ Candidate(c) \/ CandidatesOver(c)
       \/ DrainGraph(c) \/ DrainGraphOver(c) \/ DrainOwn(c)

SeedTurn == Running = {} /\ StartSeed /\ UNCHANGED own

Failure ==
    /\ Running = {}
    /\ \/ \E l \in Listings : LoseListing(l) /\ UNCHANGED own
       \/ \E p \in Urls \cup Leaves : LoseProduct(p) /\ UNCHANGED own
       \/ \E u \in Urls : RejectProduct(u) /\ UNCHANGED own
       \/ \E f \in Leaves : LoseLeaf(f)
       \/ \E u \in Urls : LoseGraph(u)
       \/ HomepageBreaks

DiscoveryNext == SeedTurn \/ Failure \/ \E c \in Listings \cup Pages : Turn(c)

(* Scrapy resumes start_requests whenever it has nothing else to do, takes *)
(* every request in the end, hands its answer or its failure to a          *)
(* callback, and resumes every callback that has yielded.  It is enough    *)
(* that the callbacks do not all stand still, but for those of the leaves. *)
DiscoverySpec ==
    /\ DiscoveryInit /\ [][DiscoveryNext]_discovery
    /\ WF_discovery(SeedTurn)
    /\ WF_discovery(\E c \in Listings \cup Urls \cup Graphs : Turn(c))
    /\ \A f \in Leaves : WF_discovery(Turn(f))

-----------------------------------------------------------------------------
(* Properties.                                                             *)

(* No product is forgotten that a listing, the sitemap, a leaf or the      *)
(* candidates of a callback were read up to: it was requested, under this  *)
(* URL or another, or waits in a queue (_parse_listing_inner,              *)
(* _seed_sitemap_product_queue, parse_product_sitemap_leaf,                *)
(* _schedule_product_requests_from_candidates, and what empties the        *)
(* queues).                                                                *)
NothingForgotten ==
    /\ LinksRemembered
    /\ shop.discovery = "sitemap" /\ listing[Entry].state = "seeded" =>
         \A u \in ToSet(shop.sitemap) : Remembered(u)
    /\ \A f \in Leaves : \A i \in 1..leaf[f].offset : Remembered(LeafUrls[f][i])
    /\ \A u \in fan.seen : Remembered(u)

(* A leaf whose next product the policy refuses is asked for for ever. *)
Endless(p) ==
    p \in Leaves /\ leaf[p].offset < Len(LeafUrls[p]) /\ LeafUrl(p) \in Refused

(* The leaves were read to their end, but for a request of theirs that     *)
(* failed, or a first one that was not admitted.                           *)
LeavesRead ==
    \/ \E f \in ToSet(shop.leaves) : product[f].state = "failed" \/ Endless(f)
    \/ shop.leaves # <<>> /\ product[Head(shop.leaves)].state = "new"
    \/ \A f \in ToSet(shop.leaves) : leaf[f].offset = Len(LeafUrls[f])

(* The crawl comes to an end, however the site links its pages, has read   *)
(* the sitemaps, and leaves no product in a queue unless the queue could   *)
(* not survive (_parse_listing_inner, parse_product_sitemap_leaf, and what *)
(* empties the queues).                                                    *)
CrawlFinishes ==
    <>[](/\ seeds = <<>>
         /\ \A l \in Listings : listing[l].state \notin {"queued", "awaiting", "parsing"}
         /\ \A p \in Pages :
              product[p].state \notin {"queued", "internal", "reading"} \/ Endless(p)
         /\ \A c \in DOMAIN drain : drain[c].queues = <<>>
         /\ \A q \in Queues : queue[q] = <<>> \/ Excused(q)
         /\ LeavesRead)
=============================================================================
