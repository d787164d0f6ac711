--------------------------- MODULE DiscoverySafety ---------------------------
(***************************************************************************)
(* What a crawl does not lose, for any shops, site and limits: a product   *)
(* that was read off a page, a sitemap or a browser is requested or waits  *)
(* in a queue, and a queue in which products wait has somebody who is      *)
(* still going to empty it.                                                *)
(***************************************************************************)
EXTENDS DiscoveryProofs

(* The links a callback has still to look at are the last ones of its      *)
(* page.                                                                   *)
Unread(l) ==
    LET left == listing[l].links
    IN /\ Len(left) <= Len(Links[l])
       /\ \A i \in 1..Len(left) : left[i] = Links[l][Len(Links[l]) - Len(left) + i]

(* A callback that has not begun has no queue to empty, and the own queue  *)
(* is that of the stores that have one.                                    *)
DrainInv ==
    /\ \A p \in Pages : product[p].state \in {"new", "queued"} => drain[p] = Idle
    /\ \A l \in Listings : listing[l].state \in {"new", "queued", "awaiting"} => drain[l] = Idle
    /\ shop.discovery \notin {"sitemap", "graph"} => queue["own"] = <<>>

-----------------------------------------------------------------------------
(* What a step keeps.                                                      *)

(* A page that was requested stays so, and one that is not yet answered    *)
(* was not answered before.                                                *)
LEMMA StatesKeep ==
  ASSUME TypeOK, LeafInv, GraphInv, Effects
  PROVE  /\ \A p \in Pages : product[p].state # "new" => product'[p].state # "new"
         /\ \A p \in Pages : product'[p].state \in {"new", "queued"} =>
                               product[p].state \in {"new", "queued"}
         /\ \A p \in Pages : product[p].state = "new" => product'[p].state \in {"new", "queued", "internal"}
         /\ \A l \in Listings : listing'[l].state \in {"new", "queued"} =>
                                  listing[l].state \in {"new", "queued"}
<1> DEFINE Keeps(p) == /\ product[p].state # "new" => product'[p].state # "new"
                       /\ product'[p].state \in {"new", "queued"} =>
                            product[p].state \in {"new", "queued"}
                       /\ product[p].state = "new" =>
                            product'[p].state \in {"new", "queued", "internal"}
           Stays(l) == listing'[l].state \in {"new", "queued"} => listing[l].state \in {"new", "queued"}
           Goal == (\A p \in Pages : Keeps(p)) /\ (\A l \in Listings : Stays(l))
<1> SUFFICES Goal
  OBVIOUS
<1>1. \A p \in Pages : SameState(p) => Keeps(p)
  BY DEF SameState
<1>2. SamePages => \A p \in Pages : Keeps(p)
  BY <1>1 DEF SamePages
<1>3. /\ \A l \in Listings : SameListing(l) => Stays(l)
      /\ SameListings => \A l \in Listings : Stays(l)
  BY DEF SameListing, SameListings
<1>4. ASSUME NEW l \in Listings, Ends(l) PROVE \A k \in Listings : Stays(k)
  BY <1>3, <1>4 DEF Ends
<1>5. /\ Pages = Urls \cup Leaves \cup Graphs
      /\ \A u \in Urls : Graph(u) \in Graphs
  BY PageKinds
<1>6. CASE Nothing
  BY <1>2, <1>3, <1>6 DEF Nothing, SameRest
<1>7. ASSUME NEW b \in BOOLEAN, Drops(b) PROVE Goal
  BY <1>2, <1>3, <1>7 DEF Drops, SameRest
<1>8. ASSUME NEW l \in Listings, NEW b \in BOOLEAN, QueuesListing(l, b) PROVE Goal
  <2>1. listing[l].state = "new" /\ \A k \in Listings \ {l} : SameListing(k)
    BY <1>8 DEF QueuesListing
  <2>2. \A k \in Listings : Stays(k)
    BY <1>3, <2>1
  <2> QED
    BY <1>2, <1>8, <2>2 DEF QueuesListing, SameRest
<1>9. ASSUME NEW l \in Listings, Answers(l) PROVE Goal
  BY <1>2, <1>4, <1>9 DEF Answers, SameRest
<1>10. ASSUME NEW u \in Urls, Requests(u) PROVE Goal
  <2>1. Keeps(u) /\ \A p \in Pages \ {u} : Keeps(p)
    BY <1>1, <1>10 DEF Requests
  <2> QED
    BY <1>3, <1>10, <2>1 DEF Requests
<1>11. ASSUME NEW u \in Urls, OpensGraph(u) PROVE Goal
  <2>1. product[Graph(u)].state = "new" /\ product'[Graph(u)].state = "queued"
    BY <1>11 DEF OpensGraph, GraphInv
  <2>2. Keeps(Graph(u)) /\ \A p \in Pages \ {Graph(u)} : Keeps(p)
    BY <1>1, <1>11, <2>1 DEF OpensGraph
  <2> QED
    BY <1>3, <1>11, <2>2 DEF OpensGraph
<1>12. ASSUME NEW p \in Pages, Closes(p) PROVE Goal
  <2>1. Keeps(p) /\ \A r \in Pages \ {p} : Keeps(r)
    BY <1>1, <1>12 DEF Closes
  <2> QED
    BY <1>3, <1>12, <2>1 DEF Closes
<1>13. ASSUME NEW f \in Leaves, StartsLeaves(f) PROVE Goal
  <2>1. Entry \in Listings /\ Ends(Entry) /\ listing[Entry].state = "queued"
    BY <1>13, ShopTypes DEF StartsLeaves, TypeOK, Ends
  <2>2. product[f].state = "new" /\ product'[f].state = "queued"
    BY <1>13, <2>1 DEF StartsLeaves, LeafInv
  <2>3. Keeps(f) /\ \A p \in Pages \ {f} : Keeps(p)
    BY <1>1, <1>13, <2>2 DEF StartsLeaves
  <2>4. \A l \in Listings : Stays(l)
    BY <1>4, <2>1
  <2> QED
    BY <2>3, <2>4
<1>14. ASSUME NEW f \in Leaves, NEW g \in Leaves, MovesLeaf(f, g) PROVE Goal
  <2>1. /\ product[f].state \in {"internal", "reading"}
        /\ \A p \in Pages \ {f, g} : Keeps(p)
        /\ g # f => product'[f].state = "done" /\ product'[g].state = "internal"
        /\ g = f => product'[f].state \notin {"new", "queued"}
        /\ SameListings
    BY <1>1, <1>14 DEF MovesLeaf
  <2>2. g # f => product[g].state \in {"new", "done"}
    BY <2>1 DEF LeafInv, Active
  <2>3. Keeps(f) /\ Keeps(g)
    BY <2>1, <2>2
  <2> QED
    BY <1>3, <2>1, <2>3
<1> QED
  BY <1>6, <1>7, <1>8, <1>9, <1>10, <1>11, <1>12, <1>13, <1>14 DEF Effects

(* Queues.                                                                 *)

LEMMA EnqueuedLists ==
  ASSUME TypeOK, NEW q \in Queues, NEW u \in Urls
  PROVE  /\ \A k \in Queues \ {q} : Enqueued(q, u)[k] = queue[k]
         /\ \A k \in Queues : ToSet(queue[k]) \subseteq ToSet(Enqueued(q, u)[k])
         /\ u \in ToSet(Enqueued(q, u)[q])
<1>1. queue \in [Queues -> Seq(Urls)] /\ queue[q] \in Seq(Urls)
  BY DEF TypeOK
<1>2. CASE Waits(q, u)
  <2>1. Enqueued(q, u) = queue
    BY <1>2 DEF Enqueued
  <2>2. u \in ToSet(queue[q])
    BY <1>1, <1>2 DEF Waits, Contains, ToSet
  <2> QED
    BY <2>1, <2>2
<1>3. CASE ~Waits(q, u)
  <2>1. Enqueued(q, u) = [queue EXCEPT ![q] = Append(queue[q], u)]
    BY <1>3 DEF Enqueued
  <2>2. ToSet(Append(queue[q], u)) = ToSet(queue[q]) \cup {u}
    BY <1>1, Appended
  <2> QED
    BY <1>1, <2>1, <2>2
<1> QED
  BY <1>2, <1>3

(* What waits at the head of a queue, and what is left when it is taken.   *)
LEMMA QueueTail ==
  ASSUME TypeOK, NEW q \in Queues, queue[q] # <<>>, queue' = [queue EXCEPT ![q] = Tail(queue[q])]
  PROVE  /\ Head(queue[q]) \in Urls
         /\ \A k \in Queues \ {q} : queue'[k] = queue[k]
         /\ \A k \in Queues : \A v \in ToSet(queue[k]) :
              v \in ToSet(queue'[k]) \/ v = Head(queue[q])
         /\ ToSet(queue'[q]) \subseteq ToSet(queue[q])
<1>1. queue \in [Queues -> Seq(Urls)] /\ queue[q] \in Seq(Urls)
  BY DEF TypeOK
<1>2. /\ Head(queue[q]) \in Urls
      /\ ToSet(queue[q]) = {Head(queue[q])} \cup ToSet(Tail(queue[q]))
  BY <1>1, TailHead
<1>3. queue'[q] = Tail(queue[q]) /\ \A k \in Queues \ {q} : queue'[k] = queue[k]
  BY <1>1
<1> QED
  BY <1>2, <1>3

(* A product leaves a queue only when the registry knows it, or when it is *)
(* requested.                                                              *)
KeptIn(q, v) == v \in ToSet(queue'[q]) \/ Skip(v) \/ product'[v].state # "new"
LEMMA QueueKeeps ==
  ASSUME TypeOK, LeafInv, RegistryInv, [DiscoveryNext]_discovery
  PROVE  \A q \in Queues : \A v \in ToSet(queue[q]) : KeptIn(q, v)
<1> DEFINE Goal == \A q \in Queues : \A v \in ToSet(queue[q]) : KeptIn(q, v)
<1> SUFFICES Goal
  OBVIOUS
<1>a. CASE queue' = queue
  BY <1>a DEF KeptIn
<1>b. ASSUME NEW q \in Queues, NEW u \in Urls, queue' = Enqueued(q, u) PROVE Goal
  BY <1>b, EnqueuedLists DEF KeptIn
<1>c. queue \in [Queues -> Seq(Urls)] /\ product \in [Pages -> Product] /\ listing \in [Listings -> Listing]
      /\ fan \in Candidates
  BY DEF TypeOK
<1> HIDE DEF Goal
<1>1. CASE StartSeed /\ UNCHANGED own
  BY <1>1, <1>a DEF StartSeed
<1>2. ASSUME NEW l \in Listings, LoseListing(l) /\ UNCHANGED own
      PROVE  Goal
  BY <1>2, <1>a DEF LoseListing
<1>3. ASSUME NEW p \in Urls \cup Leaves, LoseProduct(p) /\ UNCHANGED own
      PROVE  Goal
  BY <1>3, <1>a DEF LoseProduct
<1>4. ASSUME NEW u \in Urls, RejectProduct(u) /\ UNCHANGED own
      PROVE  Goal
  BY <1>4, <1>a DEF RejectProduct
<1>5. ASSUME NEW f \in Leaves, LoseLeaf(f)
      PROVE  Goal
  BY <1>5, <1>a DEF LoseLeaf
<1>6. ASSUME NEW u \in Urls, LoseGraph(u)
      PROVE  Goal
  BY <1>6, <1>a DEF LoseGraph
<1>7. CASE HomepageBreaks
  BY <1>7, <1>a DEF HomepageBreaks
<1>8. CASE ReadSitemap
  <2>1. queue' = queue \/ (queue["own"] = <<>> /\ queue' = [queue EXCEPT !["own"] = Fresh(shop.sitemap)])
    BY <1>8 DEF ReadSitemap
  <2>2. ASSUME queue["own"] = <<>>, queue' = [queue EXCEPT !["own"] = Fresh(shop.sitemap)]
        PROVE  Goal
    <3>1. ToSet(queue["own"]) = {} /\ \A k \in Queues \ {"own"} : queue'[k] = queue[k]
      BY <1>c, <2>2 DEF ToSet
    <3> QED
      BY <3>1 DEF Goal, KeptIn
  <2> QED
    BY <1>a, <2>1, <2>2
<1>9. CASE ReadIndex
  BY <1>9, <1>a DEF ReadIndex
<1>10. CASE HomepageArrives
  BY <1>10, <1>a DEF HomepageArrives
<1>11. CASE HomepageShowsNone
  BY <1>11, <1>a DEF HomepageShowsNone, ReadListing
<1>12. CASE HomepageShows
  BY <1>12, <1>a DEF HomepageShows
<1>13. ASSUME NEW l \in Listings, Parses(l)
      PROVE  Goal
  BY <1>13, <1>a DEF Parses, ParseListing, ReadListing
<1>14. ASSUME NEW l \in Listings, FollowLink(l) /\ UNCHANGED own
      PROVE  Goal
  <2>1. listing[l].links \in Seq(Urls)
    BY <1>c DEF Listing
  <2>2. listing[l].links # <<>>
    BY <1>14 DEF FollowLink
  <2>3. Head(listing[l].links) \in Urls
    BY <2>1, <2>2
  <2>4. queue' = queue \/ queue' = Enqueued("framework", Head(listing[l].links))
    BY <1>14 DEF FollowLink
  <2> QED
    BY <1>a, <1>b, <2>3, <2>4 DEF Queues
<1>15. ASSUME NEW l \in Listings, FollowSubcategory(l) /\ UNCHANGED own
      PROVE  Goal
  BY <1>15, <1>a DEF FollowSubcategory
<1>16. ASSUME NEW l \in Listings, Paginate(l) /\ UNCHANGED own
      PROVE  Goal
  BY <1>16, <1>a DEF Paginate
<1>17. ASSUME NEW u \in Urls, ParseProduct(u) /\ UNCHANGED own
      PROVE  Goal
  BY <1>17, <1>a DEF ParseProduct
<1>18. ASSUME NEW c \in Callbacks, NEW q \in Queues, DrainOver(c, q) /\ UNCHANGED own
      PROVE  Goal
  BY <1>18, <1>a DEF DrainOver
<1>19. ASSUME NEW c \in Callbacks, NEW q \in Queues, DrainKnown(c, q) /\ DeepOnly
      PROVE  Goal
  <2>1. queue[q] # <<>> /\ queue' = [queue EXCEPT ![q] = Tail(queue[q])] /\ Skip(Head(queue[q]))
    BY <1>19 DEF DrainKnown, HasTurn
  <2>2. \A k \in Queues : \A v \in ToSet(queue[k]) : v \in ToSet(queue'[k]) \/ v = Head(queue[q])
    BY <2>1, QueueTail
  <2> QED
    BY <2>1, <2>2 DEF Goal, KeptIn
<1>20. ASSUME NEW c \in Callbacks, NEW q \in Queues, NEW d \in {0, 1}, DrainRequestOf(c, q, d) /\ DeepOnly
      PROVE  Goal
  <2> DEFINE u == Head(queue[q])
             updated == [product EXCEPT ![u].depth = d]
  <2>1. /\ queue[q] # <<>> /\ queue' = [queue EXCEPT ![q] = Tail(queue[q])]
        /\ RequestProduct(updated, u)
    BY <1>20 DEF DrainRequestOf, HasTurn
  <2>2. /\ u \in Urls
        /\ \A k \in Queues : \A v \in ToSet(queue[k]) : v \in ToSet(queue'[k]) \/ v = u
    BY <2>1, QueueTail
  <2>3. updated \in [Pages -> Product]
    BY <2>2, Moved DEF Pages
  <2> HIDE DEF u, updated
  <2>4. product'[u].state # "new"
    BY <2>1, <2>2, <2>3, ProductRequestTypes
  <2> QED
    BY <2>2, <2>4 DEF Goal, KeptIn
<1>21. ASSUME NEW u \in Urls, Expand(u)
      PROVE  Goal
  BY <1>21, <1>a DEF Expand
<1>22. ASSUME NEW f \in Leaves, ReadLeaf(f)
      PROVE  Goal
  BY <1>22, <1>a DEF ReadLeaf
<1>23. ASSUME NEW f \in Leaves, LeafKnown(f)
      PROVE  Goal
  BY <1>23, <1>a DEF LeafKnown, vars
<1>24. ASSUME NEW f \in Leaves, LeafProduct(f)
      PROVE  Goal
  BY <1>24, <1>a DEF LeafProduct
<1>25. ASSUME NEW f \in Leaves, LeafOver(f)
      PROVE  Goal
  BY <1>25, <1>a DEF LeafOver, LeafOverFrom
<1>26. ASSUME NEW u \in Urls, ParseGraph(u)
      PROVE  Goal
  BY <1>26, <1>a DEF ParseGraph
<1>27. ASSUME NEW c \in Callbacks, Candidate(c)
      PROVE  Goal
  <2>1. fan.links \in Seq(Urls) /\ fan.links # <<>>
    BY <1>27, <1>c DEF Candidates, Candidate
  <2>2. Head(fan.links) \in Urls
    BY <2>1
  <2>3. queue' = queue \/ queue' = Enqueued("own", Head(fan.links))
    BY <1>27 DEF Candidate
  <2> QED
    BY <1>a, <1>b, <2>2, <2>3 DEF Queues
<1>28. ASSUME NEW c \in Callbacks, CandidatesOver(c)
      PROVE  Goal
  BY <1>28, <1>a DEF CandidatesOver
<1>29. ASSUME NEW c \in Callbacks, DrainGraph(c)
      PROVE  Goal
  BY <1>29, <1>a DEF DrainGraph
<1>30. ASSUME NEW c \in Callbacks, DrainGraphOver(c)
      PROVE  Goal
  BY <1>30, <1>a DEF DrainGraphOver
<1>31. CASE UNCHANGED discovery
  BY <1>31, <1>a DEF discovery, vars
<1> QED
  BY Steps, <1>1, <1>2, <1>3, <1>4, <1>5, <1>6, <1>7, <1>8, <1>9, <1>10,
     <1>11, <1>12, <1>13, <1>14, <1>15, <1>16, <1>17, <1>18, <1>19, <1>20,
     <1>21, <1>22, <1>23, <1>24, <1>25, <1>26, <1>27, <1>28, <1>29, <1>30,
     <1>31

(* A product that is remembered is never forgotten.                        *)
LEMMA RememberedForever ==
  ASSUME TypeOK, LeafInv, GraphInv, RegistryInv, [DiscoveryNext]_discovery, Effects
  PROVE  \A u \in Urls : Remembered(u) => Remembered(u)'
<1> SUFFICES ASSUME NEW u \in Urls, NEW v \in Urls, SourceId[v] = SourceId[u],
                    product[v].state # "new" \/ v \in Waiting
             PROVE  Remembered(u)'
  BY DEF Remembered
<1>1. \A w \in Urls : product[w].state # "new" => product'[w].state # "new"
  BY StatesKeep DEF Pages
<1>2. CASE product[v].state # "new"
  BY <1>1, <1>2 DEF Remembered
<1>3. CASE v \in Waiting
  <2>1. PICK q \in Queues : v \in ToSet(queue[q])
    BY <1>3 DEF Waiting
  <2>2. KeptIn(q, v)
    BY <2>1, QueueKeeps
  <2>3. CASE v \in ToSet(queue'[q])
    BY <2>3 DEF Remembered, Waiting
  <2>4. CASE product'[v].state # "new"
    BY <2>4 DEF Remembered
  <2>5. CASE Skip(v)
    <3>1. SourceId[v] \in known.ids
      BY <2>5 DEF Skip, RegistryInv
    <3>2. PICK w \in Urls : SourceId[w] = SourceId[v] /\ product[w].state # "new"
      BY <3>1 DEF RegistryInv
    <3> QED
      BY <1>1, <3>2 DEF Remembered
  <2> QED
    BY <2>2, <2>3, <2>4, <2>5 DEF KeptIn
<1> QED
  BY <1>2, <1>3

(* What the registry knows is remembered, and so is what shares its id.    *)
LEMMA KnownIsRemembered ==
  ASSUME RegistryInv, NEW u \in Urls, Skip(u)
  PROVE  Remembered(u)
<1>1. SourceId[u] \in known.ids
  BY DEF Skip, RegistryInv
<1> QED
  BY <1>1 DEF RegistryInv, Remembered

LEMMA SameIdRemembered ==
  ASSUME NEW u \in Urls, NEW v \in Urls, SourceId[u] = SourceId[v], Remembered(v)
  PROVE  Remembered(u)
BY DEF Remembered

-----------------------------------------------------------------------------
(* Listing pages.                                                          *)

(* A step that reads no link of the page l.                                *)
QuietPage(l) ==
    /\ listing'[l].links = listing[l].links /\ listing'[l].seen = listing[l].seen
    /\ listing'[l].state = "parsing" => listing[l].state = "parsing"
    /\ listing'[l].state = "done" => listing[l].state \in {"parsing", "done"}
    /\ listing'[l].state = "awaiting" => listing[l].state \in {"queued", "awaiting"}
    /\ listing'[l].state = "seeded" /\ shop.discovery = "sitemap" =>
         listing[l].state = "seeded" \/ ReadSitemap
PageMoves(l) == QuietPage(l) \/ ReadListing(l) \/ FollowLink(l)

LEMMA QuietState ==
  ASSUME TypeOK, NEW l \in Listings, NEW s \in ListingStates,
         listing' = [listing EXCEPT ![l].state = s], s \notin {"parsing", "done"},
         s = "awaiting" => listing[l].state = "queued",
         s = "seeded" /\ shop.discovery = "sitemap" => ReadSitemap
  PROVE  \A k \in Listings : QuietPage(k)
<1>1. /\ listing'[l].state = s
      /\ listing'[l].links = listing[l].links /\ listing'[l].seen = listing[l].seen
      /\ \A k \in Listings \ {l} : listing'[k] = listing[k]
  BY StateMoved
<1> QED
  BY <1>1 DEF QuietPage

LEMMA QuietRequest ==
  ASSUME TypeOK, NEW updated \in [Listings -> Listing], NEW l \in Listings,
         NEW page \in Nat, NEW empty \in Nat, NEW repeats \in Nat,
         \/ listing' = updated
         \/ RequestListing(updated, l, page, empty, repeats),
         \A k \in Listings :
           /\ updated[k].links = listing[k].links /\ updated[k].seen = listing[k].seen
           /\ \/ updated[k].state = listing[k].state
              \/ listing[k].state = "parsing" /\ updated[k].state = "done"
  PROVE  \A k \in Listings : QuietPage(k)
<1>1. \A k \in Listings :
        /\ listing'[k].links = listing[k].links /\ listing'[k].seen = listing[k].seen
        /\ listing'[k].state \in {updated[k].state, "queued"}
  BY ListingRequestTypes
<1>2. ASSUME NEW k \in Listings PROVE QuietPage(k)
  <2>1. CASE listing'[k].state = "queued"
    BY <1>1, <2>1 DEF QuietPage
  <2>2. CASE listing'[k].state = listing[k].state
    BY <1>1, <2>2 DEF QuietPage
  <2>3. CASE listing'[k].state = "done" /\ listing[k].state = "parsing"
    BY <1>1, <2>3 DEF QuietPage
  <2> QED
    BY <1>1, <2>1, <2>2, <2>3
<1> QED
  BY <1>2

LEMMA PagesMove ==
  ASSUME TypeOK, LeafInv, [DiscoveryNext]_discovery
  PROVE  \A k \in Listings : PageMoves(k)
<1> DEFINE Goal == \A k \in Listings : PageMoves(k)
<1> SUFFICES Goal
  OBVIOUS
<1>a. CASE listing' = listing
  BY <1>a DEF PageMoves, QuietPage
<1>b. (\A k \in Listings : QuietPage(k)) => Goal
  BY DEF PageMoves
<1>c. /\ shop \in Shops /\ listing \in [Listings -> Listing] /\ seeds \in Seq(Listings)
      /\ shop.discovery # "categories" => Entry \in Listings
      /\ ListingStates = {"new", "queued", "parsing", "done", "failed", "seeded", "awaiting"}
  BY ShopTypes DEF TypeOK, ListingStates
<1>d. ASSUME NEW l \in Listings, ReadListing(l) PROVE Goal
  <2>1. \A k \in Listings \ {l} : listing'[k] = listing[k]
    BY <1>d, ReadListingTypes
  <2>2. \A k \in Listings \ {l} : QuietPage(k)
    BY <2>1 DEF QuietPage
  <2> QED
    BY <1>d, <2>2 DEF PageMoves
<1> HIDE DEF Goal
<1>1. CASE StartSeed /\ UNCHANGED own
  <2>1. seeds # <<>> /\ RequestListing(listing, Head(seeds), 1, 0, 0)
    BY <1>1 DEF StartSeed
  <2>2. Head(seeds) \in Listings
    BY <1>c, <2>1
  <2>3. \A k \in Listings : QuietPage(k)
    BY <1>c, <2>1, <2>2, QuietRequest
  <2> QED
    BY <1>b, <2>3
<1>2. ASSUME NEW l \in Listings, LoseListing(l) /\ UNCHANGED own
      PROVE  Goal
  <2>1. listing' = [listing EXCEPT ![l].state = "failed"]
    BY <1>2 DEF LoseListing
  <2> QED
    BY <1>b, <1>c, <2>1, QuietState
<1>3. ASSUME NEW p \in Urls \cup Leaves, LoseProduct(p) /\ UNCHANGED own
      PROVE  Goal
  BY <1>3, <1>a DEF LoseProduct
<1>4. ASSUME NEW u \in Urls, RejectProduct(u) /\ UNCHANGED own
      PROVE  Goal
  BY <1>4, <1>a DEF RejectProduct
<1>5. ASSUME NEW f \in Leaves, LoseLeaf(f)
      PROVE  Goal
  BY <1>5, <1>a DEF LoseLeaf
<1>6. ASSUME NEW u \in Urls, LoseGraph(u)
      PROVE  Goal
  BY <1>6, <1>a DEF LoseGraph
<1>7. CASE HomepageBreaks
  <2>1. Entry \in Listings /\ listing' = [listing EXCEPT ![Entry].state = "failed"]
    BY <1>7, <1>c DEF HomepageBreaks, EntryTo
  <2> QED
    BY <1>7, <1>b, <1>c, <2>1, QuietState DEF HomepageBreaks
<1>8. CASE ReadSitemap
  <2>1. Entry \in Listings /\ listing' = [listing EXCEPT ![Entry].state = "seeded"]
    BY <1>8, <1>c DEF ReadSitemap, EntryTo
  <2> QED
    BY <1>8, <1>b, <1>c, <2>1, QuietState
<1>9. CASE ReadIndex
  <2>1. Entry \in Listings /\ listing' = [listing EXCEPT ![Entry].state = "seeded"]
    BY <1>9, <1>c DEF ReadIndex, EntryTo
  <2> QED
    BY <1>9, <1>b, <1>c, <2>1, QuietState DEF ReadIndex
<1>10. CASE HomepageArrives
  <2>1. Entry \in Listings /\ listing' = [listing EXCEPT ![Entry].state = "awaiting"]
    BY <1>10, <1>c DEF HomepageArrives, EntryTo
  <2> QED
    BY <1>10, <1>b, <1>c, <2>1, QuietState DEF HomepageArrives
<1>11. CASE HomepageShowsNone
  BY <1>11, <1>c, <1>d DEF HomepageShowsNone
<1>12. CASE HomepageShows
  <2>1. Entry \in Listings /\ listing' = [listing EXCEPT ![Entry].state = "seeded"]
    BY <1>12, <1>c DEF HomepageShows, EntryTo
  <2> QED
    BY <1>12, <1>b, <1>c, <2>1, QuietState DEF HomepageShows
<1>13. ASSUME NEW l \in Listings, Parses(l)
      PROVE  Goal
  BY <1>13, <1>d DEF Parses, ParseListing
<1>14. ASSUME NEW l \in Listings, FollowLink(l) /\ UNCHANGED own
      PROVE  Goal
  <2>1. \A k \in Listings \ {l} : listing'[k] = listing[k]
    BY <1>14, FollowLinkKeeps
  <2>2. \A k \in Listings \ {l} : QuietPage(k)
    BY <2>1 DEF QuietPage
  <2> QED
    BY <1>14, <2>2 DEF PageMoves, Goal
<1>15. ASSUME NEW l \in Listings, FollowSubcategory(l) /\ UNCHANGED own
      PROVE  Goal
  <2> DEFINE s == Head(listing[l].subs)
             rest == [listing EXCEPT ![l].subs = Tail(listing[l].subs)]
  <2>1. /\ listing[l].subs # <<>>
        /\ listing' = rest \/ RequestListing(rest, s, 1, 0, 0)
    BY <1>15 DEF FollowSubcategory
  <2>2. s \in Listings /\ Tail(listing[l].subs) \in Seq(Listings)
    <3>1. listing[l].subs \in Seq(Listings)
      BY <1>c DEF Listing
    <3> QED
      BY <2>1, <3>1, TailHead
  <2>3. /\ rest \in [Listings -> Listing]
        /\ rest[l].state = listing[l].state
        /\ rest[l].links = listing[l].links /\ rest[l].seen = listing[l].seen
        /\ \A k \in Listings \ {l} : rest[k] = listing[k]
    <3>1. [listing[l] EXCEPT !.subs = Tail(listing[l].subs)] \in Listing
      BY <1>c, <2>2 DEF Listing
    <3> QED
      BY <1>c, <3>1 DEF Listing
  <2> HIDE DEF s, rest
  <2>4. \A k \in Listings : QuietPage(k)
    BY <2>1, <2>2, <2>3, QuietRequest
  <2> QED
    BY <1>b, <2>4
<1>16. ASSUME NEW l \in Listings, Paginate(l) /\ UNCHANGED own
      PROVE  Goal
  <2> DEFINE done == [listing EXCEPT ![l].state = "done"]
  <2>1. /\ listing[l].state = "parsing"
        /\ \/ listing' = done
           \/ /\ NextPage[l] # None
              /\ RequestListing(done, NextPage[l], listing[l].page + 1,
                                listing[l].empty, listing[l].repeats)
    BY <1>16 DEF Paginate, StopsAt
  <2>2. done \in [Listings -> Listing]
    BY <1>c, Moved
  <2>3. /\ NextPage[l] # None => NextPage[l] \in Listings
        /\ listing[l].page + 1 \in Nat /\ listing[l].empty \in Nat /\ listing[l].repeats \in Nat
    BY <1>c, CrawlAssumption DEF CrawlAssumption, Listing
  <2>4. /\ done[l].state = "done"
        /\ done[l].links = listing[l].links /\ done[l].seen = listing[l].seen
        /\ \A k \in Listings \ {l} : done[k] = listing[k]
    <3>1. listing[l] \in Listing
      BY <1>c
    <3> QED
      BY <1>c, <3>1 DEF Listing
  <2> HIDE DEF done
  <2>5. \A k \in Listings : /\ done[k].links = listing[k].links /\ done[k].seen = listing[k].seen
                            /\ \/ done[k].state = listing[k].state
                               \/ listing[k].state = "parsing" /\ done[k].state = "done"
    BY <2>1, <2>4
  <2>6. CASE listing' = done
    <3>1. \A k \in Listings : QuietPage(k)
      BY <2>2, <2>3, <2>5, <2>6, QuietRequest
    <3> QED
      BY <1>b, <3>1
  <2>7. CASE /\ NextPage[l] # None
             /\ RequestListing(done, NextPage[l], listing[l].page + 1,
                               listing[l].empty, listing[l].repeats)
    <3>1. \A k \in Listings : QuietPage(k)
      BY <2>2, <2>3, <2>5, <2>7, QuietRequest
    <3> QED
      BY <1>b, <3>1
  <2> QED
    BY <2>1, <2>6, <2>7
<1>17. ASSUME NEW u \in Urls, ParseProduct(u) /\ UNCHANGED own
      PROVE  Goal
  BY <1>17, <1>a DEF ParseProduct
<1>18. ASSUME NEW c \in Callbacks, NEW q \in Queues, DrainOver(c, q) /\ UNCHANGED own
      PROVE  Goal
  BY <1>18, <1>a DEF DrainOver
<1>19. ASSUME NEW c \in Callbacks, NEW q \in Queues, DrainKnown(c, q) /\ DeepOnly
      PROVE  Goal
  BY <1>19, <1>a DEF DrainKnown
<1>20. ASSUME NEW c \in Callbacks, NEW q \in Queues, NEW d \in {0, 1}, DrainRequestOf(c, q, d) /\ DeepOnly
      PROVE  Goal
  BY <1>20, <1>a DEF DrainRequestOf
<1>21. ASSUME NEW u \in Urls, Expand(u)
      PROVE  Goal
  BY <1>21, <1>a DEF Expand
<1>22. ASSUME NEW f \in Leaves, ReadLeaf(f)
      PROVE  Goal
  BY <1>22, <1>a DEF ReadLeaf
<1>23. ASSUME NEW f \in Leaves, LeafKnown(f)
      PROVE  Goal
  BY <1>23, <1>a DEF LeafKnown, vars
<1>24. ASSUME NEW f \in Leaves, LeafProduct(f)
      PROVE  Goal
  BY <1>24, <1>a DEF LeafProduct
<1>25. ASSUME NEW f \in Leaves, LeafOver(f)
      PROVE  Goal
  BY <1>25, <1>a DEF LeafOver, LeafOverFrom
<1>26. ASSUME NEW u \in Urls, ParseGraph(u)
      PROVE  Goal
  BY <1>26, <1>a DEF ParseGraph
<1>27. ASSUME NEW c \in Callbacks, Candidate(c)
      PROVE  Goal
  BY <1>27, <1>a DEF Candidate
<1>28. ASSUME NEW c \in Callbacks, CandidatesOver(c)
      PROVE  Goal
  BY <1>28, <1>a DEF CandidatesOver
<1>29. ASSUME NEW c \in Callbacks, DrainGraph(c)
      PROVE  Goal
  BY <1>29, <1>a DEF DrainGraph
<1>30. ASSUME NEW c \in Callbacks, DrainGraphOver(c)
      PROVE  Goal
  BY <1>30, <1>a DEF DrainGraphOver
<1>31. CASE UNCHANGED discovery
  BY <1>31, <1>a DEF discovery, vars
<1> QED
  BY Steps, <1>1, <1>2, <1>3, <1>4, <1>5, <1>6, <1>7, <1>8, <1>9, <1>10,
     <1>11, <1>12, <1>13, <1>14, <1>15, <1>16, <1>17, <1>18, <1>19, <1>20,
     <1>21, <1>22, <1>23, <1>24, <1>25, <1>26, <1>27, <1>28, <1>29, <1>30,
     <1>31

(* The links a page was read up to are remembered, and what is left of     *)
(* them is the rest of the page.                                           *)
ReadUpTo(l) == listing[l].state \in {"parsing", "done"} =>
                 \A i \in 1..Len(Links[l]) - Len(listing[l].links) : Remembered(Links[l][i])
PageRead(l) ==
    /\ listing[l].state = "parsing" => Unread(l)
    /\ \A u \in listing[l].seen : Remembered(u)
    /\ ReadUpTo(l)

(* What has come of a link or a candidate that was looked at.              *)
LEMMA LookedAt ==
  ASSUME TypeOK, LeafInv, GraphInv, RegistryInv, [DiscoveryNext]_discovery, Effects,
         NEW u \in Urls, NEW q \in Queues, NEW seen \in SUBSET Urls, NEW updated \in [Pages -> Product],
         \A s \in seen : Remembered(s),
         \/ (\E s \in seen : SourceId[s] = SourceId[u]) \/ Skip(u)
         \/ queue' = Enqueued(q, u)
         \/ RequestProduct(updated, u)
  PROVE  Remembered(u)'
<1>1. \A v \in Urls : Remembered(v) => Remembered(v)'
  BY RememberedForever
<1>2. CASE \E s \in seen : SourceId[s] = SourceId[u]
  BY <1>1, <1>2, SameIdRemembered
<1>3. CASE Skip(u)
  BY <1>1, <1>3, KnownIsRemembered
<1>4. CASE queue' = Enqueued(q, u)
  <2>1. u \in ToSet(queue'[q])
    BY <1>4, EnqueuedLists
  <2> QED
    BY <2>1 DEF Remembered, Waiting
<1>5. CASE RequestProduct(updated, u)
  <2>1. product'[u].state # "new"
    BY <1>5, ProductRequestTypes
  <2> QED
    BY <2>1 DEF Remembered
<1> QED
  BY <1>2, <1>3, <1>4, <1>5

LEMMA PagesReadOn ==
  ASSUME TypeOK, LeafInv, GraphInv, RegistryInv, [DiscoveryNext]_discovery, Effects,
         NEW l \in Listings, PageRead(l)
  PROVE  PageRead(l)'
<1>1. /\ listing[l].links \in Seq(Urls) /\ listing[l].seen \in SUBSET Urls
      /\ Links[l] \in Seq(Urls) /\ Len(Links[l]) \in Nat
      /\ \A i \in 1..Len(Links[l]) : Links[l][i] \in Urls
      /\ Len(listing[l].links) \in Nat
  <2>1. listing[l] \in Listing
    BY DEF TypeOK
  <2>2. listing[l].links \in Seq(Urls) /\ listing[l].seen \in SUBSET Urls /\ Links[l] \in Seq(Urls)
    BY <2>1, CrawlAssumption DEF Listing, CrawlAssumption
  <2> QED
    BY <2>2
<1>2. \A u \in Urls : Remembered(u) => Remembered(u)'
  BY RememberedForever
<1> DEFINE left == listing[l].links
<1>3. CASE QuietPage(l)
  <2>1. listing'[l].links = left /\ listing'[l].seen = listing[l].seen
    BY <1>3 DEF QuietPage
  <2>2. listing'[l].state = "parsing" => Unread(l)'
    BY <1>3, <2>1 DEF QuietPage, PageRead, Unread
  <2>3. \A u \in listing'[l].seen : Remembered(u)'
    BY <1>1, <1>2, <2>1 DEF PageRead
  <2>4. ReadUpTo(l)'
    <3>1. listing'[l].state \in {"parsing", "done"} => listing[l].state \in {"parsing", "done"}
      BY <1>3 DEF QuietPage
    <3>2. \A i \in 1..Len(Links[l]) - Len(left) : i \in 1..Len(Links[l])
      BY <1>1
    <3>3. ASSUME listing'[l].state \in {"parsing", "done"},
                 NEW i \in 1..Len(Links[l]) - Len(left)
          PROVE  Remembered(Links[l][i])'
      <4>1. Remembered(Links[l][i])
        BY <3>1, <3>3 DEF PageRead, ReadUpTo
      <4> QED
        BY <1>1, <1>2, <3>2, <4>1
    <3> QED
      BY <2>1, <3>3 DEF ReadUpTo
  <2> QED
    BY <2>2, <2>3, <2>4 DEF PageRead
<1>4. CASE ReadListing(l)
  <2>1. listing'[l].links = Links[l] /\ listing'[l].seen = listing[l].seen
    BY <1>4, ReadListingTypes
  <2>2. Unread(l)'
    BY <1>1, <2>1 DEF Unread
  <2>3. \A u \in listing'[l].seen : Remembered(u)'
    BY <1>1, <1>2, <2>1 DEF PageRead
  <2>4. ReadUpTo(l)'
    <3>1. 1..Len(Links[l]) - Len(listing'[l].links) = {}
      BY <1>1, <2>1
    <3> QED
      BY <3>1 DEF ReadUpTo
  <2> QED
    BY <2>2, <2>3, <2>4 DEF PageRead
<1>5. CASE FollowLink(l)
  <2>0. left # <<>>
    BY <1>5, FollowLinkKeeps
  <2>1. PICK u \in Urls, n \in Int : u = Head(left) /\ n = Len(Links[l]) - Len(left)
    <3>1. Head(left) \in Urls
      BY <1>1, <2>0
    <3>2. Len(Links[l]) - Len(left) \in Int
      BY <1>1
    <3> QED
      BY <3>1, <3>2
  <2>2. /\ listing[l].state = "parsing" /\ listing'[l].links = Tail(left)
        /\ listing'[l].seen \in {listing[l].seen, listing[l].seen \cup {u}}
        /\ listing'[l].state = "parsing"
        /\ u \in Urls /\ Tail(left) \in Seq(Urls) /\ Len(left) \in Nat \ {0}
        /\ Len(Tail(left)) = Len(left) - 1
        /\ \A i \in 1..Len(left) - 1 : Tail(left)[i] = left[i + 1]
        /\ u = left[1]
    BY <1>1, <1>5, <2>0, <2>1, TailHead, FollowLinkKeeps
  <2>3. /\ Len(left) <= Len(Links[l])
        /\ \A i \in 1..Len(left) : left[i] = Links[l][n + i]
    BY <2>1, <2>2 DEF PageRead, Unread
  <2>4. /\ n \in Nat /\ n + 1 \in 1..Len(Links[l]) /\ Links[l][n + 1] = u
        /\ Len(Links[l]) - Len(Tail(left)) = n + 1
    <3>1. 1 \in 1..Len(left)
      BY <2>2
    <3>2. Links[l][n + 1] = u
      BY <2>2, <2>3, <3>1
    <3>3. /\ n \in Nat /\ n + 1 \in 1..Len(Links[l])
          /\ Len(Links[l]) - Len(Tail(left)) = n + 1
      <4>1. Len(left) \in Nat \ {0} /\ Len(Tail(left)) = Len(left) - 1 /\ Len(left) <= Len(Links[l])
        BY <2>2, <2>3
      <4>2. Len(Links[l]) \in Nat /\ n = Len(Links[l]) - Len(left)
        BY <1>1, <2>1
      <4> HIDE DEF left
      <4> QED
        BY <4>1, <4>2
    <3> QED
      BY <3>2, <3>3
  <2>5. Remembered(u)'
    <3>1. \/ (\E s \in listing[l].seen : SourceId[s] = SourceId[u]) \/ Skip(u)
          \/ queue' = Enqueued("framework", u)
          \/ RequestProduct(product, u)
      BY <1>5, <2>1 DEF FollowLink
    <3>2. product \in [Pages -> Product] /\ "framework" \in Queues
      BY DEF TypeOK, Queues
    <3>3. \A s \in listing[l].seen : Remembered(s)
      BY DEF PageRead
    <3> QED
      BY <1>1, <3>1, <3>2, <3>3, LookedAt
  <2>6. Unread(l)'
    <3>1. Len(Tail(left)) <= Len(Links[l])
      BY <1>1, <2>2, <2>3
    <3>2. ASSUME NEW i \in 1..Len(left) - 1
          PROVE  Tail(left)[i] = Links[l][n + 1 + i]
      <4>1. i + 1 \in 1..Len(left) /\ n + (i + 1) = n + 1 + i
        BY <2>2, <2>4
      <4> QED
        BY <2>2, <2>3, <4>1
    <3> QED
      BY <2>1, <2>2, <2>4, <3>1, <3>2 DEF Unread
  <2>7. \A v \in listing'[l].seen : Remembered(v)'
    BY <1>1, <1>2, <2>2, <2>5 DEF PageRead
  <2>8. ReadUpTo(l)'
    <3>1. ASSUME NEW i \in 1..n + 1
          PROVE  Remembered(Links[l][i])'
      <4>1. CASE i = n + 1
        BY <2>4, <2>5, <4>1
      <4>2. CASE i # n + 1
        <5>1. i \in 1..n /\ Links[l][i] \in Urls
          BY <1>1, <2>4, <4>2
        <5>2. Remembered(Links[l][i])
          BY <2>1, <2>2, <5>1 DEF PageRead, ReadUpTo
        <5> QED
          BY <1>2, <5>1, <5>2
      <4> QED
        BY <4>1, <4>2
    <3> QED
      BY <2>2, <2>4, <3>1 DEF ReadUpTo
  <2> QED
    BY <2>6, <2>7, <2>8 DEF PageRead
<1> QED
  BY <1>3, <1>4, <1>5, PagesMove DEF PageMoves

-----------------------------------------------------------------------------
(* The sitemap, the leaves and the candidates.                             *)

(* The own queue of a store that reads a sitemap is filled when it is read.*)
LEMMA OwnQueue ==
  ASSUME TypeOK, LeafInv, [DiscoveryNext]_discovery
  PROVE  queue["own"] = <<>> =>
           queue'["own"] = <<>> \/ ReadSitemap \/ shop.discovery = "graph"
<1> DEFINE Goal == queue'["own"] = <<>> \/ ReadSitemap \/ shop.discovery = "graph"
<1> SUFFICES ASSUME queue["own"] = <<>> PROVE Goal
  OBVIOUS
<1>a. CASE queue'["own"] = queue["own"]
  BY <1>a
<1>b. /\ queue \in [Queues -> Seq(Urls)] /\ drain \in [Callbacks -> Callback]
      /\ listing \in [Listings -> Listing] /\ "own" \in Queues
  BY DEF TypeOK, Callbacks, Queues
<1>c. ASSUME NEW c \in Callbacks, At(c, "links") PROVE shop.discovery = "graph"
  <2>1. drain[c].queues \in Seq(Stages(shop)) /\ drain[c].queues # <<>> /\ Head(drain[c].queues) = "links"
    BY <1>b, <1>c DEF Callback, At
  <2>2. "links" \in Stages(shop)
    BY <2>1
  <2> QED
    BY <2>2 DEF Stages, Queues
<1> HIDE DEF Goal
<1>1. CASE StartSeed /\ UNCHANGED own
  BY <1>1, <1>a DEF StartSeed
<1>2. ASSUME NEW l \in Listings, LoseListing(l) /\ UNCHANGED own
      PROVE  Goal
  BY <1>2, <1>a DEF LoseListing
<1>3. ASSUME NEW p \in Urls \cup Leaves, LoseProduct(p) /\ UNCHANGED own
      PROVE  Goal
  BY <1>3, <1>a DEF LoseProduct
<1>4. ASSUME NEW u \in Urls, RejectProduct(u) /\ UNCHANGED own
      PROVE  Goal
  BY <1>4, <1>a DEF RejectProduct
<1>5. ASSUME NEW f \in Leaves, LoseLeaf(f)
      PROVE  Goal
  BY <1>5, <1>a DEF LoseLeaf
<1>6. ASSUME NEW u \in Urls, LoseGraph(u)
      PROVE  Goal
  BY <1>6, <1>a DEF LoseGraph
<1>7. CASE HomepageBreaks
  BY <1>7, <1>a DEF HomepageBreaks
<1>8. CASE ReadSitemap
  BY <1>8 DEF Goal
<1>9. CASE ReadIndex
  BY <1>9, <1>a DEF ReadIndex
<1>10. CASE HomepageArrives
  BY <1>10, <1>a DEF HomepageArrives
<1>11. CASE HomepageShowsNone
  BY <1>11, <1>a DEF HomepageShowsNone, ReadListing
<1>12. CASE HomepageShows
  BY <1>12, <1>a DEF HomepageShows
<1>13. ASSUME NEW l \in Listings, Parses(l)
      PROVE  Goal
  BY <1>13, <1>a DEF Parses, ParseListing, ReadListing
<1>14. ASSUME NEW l \in Listings, FollowLink(l) /\ UNCHANGED own
      PROVE  Goal
  <2>1. Head(listing[l].links) \in Urls
    <3>1. listing[l].links \in Seq(Urls) /\ listing[l].links # <<>>
      BY <1>14, <1>b DEF Listing, FollowLink
    <3> QED
      BY <3>1
  <2>2. queue' = queue \/ queue' = Enqueued("framework", Head(listing[l].links))
    BY <1>14 DEF FollowLink
  <2>3. "framework" \in Queues /\ "own" # "framework"
    BY DEF Queues
  <2> QED
    BY <1>a, <1>b, <2>1, <2>2, <2>3, EnqueuedLists
<1>15. ASSUME NEW l \in Listings, FollowSubcategory(l) /\ UNCHANGED own
      PROVE  Goal
  BY <1>15, <1>a DEF FollowSubcategory
<1>16. ASSUME NEW l \in Listings, Paginate(l) /\ UNCHANGED own
      PROVE  Goal
  BY <1>16, <1>a DEF Paginate
<1>17. ASSUME NEW u \in Urls, ParseProduct(u) /\ UNCHANGED own
      PROVE  Goal
  BY <1>17, <1>a DEF ParseProduct
<1>18. ASSUME NEW c \in Callbacks, NEW q \in Queues, DrainOver(c, q) /\ UNCHANGED own
      PROVE  Goal
  BY <1>18, <1>a DEF DrainOver
<1>19. ASSUME NEW c \in Callbacks, NEW q \in Queues, DrainKnown(c, q) /\ DeepOnly
      PROVE  Goal
  <2>1. queue[q] # <<>> /\ queue' = [queue EXCEPT ![q] = Tail(queue[q])]
    BY <1>19 DEF DrainKnown, HasTurn
  <2> QED
    BY <1>a, <1>b, <2>1
<1>20. ASSUME NEW c \in Callbacks, NEW q \in Queues, NEW d \in {0, 1}, DrainRequestOf(c, q, d) /\ DeepOnly
      PROVE  Goal
  <2>1. queue[q] # <<>> /\ queue' = [queue EXCEPT ![q] = Tail(queue[q])]
    BY <1>20 DEF DrainRequestOf, HasTurn
  <2> QED
    BY <1>a, <1>b, <2>1
<1>21. ASSUME NEW u \in Urls, Expand(u)
      PROVE  Goal
  BY <1>21, <1>a DEF Expand
<1>22. ASSUME NEW f \in Leaves, ReadLeaf(f)
      PROVE  Goal
  BY <1>22, <1>a DEF ReadLeaf
<1>23. ASSUME NEW f \in Leaves, LeafKnown(f)
      PROVE  Goal
  BY <1>23, <1>a DEF LeafKnown, vars
<1>24. ASSUME NEW f \in Leaves, LeafProduct(f)
      PROVE  Goal
  BY <1>24, <1>a DEF LeafProduct
<1>25. ASSUME NEW f \in Leaves, LeafOver(f)
      PROVE  Goal
  BY <1>25, <1>a DEF LeafOver, LeafOverFrom
<1>26. ASSUME NEW u \in Urls, ParseGraph(u)
      PROVE  Goal
  BY <1>26, <1>a DEF ParseGraph
<1>27. ASSUME NEW c \in Callbacks, Candidate(c)
      PROVE  Goal
  BY <1>27, <1>c DEF Candidate, Goal
<1>28. ASSUME NEW c \in Callbacks, CandidatesOver(c)
      PROVE  Goal
  BY <1>28, <1>a DEF CandidatesOver
<1>29. ASSUME NEW c \in Callbacks, DrainGraph(c)
      PROVE  Goal
  BY <1>29, <1>a DEF DrainGraph
<1>30. ASSUME NEW c \in Callbacks, DrainGraphOver(c)
      PROVE  Goal
  BY <1>30, <1>a DEF DrainGraphOver
<1>31. CASE UNCHANGED discovery
  BY <1>31, <1>a DEF discovery, vars
<1> QED
  BY Steps, <1>1, <1>2, <1>3, <1>4, <1>5, <1>6, <1>7, <1>8, <1>9, <1>10,
     <1>11, <1>12, <1>13, <1>14, <1>15, <1>16, <1>17, <1>18, <1>19, <1>20,
     <1>21, <1>22, <1>23, <1>24, <1>25, <1>26, <1>27, <1>28, <1>29, <1>30,
     <1>31

(* The products of a sitemap, of the leaves and of the candidates, as far  *)
(* as they were read.                                                      *)
SitemapRead ==
    shop.discovery = "sitemap" =>
      /\ listing[Entry].state \in {"new", "queued"} => queue["own"] = <<>>
      /\ listing[Entry].state = "seeded" => \A u \in ToSet(shop.sitemap) : Remembered(u)

LEMMA SitemapReadOn ==
  ASSUME TypeOK, LeafInv, GraphInv, RegistryInv, [DiscoveryNext]_discovery, Effects, shop' = shop,
         SitemapRead
  PROVE  SitemapRead'
<1> SUFFICES ASSUME shop.discovery = "sitemap"
             PROVE  /\ listing'[Entry].state \in {"new", "queued"} => queue'["own"] = <<>>
                    /\ listing'[Entry].state = "seeded" => \A u \in ToSet(shop.sitemap) : Remembered(u)'
  BY DEF SitemapRead, Entry
<1>1. Entry \in Listings /\ shop.sitemap \in Seq(Urls)
  BY ShopTypes DEF TypeOK
<1>2. ToSet(shop.sitemap) \subseteq Urls
  BY <1>1 DEF ToSet
<1>3. CASE ReadSitemap
  <2>1. /\ listing[Entry].state = "queued" /\ listing' = [listing EXCEPT ![Entry].state = "seeded"]
        /\ queue["own"] = <<>> => queue' = [queue EXCEPT !["own"] = Fresh(shop.sitemap)]
    BY <1>3 DEF ReadSitemap, EntryTo
  <2>2. queue["own"] = <<>>
    BY <2>1 DEF SitemapRead
  <2>3. queue'["own"] = Fresh(shop.sitemap)
    BY <2>1, <2>2 DEF TypeOK, Queues
  <2>4. listing'[Entry].state = "seeded"
    BY <1>1, <2>1, StateMoved DEF ListingStates
  <2>5. ASSUME NEW u \in ToSet(shop.sitemap) PROVE Remembered(u)'
    <3>1. PICK i \in 1..Len(shop.sitemap) : u = shop.sitemap[i]
      BY <1>1 DEF ToSet
    <3>2. Skip(u) \/ \E v \in ToSet(Fresh(shop.sitemap)) : SourceId[v] = SourceId[u]
      BY <1>1, <3>1, FreshLists
    <3>3. CASE Skip(u)
      BY <1>2, <3>3, KnownIsRemembered, RememberedForever
    <3>4. CASE \E v \in ToSet(Fresh(shop.sitemap)) : SourceId[v] = SourceId[u]
      <4>1. PICK v \in ToSet(Fresh(shop.sitemap)) : SourceId[v] = SourceId[u]
        BY <3>4
      <4>2. v \in Urls
        <5>1. Fresh(shop.sitemap) \in Seq(Urls)
          BY <1>1, FreshLists
        <5> QED
          BY <4>1, <5>1 DEF ToSet
      <4>3. v \in Waiting'
        BY <2>3, <4>1 DEF Waiting, Queues
      <4> QED
        BY <4>1, <4>2, <4>3 DEF Remembered
    <3> QED
      BY <3>2, <3>3, <3>4
  <2> QED
    BY <2>4, <2>5
<1>4. CASE ~ReadSitemap
  <2>1. listing'[Entry].state \in {"new", "queued"} => queue'["own"] = <<>>
    BY <1>1, <1>4, OwnQueue, StatesKeep DEF SitemapRead
  <2>2. ASSUME listing'[Entry].state = "seeded" PROVE \A u \in ToSet(shop.sitemap) : Remembered(u)'
    <3>1. listing[Entry].state = "seeded"
      <4>1. CASE QuietPage(Entry)
        BY <1>4, <2>2, <4>1 DEF QuietPage
      <4>2. CASE ReadListing(Entry)
        BY <1>1, <2>2, <4>2, ReadListingTypes
      <4>3. CASE FollowLink(Entry)
        BY <1>1, <2>2, <4>3, FollowLinkKeeps
      <4> QED
        BY <1>1, <4>1, <4>2, <4>3, PagesMove DEF PageMoves
    <3> QED
      BY <1>2, <3>1, RememberedForever DEF SitemapRead
  <2> QED
    BY <2>1, <2>2
<1> QED
  BY <1>3, <1>4

(* The leaves and the candidates.                                          *)
LeavesReadUpTo == \A f \in Leaves : \A i \in 1..leaf[f].offset : Remembered(LeafUrls[f][i])
CandidatesSeen == \A u \in fan.seen : Remembered(u)

LEMMA LeavesReadOn ==
  ASSUME TypeOK, LeafInv, GraphInv, RegistryInv, [DiscoveryNext]_discovery, Effects,
         LeavesReadUpTo, CandidatesSeen
  PROVE  LeavesReadUpTo' /\ CandidatesSeen'
<1> DEFINE Goal == LeavesReadUpTo' /\ CandidatesSeen'
<1> SUFFICES Goal
  OBVIOUS
<1>a. \A u \in Urls : Remembered(u) => Remembered(u)'
  BY RememberedForever
<1>b. /\ leaf \in [Leaves -> [offset : Nat, until : Nat]] /\ graph \in Opening
      /\ fan \in Candidates /\ fan.seen \subseteq Urls /\ fan.links \in Seq(Urls)
      /\ product \in [Pages -> Product] /\ LeafUrls \in [Leaves -> Seq(Urls)]
  BY DiscoveryAssumption DEF TypeOK, Candidates, DiscoveryAssumption
<1>c. \A f \in Leaves : \A i \in 1..leaf[f].offset : LeafUrls[f][i] \in Urls
  <2> SUFFICES ASSUME NEW f \in Leaves, NEW i \in 1..leaf[f].offset PROVE LeafUrls[f][i] \in Urls
    OBVIOUS
  <2>1. LeafUrls[f] \in Seq(Urls) /\ leaf[f].offset \in Nat /\ leaf[f].until \in Nat
    BY <1>b
  <2>2. i \in 1..Len(LeafUrls[f])
    BY <2>1 DEF LeafInv
  <2> QED
    BY <2>1, <2>2
<1>d. ASSUME \A f \in Leaves : leaf'[f].offset = leaf[f].offset PROVE LeavesReadUpTo'
  BY <1>a, <1>c, <1>d DEF LeavesReadUpTo
<1>e. ASSUME fan'.seen \subseteq fan.seen PROVE CandidatesSeen'
  BY <1>a, <1>b, <1>e DEF CandidatesSeen
<1>f. CASE leaf' = leaf /\ fan' = fan
  BY <1>d, <1>e, <1>f
<1>g. ASSUME NEW f \in Leaves, Reads(f), NextUrl(f), Skip(LeafUrl(f)) \/ RequestProduct(product, LeafUrl(f)),
             fan' = fan
      PROVE  Goal
  <2>1. PICK u \in Urls, n \in Nat : u = LeafUrl(f) /\ n = leaf[f].offset /\ u = LeafUrls[f][n + 1]
    BY <1>b, <1>g, LeafUrlTypes
  <2>2. leaf'[f].offset = n + 1 /\ \A g \in Leaves \ {f} : leaf'[g] = leaf[g]
    BY <1>g, <2>1, NextUrlTypes
  <2>3. Remembered(u)'
    <3>1. CASE Skip(u)
      BY <1>a, <2>1, <3>1, KnownIsRemembered
    <3>2. CASE RequestProduct(product, u)
      <4>1. product'[u].state # "new"
        BY <1>b, <2>1, <3>2, ProductRequestTypes
      <4> QED
        BY <2>1, <4>1 DEF Remembered
    <3> QED
      BY <1>g, <2>1, <3>1, <3>2
  <2>4. ASSUME NEW i \in 1..n + 1 PROVE Remembered(LeafUrls[f][i])'
    <3>1. CASE i = n + 1
      BY <2>1, <2>3, <3>1
    <3>2. CASE i # n + 1
      <4>1. i \in 1..n
        BY <2>1, <3>2
      <4> QED
        BY <1>a, <1>c, <2>1, <4>1 DEF LeavesReadUpTo
    <3> QED
      BY <3>1, <3>2
  <2>5. ASSUME NEW g \in Leaves, g # f, NEW i \in 1..leaf'[g].offset PROVE Remembered(LeafUrls[g][i])'
    BY <1>a, <1>c, <2>2, <2>5 DEF LeavesReadUpTo
  <2>6. LeavesReadUpTo'
    BY <2>2, <2>4, <2>5 DEF LeavesReadUpTo
  <2> QED
    BY <1>e, <1>g, <2>6
<1> HIDE DEF Goal
<1>1. CASE StartSeed /\ UNCHANGED own
  BY <1>1, <1>f DEF own
<1>2. ASSUME NEW l \in Listings, LoseListing(l) /\ UNCHANGED own
      PROVE  Goal
  BY <1>2, <1>f DEF own
<1>3. ASSUME NEW p \in Urls \cup Leaves, LoseProduct(p) /\ UNCHANGED own
      PROVE  Goal
  BY <1>3, <1>f DEF own
<1>4. ASSUME NEW u \in Urls, RejectProduct(u) /\ UNCHANGED own
      PROVE  Goal
  BY <1>4, <1>f DEF own
<1>5. ASSUME NEW f \in Leaves, LoseLeaf(f)
      PROVE  Goal
  BY <1>5, <1>f DEF LoseLeaf, own
<1>6. ASSUME NEW u \in Urls, LoseGraph(u)
      PROVE  Goal
  BY <1>6, <1>f DEF LoseGraph, own
<1>7. CASE HomepageBreaks
  BY <1>7, <1>f DEF HomepageBreaks, own
<1>8. CASE ReadSitemap
  BY <1>8, <1>f DEF ReadSitemap, own
<1>9. CASE ReadIndex
  BY <1>9, <1>f DEF ReadIndex, own
<1>10. CASE HomepageArrives
  BY <1>10, <1>f DEF HomepageArrives, own
<1>11. CASE HomepageShowsNone
  BY <1>11, <1>f DEF HomepageShowsNone, own
<1>12. CASE HomepageShows
  <2>1. fan'.seen = {} /\ leaf' = leaf
    BY <1>12 DEF HomepageShows, NoFan
  <2> QED
    BY <1>d, <1>e, <2>1 DEF Goal
<1>13. ASSUME NEW l \in Listings, Parses(l)
      PROVE  Goal
  BY <1>13, <1>f DEF Parses, own
<1>14. ASSUME NEW l \in Listings, FollowLink(l) /\ UNCHANGED own
      PROVE  Goal
  BY <1>14, <1>f DEF own
<1>15. ASSUME NEW l \in Listings, FollowSubcategory(l) /\ UNCHANGED own
      PROVE  Goal
  BY <1>15, <1>f DEF own
<1>16. ASSUME NEW l \in Listings, Paginate(l) /\ UNCHANGED own
      PROVE  Goal
  BY <1>16, <1>f DEF own
<1>17. ASSUME NEW u \in Urls, ParseProduct(u) /\ UNCHANGED own
      PROVE  Goal
  BY <1>17, <1>f DEF own
<1>18. ASSUME NEW c \in Callbacks, NEW q \in Queues, DrainOver(c, q) /\ UNCHANGED own
      PROVE  Goal
  BY <1>18, <1>f DEF own
<1>19. ASSUME NEW c \in Callbacks, NEW q \in Queues, DrainKnown(c, q) /\ DeepOnly
      PROVE  Goal
  BY <1>19, <1>f DEF DeepOnly
<1>20. ASSUME NEW c \in Callbacks, NEW q \in Queues, NEW d \in {0, 1}, DrainRequestOf(c, q, d) /\ DeepOnly
      PROVE  Goal
  BY <1>20, <1>f DEF DeepOnly
<1>21. ASSUME NEW u \in Urls, Expand(u)
      PROVE  Goal
  BY <1>21, <1>f DEF Expand
<1>22. ASSUME NEW f \in Leaves, ReadLeaf(f)
      PROVE  Goal
  <2>1. leaf' = [leaf EXCEPT ![f].until = Min({leaf[f].until + Batch, Len(LeafUrls[f])})] /\ fan' = fan
    BY <1>22 DEF ReadLeaf
  <2>2. \A g \in Leaves : leaf'[g].offset = leaf[g].offset
    BY <1>b, <2>1
  <2> QED
    BY <1>d, <1>e, <2>1, <2>2 DEF Goal
<1>23. ASSUME NEW f \in Leaves, LeafKnown(f)
      PROVE  Goal
  BY <1>23, <1>g DEF LeafKnown
<1>24. ASSUME NEW f \in Leaves, LeafProduct(f)
      PROVE  Goal
  BY <1>24, <1>g DEF LeafProduct
<1>25. ASSUME NEW f \in Leaves, LeafOver(f)
      PROVE  Goal
  <2>1. leaf' = [leaf EXCEPT ![f] = [offset |-> leaf[f].offset, until |-> leaf[f].offset]] /\ fan' = fan
    BY <1>25 DEF LeafOver, LeafOverFrom
  <2>2. \A g \in Leaves : leaf'[g].offset = leaf[g].offset
    BY <1>b, <2>1
  <2> QED
    BY <1>d, <1>e, <2>1, <2>2 DEF Goal
<1>26. ASSUME NEW u \in Urls, ParseGraph(u)
      PROVE  Goal
  <2>1. fan'.seen = {} /\ leaf' = leaf
    BY <1>26 DEF ParseGraph, NoFan
  <2> QED
    BY <1>d, <1>e, <2>1 DEF Goal
<1>27. ASSUME NEW c \in Callbacks, Candidate(c)
      PROVE  Goal
  <2>1. fan.links # <<>> /\ Head(fan.links) \in Urls
    BY <1>27, <1>b, TailHead DEF Candidate
  <2>2. PICK u \in Urls : u = Head(fan.links)
    BY <2>1
  <2> DEFINE updated == [product EXCEPT ![u].depth = Depth(c)]
  <2>a. /\ leaf' = leaf
        /\ fan'.seen \in {fan.seen, fan.seen \cup {u}}
        /\ \/ (\E s \in fan.seen : SourceId[s] = SourceId[u]) \/ Skip(u)
           \/ queue' = Enqueued("own", u)
           \/ RequestProduct(updated, u)
    BY <1>27, <1>b, <2>2 DEF Candidate, Candidates
  <2>3. updated \in [Pages -> Product] /\ "own" \in Queues
    BY Moved DEF Depth, Queues, Pages
  <2> HIDE DEF updated
  <2>4. Remembered(u)'
    <3>1. \A s \in fan.seen : Remembered(s)
      BY DEF CandidatesSeen
    <3> QED
      BY <1>b, <2>a, <2>3, <3>1, LookedAt
  <2>5. CandidatesSeen'
    BY <1>a, <1>b, <2>a, <2>4 DEF CandidatesSeen
  <2> QED
    BY <1>d, <2>a, <2>5 DEF Goal
<1>28. ASSUME NEW c \in Callbacks, CandidatesOver(c)
      PROVE  Goal
  <2>1. fan'.seen = {} /\ leaf' = leaf
    BY <1>28 DEF CandidatesOver, NoFan
  <2> QED
    BY <1>d, <1>e, <2>1 DEF Goal
<1>29. ASSUME NEW c \in Callbacks, DrainGraph(c)
      PROVE  Goal
  BY <1>29, <1>f DEF DrainGraph
<1>30. ASSUME NEW c \in Callbacks, DrainGraphOver(c)
      PROVE  Goal
  BY <1>30, <1>f DEF DrainGraphOver, own
<1>31. CASE UNCHANGED discovery
  BY <1>31, <1>f DEF discovery, own
<1> QED
  BY Steps, <1>1, <1>2, <1>3, <1>4, <1>5, <1>6, <1>7, <1>8, <1>9, <1>10,
     <1>11, <1>12, <1>13, <1>14, <1>15, <1>16, <1>17, <1>18, <1>19, <1>20,
     <1>21, <1>22, <1>23, <1>24, <1>25, <1>26, <1>27, <1>28, <1>29, <1>30,
     <1>31

-----------------------------------------------------------------------------
(* Who empties the queues.                                                 *)

(* A callback's queues change when it begins and while it has some.        *)
LEMMA DrainMoves ==
  ASSUME TypeOK, LeafInv, [DiscoveryNext]_discovery
  PROVE  \A k \in Callbacks :
           \/ drain'[k] = drain[k] \/ drain[k].queues # <<>>
           \/ k \in Pages /\ product'[k].state \notin {"new", "queued"}
           \/ k \in Listings /\ listing'[k].state \notin {"new", "queued", "awaiting"}
<1> DEFINE Ok(k) == \/ drain'[k] = drain[k] \/ drain[k].queues # <<>>
                    \/ k \in Pages /\ product'[k].state \notin {"new", "queued"}
                    \/ k \in Listings /\ listing'[k].state \notin {"new", "queued", "awaiting"}
           Goal == \A k \in Callbacks : Ok(k)
<1> SUFFICES Goal
  OBVIOUS
<1>a. CASE drain' = drain
  BY <1>a
<1>b. drain \in [Callbacks -> Callback] /\ Pages \subseteq Callbacks /\ Listings \subseteq Callbacks
  BY DEF TypeOK, Callbacks
<1>c. ASSUME NEW c \in Callbacks, drain[c].queues # <<>>, \A k \in Callbacks \ {c} : drain'[k] = drain[k]
      PROVE  Goal
  BY <1>c
<1>d. ASSUME NEW c \in Callbacks, NEW s, drain' = [drain EXCEPT ![c].queues = s],
             \/ c \in Pages /\ product'[c].state \notin {"new", "queued"}
             \/ c \in Listings /\ listing'[c].state \notin {"new", "queued", "awaiting"}
      PROVE  Goal
  BY <1>b, <1>d
<1>e. ASSUME NEW c \in Callbacks, drain[c].queues # <<>>, EndTurn(c) PROVE Goal
  BY <1>b, <1>c, <1>e DEF EndTurn
<1> HIDE DEF Goal
<1>1. CASE StartSeed /\ UNCHANGED own
  BY <1>1, <1>a DEF StartSeed
<1>2. ASSUME NEW l \in Listings, LoseListing(l) /\ UNCHANGED own
      PROVE  Goal
  <2>1. /\ listing' = [listing EXCEPT ![l].state = "failed"]
        /\ drain' = [drain EXCEPT ![l].queues = shop.errback]
    BY <1>2 DEF LoseListing, EntryTo
  <2>2. l \in Listings /\ l \in Callbacks
    BY <1>2, <1>b, ShopTypes DEF LoseListing, TypeOK
  <2>3. listing'[l].state = "failed"
    BY <2>1, <2>2, StateMoved DEF ListingStates
  <2> QED
    BY <1>d, <2>1, <2>2, <2>3
<1>3. ASSUME NEW p \in Urls \cup Leaves, LoseProduct(p) /\ UNCHANGED own
      PROVE  Goal
  <2>1. /\ product' = [product EXCEPT ![p].state = "failed"]
        /\ drain' = [drain EXCEPT ![p].queues = shop.errback]
    BY <1>3 DEF LoseProduct
  <2>2. p \in Pages /\ p \in Callbacks
    BY <1>b, PageKinds
  <2>3. product'[p].state = "failed"
    BY <2>1, <2>2, StateMoved DEF ProductStates
  <2> QED
    BY <1>d, <2>1, <2>2, <2>3
<1>4. ASSUME NEW u \in Urls, RejectProduct(u) /\ UNCHANGED own
      PROVE  Goal
  BY <1>4, <1>a DEF RejectProduct
<1>5. ASSUME NEW f \in Leaves, LoseLeaf(f)
      PROVE  Goal
  BY <1>5, <1>a DEF LoseLeaf
<1>6. ASSUME NEW u \in Urls, LoseGraph(u)
      PROVE  Goal
  BY <1>6, <1>a DEF LoseGraph
<1>7. CASE HomepageBreaks
  BY <1>7, <1>a DEF HomepageBreaks
<1>8. CASE ReadSitemap
  <2>1. /\ listing' = [listing EXCEPT ![Entry].state = "seeded"]
        /\ drain' = [drain EXCEPT ![Entry].queues = <<"own">>]
    BY <1>8 DEF ReadSitemap, EntryTo
  <2>2. Entry \in Listings /\ Entry \in Callbacks
    BY <1>8, <1>b, ShopTypes DEF ReadSitemap, TypeOK
  <2>3. listing'[Entry].state = "seeded"
    BY <2>1, <2>2, StateMoved DEF ListingStates
  <2> QED
    BY <1>d, <2>1, <2>2, <2>3
<1>9. CASE ReadIndex
  BY <1>9, <1>a DEF ReadIndex
<1>10. CASE HomepageArrives
  BY <1>10, <1>a DEF HomepageArrives
<1>11. CASE HomepageShowsNone
  BY <1>11, <1>a DEF HomepageShowsNone, ReadListing
<1>12. CASE HomepageShows
  <2>1. /\ listing' = [listing EXCEPT ![Entry].state = "seeded"]
        /\ drain' = [drain EXCEPT ![Entry].queues = <<"links">>]
    BY <1>12 DEF HomepageShows, EntryTo
  <2>2. Entry \in Listings /\ Entry \in Callbacks
    BY <1>12, <1>b, ShopTypes DEF HomepageShows, TypeOK
  <2>3. listing'[Entry].state = "seeded"
    BY <2>1, <2>2, StateMoved DEF ListingStates
  <2> QED
    BY <1>d, <2>1, <2>2, <2>3
<1>13. ASSUME NEW l \in Listings, Parses(l)
      PROVE  Goal
  BY <1>13, <1>a DEF Parses, ParseListing, ReadListing
<1>14. ASSUME NEW l \in Listings, FollowLink(l) /\ UNCHANGED own
      PROVE  Goal
  BY <1>14, <1>a DEF FollowLink
<1>15. ASSUME NEW l \in Listings, FollowSubcategory(l) /\ UNCHANGED own
      PROVE  Goal
  BY <1>15, <1>a DEF FollowSubcategory
<1>16. ASSUME NEW l \in Listings, Paginate(l) /\ UNCHANGED own
      PROVE  Goal
  BY <1>16, <1>a DEF Paginate
<1>17. ASSUME NEW u \in Urls, ParseProduct(u) /\ UNCHANGED own
      PROVE  Goal
  <2>1. /\ product' = [product EXCEPT ![u].state = "done"]
        /\ drain' = [drain EXCEPT ![u].queues = shop.drains]
    BY <1>17 DEF ParseProduct
  <2>2. u \in Pages /\ u \in Callbacks
    BY <1>b, PageKinds
  <2>3. product'[u].state = "done"
    BY <2>1, <2>2, StateMoved DEF ProductStates
  <2> QED
    BY <1>d, <2>1, <2>2, <2>3
<1>18. ASSUME NEW c \in Callbacks, NEW q \in Queues, DrainOver(c, q) /\ UNCHANGED own
      PROVE  Goal
  BY <1>18, <1>e DEF DrainOver, At
<1>19. ASSUME NEW c \in Callbacks, NEW q \in Queues, DrainKnown(c, q) /\ DeepOnly
      PROVE  Goal
  BY <1>19, <1>a DEF DrainKnown
<1>20. ASSUME NEW c \in Callbacks, NEW q \in Queues, NEW d \in {0, 1}, DrainRequestOf(c, q, d) /\ DeepOnly
      PROVE  Goal
  <2>1. drain[c].queues # <<>> /\ drain' = [drain EXCEPT ![c].drained = drain[c].drained + 1]
    BY <1>20 DEF DrainRequestOf, At
  <2>2. \A k \in Callbacks \ {c} : drain'[k] = drain[k]
    BY <1>b, <2>1
  <2> QED
    BY <1>c, <2>1, <2>2
<1>21. ASSUME NEW u \in Urls, Expand(u)
      PROVE  Goal
  <2>1. u \in Callbacks
    BY DEF Callbacks, Pages
  <2> QED
    BY <1>21, <1>e, <2>1 DEF Expand, At
<1>22. ASSUME NEW f \in Leaves, ReadLeaf(f)
      PROVE  Goal
  BY <1>22, <1>a DEF ReadLeaf
<1>23. ASSUME NEW f \in Leaves, LeafKnown(f)
      PROVE  Goal
  BY <1>23, <1>a DEF LeafKnown, vars
<1>24. ASSUME NEW f \in Leaves, LeafProduct(f)
      PROVE  Goal
  BY <1>24, <1>a DEF LeafProduct
<1>25. ASSUME NEW f \in Leaves, LeafOver(f)
      PROVE  Goal
  BY <1>25, <1>a DEF LeafOver, LeafOverFrom
<1>26. ASSUME NEW u \in Urls, ParseGraph(u)
      PROVE  Goal
  <2>1. /\ product' = [product EXCEPT ![Graph(u)].state = "done"]
        /\ drain' = [drain EXCEPT ![Graph(u)].queues = shop.others]
    BY <1>26 DEF ParseGraph
  <2>2. Graph(u) \in Pages /\ Graph(u) \in Callbacks
    BY <1>b, PageKinds
  <2>3. product'[Graph(u)].state = "done"
    BY <2>1, <2>2, StateMoved DEF ProductStates
  <2> QED
    BY <1>d, <2>1, <2>2, <2>3
<1>27. ASSUME NEW c \in Callbacks, Candidate(c)
      PROVE  Goal
  BY <1>27, <1>a DEF Candidate
<1>28. ASSUME NEW c \in Callbacks, CandidatesOver(c)
      PROVE  Goal
  BY <1>28, <1>e DEF CandidatesOver, At
<1>29. ASSUME NEW c \in Callbacks, DrainGraph(c)
      PROVE  Goal
  <2>1. drain[c].queues # <<>> /\ drain' = [drain EXCEPT ![c].drained = drain[c].drained + 1]
    BY <1>29 DEF DrainGraph, At
  <2>2. \A k \in Callbacks \ {c} : drain'[k] = drain[k]
    BY <1>b, <2>1
  <2> QED
    BY <1>c, <2>1, <2>2
<1>30. ASSUME NEW c \in Callbacks, DrainGraphOver(c)
      PROVE  Goal
  BY <1>30, <1>e DEF DrainGraphOver, At
<1>31. CASE UNCHANGED discovery
  BY <1>31, <1>a DEF discovery, vars
<1> QED
  BY Steps, <1>1, <1>2, <1>3, <1>4, <1>5, <1>6, <1>7, <1>8, <1>9, <1>10,
     <1>11, <1>12, <1>13, <1>14, <1>15, <1>16, <1>17, <1>18, <1>19, <1>20,
     <1>21, <1>22, <1>23, <1>24, <1>25, <1>26, <1>27, <1>28, <1>29, <1>30,
     <1>31

LEMMA NextDrain ==
  ASSUME TypeOK, LeafInv, GraphInv, DrainInv, [DiscoveryNext]_discovery, Effects, shop' = shop
  PROVE  DrainInv'
<1>1. ASSUME NEW p \in Pages, product'[p].state \in {"new", "queued"} PROVE drain'[p] = Idle
  <2>1. product[p].state \in {"new", "queued"}
    BY <1>1, StatesKeep
  <2>2. drain[p] = Idle
    BY <2>1 DEF DrainInv
  <2>3. drain[p].queues = <<>> /\ p \in Callbacks /\ p \notin Listings
    BY <2>2, PageKinds DEF Idle, Callbacks
  <2> QED
    BY <1>1, <2>2, <2>3, DrainMoves
<1>2. ASSUME NEW l \in Listings, listing'[l].state \in {"new", "queued", "awaiting"} PROVE drain'[l] = Idle
  <2>1. listing[l].state \in {"new", "queued", "awaiting"}
    <3>1. CASE listing'[l].state \in {"new", "queued"}
      BY <3>1, StatesKeep
    <3>2. CASE listing'[l].state = "awaiting"
      <4>1. CASE QuietPage(l)
        BY <3>2, <4>1 DEF QuietPage
      <4>2. CASE ReadListing(l)
        BY <3>2, <4>2, ReadListingTypes
      <4>3. CASE FollowLink(l)
        BY <3>2, <4>3, FollowLinkKeeps
      <4> QED
        BY <4>1, <4>2, <4>3, PagesMove DEF PageMoves
    <3> QED
      BY <1>2, <3>1, <3>2
  <2>2. drain[l] = Idle
    BY <2>1 DEF DrainInv
  <2>3. drain[l].queues = <<>> /\ l \in Callbacks /\ l \notin Pages
    BY <2>2, PageKinds DEF Idle, Callbacks
  <2> QED
    BY <1>2, <2>2, <2>3, DrainMoves
<1>3. shop.discovery \notin {"sitemap", "graph"} => queue'["own"] = <<>>
  BY OwnQueue DEF DrainInv, ReadSitemap
<1> QED
  BY <1>1, <1>2, <1>3 DEF DrainInv

(* When a product is not admitted another one is outstanding: listings,    *)
(* browser pages and one leaf leave room for it.                           *)
LEMMA SomebodyIsOut ==
  ASSUME TypeOK, LeafInv, BudgetInv, SlotsAreHeld, ~Admit(inflight, "product")
  PROVE  \E u \in Urls : product[u].state = "queued"
<1> SUFFICES ASSUME \A u \in Urls : product[u].state # "queued" PROVE FALSE
  OBVIOUS
<1> DEFINE G == Out \cap Graphs
           g == Cardinality(G)
           o == Cardinality(Out)
<1>1. /\ inflight.product = o /\ inflight.browser >= g
      /\ inflight.listing <= shop.budget.listing /\ inflight.browser <= shop.budget.browser
      /\ o \in Nat /\ g \in Nat /\ IsFiniteSet(G) /\ IsFiniteSet(Out)
      /\ inflight.listing \in Nat /\ inflight.browser \in Nat
  <2>1. Held
    BY HeldSlots
  <2>2. IsFiniteSet(Out) /\ IsFiniteSet(G) /\ IsFiniteSet(Shown)
    BY AskedAre
  <2>3. o \in Nat /\ g \in Nat /\ Cardinality(Shown) \in Nat
    BY <2>2, FS_CardinalityType
  <2>4. /\ inflight.listing \in Nat /\ inflight.browser \in Nat /\ inflight.product \in Nat
        /\ filtered.browser \in Nat
    BY DEF TypeOK, Slots
  <2> HIDE DEF g, o
  <2>5. inflight.product = o /\ inflight.browser = Cardinality(Shown) + filtered.browser + g
    BY <2>1 DEF Held, Counts, g, o
  <2>6. inflight.listing <= shop.budget.listing /\ inflight.browser <= shop.budget.browser
    BY DEF BudgetInv
  <2> QED
    BY <2>2, <2>3, <2>4, <2>5, <2>6
<1>2. /\ \A kind \in {"total", "listing", "product", "browser"} : shop.budget[kind] \in Nat
      /\ shop.budget.listing + shop.budget.browser < shop.budget.total
      /\ shop.budget.browser < shop.budget.product
      /\ shop.leaves # <<>> =>
           /\ shop.budget.listing + shop.budget.browser + 1 < shop.budget.total
           /\ shop.budget.browser + 1 < shop.budget.product
  BY Budgets DEF TypeOK
<1>3. \/ inflight.listing + o >= shop.budget.total
      \/ o >= shop.budget.product
  BY <1>1, <1>2 DEF Admit
<1>4. Out \subseteq Leaves \cup Graphs /\ Leaves \cap Graphs = {}
  BY PageKinds DEF Out
<1>5. CASE Out \cap Leaves = {}
  <2>1. Out = G
    BY <1>4, <1>5
  <2>2. o = g
    BY <2>1
  <2> HIDE DEF o, g
  <2> QED
    BY <1>1, <1>2, <1>3, <2>2
<1>6. CASE Out \cap Leaves # {}
  <2>1. PICK f \in Leaves : f \in Out
    BY <1>6
  <2>2. product[f].state = "queued"
    BY <2>1 DEF Out
  <2>3. shop.leaves # <<>> /\ \A h \in Leaves \ {f} : product[h].state # "queued"
    <3>1. f \in ToSet(shop.leaves)
      BY <2>2 DEF LeafInv
    <3>2. shop.leaves # <<>>
      BY <3>1 DEF ToSet
    <3>3. \A h \in Leaves \ {f} : product[h].state \in {"new", "done"}
      BY <2>2 DEF LeafInv, Active
    <3> QED
      BY <3>2, <3>3
  <2>4. Out = G \cup {f} /\ f \notin G
    BY <1>4, <2>1, <2>3 DEF Out
  <2>5. o = g + 1
    <3> HIDE DEF G
    <3> QED
      BY <1>1, <2>4, OneMore
  <2> HIDE DEF o, g
  <2> QED
    BY <1>1, <1>2, <1>3, <2>3, <2>5, SMTT(30)
<1> QED
  BY <1>5, <1>6

(* What failed stays failed.                                               *)
LEMMA FailedStays ==
  ASSUME TypeOK, LeafInv, GraphInv, Effects,
         NEW p \in Pages, product[p].state \in {"failed", "rejected"}
  PROVE  product'[p].state = product[p].state
<1>1. CASE SameState(p)
  BY <1>1 DEF SameState
<1>2. CASE SamePages
  BY <1>2 DEF SamePages, SameState
<1>3. ASSUME NEW u \in Urls, Requests(u) PROVE SameState(p)
  BY <1>3 DEF Requests
<1>4. ASSUME NEW u \in Urls, OpensGraph(u) PROVE SameState(p)
  BY <1>4 DEF OpensGraph, GraphInv
<1>5. ASSUME NEW r \in Pages, Closes(r) PROVE SameState(p)
  BY <1>5 DEF Closes
<1>6. ASSUME NEW f \in Leaves, StartsLeaves(f) PROVE SameState(p)
  <2>1. listing[Entry].state = "queued"
    BY <1>6 DEF StartsLeaves, Ends
  <2>2. product[f].state = "new"
    BY <2>1 DEF LeafInv
  <2> QED
    BY <1>6, <2>2 DEF StartsLeaves
<1>7. ASSUME NEW f \in Leaves, NEW g \in Leaves, MovesLeaf(f, g) PROVE SameState(p)
  <2>1. g # f => product[g].state \in {"new", "done"}
    BY <1>7 DEF MovesLeaf, LeafInv, Active
  <2> QED
    BY <1>7, <2>1 DEF MovesLeaf
<1> QED
  BY <1>1, <1>2, <1>3, <1>4, <1>5, <1>6, <1>7
     DEF Effects, Nothing, Drops, QueuesListing, Answers, SameRest

(* The product pages of a store empty the queues in which products wait.   *)
LEMMA ProductsEmpty ==
  ASSUME TypeOK, NEW q \in Queues, q = "own" => shop.discovery \in {"sitemap", "graph"}
  PROVE  \A u \in Urls : Contains(Empties(u), q)
BY DiscoveryAssumption DEF DiscoveryAssumption, Empties, Queues, TypeOK

(* A callback that begins with the queue q among its queues, and one that  *)
(* goes on to its next queue.                                              *)
Turning(d, q) ==
    /\ Contains(d.queues, q)
    /\ d.queues # <<>> /\ Head(d.queues) = q => d.drained < DrainLimit[q]

LEMMA BeginsTurning ==
  ASSUME TypeOK, NEW c \in Callbacks, NEW q \in Queues, NEW s \in Seq(Stages(shop)),
         drain[c] = Idle, drain' = [drain EXCEPT ![c].queues = s], Contains(s, q)
  PROVE  Turning(drain'[c], q)
<1>1. drain \in [Callbacks -> Callback] /\ DrainLimit[q] \in Nat \ {0}
  BY CrawlAssumption DEF TypeOK, Callbacks, CrawlAssumption
<1>2. drain'[c] = [queues |-> s, drained |-> 0]
  BY <1>1 DEF Idle
<1> QED
  BY <1>1, <1>2 DEF Turning

LEMMA TurnEnds ==
  ASSUME TypeOK, NEW c \in Callbacks, NEW q \in Queues, EndTurn(c), Turning(drain[c], q), ~At(c, q)
  PROVE  Turning(drain'[c], q)
<1>1. drain \in [Callbacks -> Callback] /\ DrainLimit[q] \in Nat \ {0}
  BY CrawlAssumption DEF TypeOK, Callbacks, CrawlAssumption
<1> DEFINE s == drain[c].queues
<1>2. s \in Seq(Stages(shop)) /\ Contains(s, q)
  BY <1>1 DEF Callback, Turning
<1>3. s # <<>> /\ Head(s) # q
  <2>1. s # <<>>
    BY <1>2 DEF Contains
  <2> QED
    BY <2>1 DEF At
<1>4. Contains(Tail(s), q)
  <2>1. PICK i \in 1..Len(s) : s[i] = q
    BY <1>2 DEF Contains
  <2>2. /\ Len(s) \in Nat \ {0} /\ Len(Tail(s)) = Len(s) - 1 /\ Head(s) = s[1]
        /\ \A j \in 1..Len(s) - 1 : Tail(s)[j] = s[j + 1]
    BY <1>2, <1>3, TailHead
  <2>3. i - 1 \in 1..Len(s) - 1 /\ (i - 1) + 1 = i
    BY <1>3, <2>1, <2>2
  <2>4. Tail(s)[i - 1] = q /\ i - 1 \in 1..Len(Tail(s))
    BY <2>1, <2>2, <2>3
  <2> QED
    BY <2>4 DEF Contains
<1>5. drain'[c] = [queues |-> Tail(s), drained |-> 0]
  BY <1>1 DEF EndTurn, Idle
<1> QED
  BY <1>1, <1>4, <1>5 DEF Turning

Emptying(p, q) == product[p].state = "queued" /\ Contains(Empties(p), q)
HasDrainer(q) == (\E p \in Pages : Emptying(p, q)) \/ (\E c \in Callbacks : Turning(drain[c], q))
StaysQueued(p) == product[p].state = "queued" => product'[p].state = "queued"

LEMMA NextDrainer ==
  ASSUME TypeOK, TypeOK', LeafInv, GraphInv, RegistryInv, BudgetInv, SlotsAreHeld, DrainInv,
         QueueHasDrainer, [DiscoveryNext]_discovery, Effects, shop' = shop
  PROVE  QueueHasDrainer'
<1> SUFFICES ASSUME NEW q \in Queues, queue'[q] # <<>>, ~Excused(q)' PROVE HasDrainer(q)'
  <2>1. DOMAIN product' = Pages /\ DOMAIN drain' = Callbacks
    BY DEF TypeOK, Callbacks
  <2>2. ASSUME NEW q \in Queues, HasDrainer(q)'
        PROVE  \/ \E p \in Queued(product)' : Contains(Empties(p), q)'
               \/ \E c \in DOMAIN drain' : /\ Contains(drain'[c].queues, q)
                                           /\ At(c, q)' => drain'[c].drained < DrainLimit[q]
    BY <2>1, <2>2 DEF HasDrainer, Emptying, Queued, Turning, At
  <2>3. \A q \in Queues : queue'[q] # <<>> /\ ~Excused(q)' => HasDrainer(q)'
    OBVIOUS
  <2> QED
    BY <2>2, <2>3 DEF QueueHasDrainer
<1>a. /\ shop \in Shops /\ queue \in [Queues -> Seq(Urls)] /\ drain \in [Callbacks -> Callback]
      /\ product \in [Pages -> Product] /\ listing \in [Listings -> Listing] /\ fan \in Candidates
      /\ graph \in Opening
      /\ Pages \subseteq Callbacks /\ Listings \subseteq Callbacks /\ Urls \subseteq Pages
      /\ shop.errback \in Seq(Stages(shop)) /\ shop.drains \in Seq(Stages(shop))
      /\ shop.others \in Seq(Stages(shop))
  BY ShopTypes DEF TypeOK, Callbacks, Pages
<1>b. /\ \A u \in ToSet(queue'[q]) : u \notin Refused
      /\ \A p \in Pages : product'[p].state # "rejected"
      /\ \A p \in Pages : product'[p].state = "failed" => Contains(shop.errback, q)
  BY DEF Excused
<1>n. ASSUME NEW p \in Pages, product'[p].state = "queued", Contains(Empties(p), q)
      PROVE  HasDrainer(q)'
  <2>1. Empties(p)' = Empties(p)
    BY DEF Empties
  <2> QED
    BY <1>n, <2>1 DEF HasDrainer, Emptying
<1>o. ASSUME NEW c \in Callbacks, Turning(drain'[c], q) PROVE HasDrainer(q)'
  BY <1>o DEF HasDrainer
<1>c. ASSUME NEW u \in Urls, product'[u].state = "queued",
             q = "own" => shop.discovery \in {"sitemap", "graph"}
      PROVE  HasDrainer(q)'
  <2>1. PICK r \in Urls : product'[r].state = "queued" /\ Contains(Empties(r), q)
    BY <1>c, ProductsEmpty
  <2> QED
    BY <1>a, <1>n, <2>1
<1>d. queue[q] # <<>> /\ q = "own" => shop.discovery \in {"sitemap", "graph"}
  BY DEF DrainInv
(* What emptied q before empties it still. *)
<1> USE DEF StaysQueued, Emptying
<1>f. ASSUME queue'[q] = queue[q], \A p \in Pages : Emptying(p, q) => HasDrainer(q)',
             \A c \in Callbacks : Turning(drain[c], q) => HasDrainer(q)'
      PROVE  HasDrainer(q)'
  <2>1. \/ \E p \in Queued(product) : Contains(Empties(p), q)
        \/ \E c \in DOMAIN drain : /\ Contains(drain[c].queues, q)
                                   /\ At(c, q) => drain[c].drained < DrainLimit[q]
    <3>1. \A p \in Pages : product[p].state \in {"failed", "rejected"} => product'[p].state = product[p].state
      BY FailedStays
    <3>2. ~Excused(q)
      BY <1>a, <1>b, <1>f, <3>1 DEF Excused
    <3> QED
      BY <1>f, <3>2 DEF QueueHasDrainer
  <2>2. \/ \E p \in Pages : Emptying(p, q)
        \/ \E c \in Callbacks : Turning(drain[c], q)
    BY <1>a, <2>1 DEF Queued, Turning, At, Emptying
  <2> QED
    BY <1>f, <2>2
<1>e. ASSUME queue'[q] = queue[q], drain' = drain, \A p \in Pages : StaysQueued(p) PROVE HasDrainer(q)'
  BY <1>e, <1>f, <1>n, <1>o
<1>g. ASSUME queue' = queue, drain' = drain, product' = product PROVE HasDrainer(q)'
  BY <1>e, <1>g
(* A product that waits is not admitted only while another is outstanding. *)
<1>h. ASSUME NEW u \in Urls, u \notin Refused, ~CanRequest(u), product' = product,
             q = "own" => shop.discovery \in {"sitemap", "graph"}
      PROVE  HasDrainer(q)'
  BY <1>c, <1>h, SomebodyIsOut DEF CanRequest
<1>i. ASSUME NEW k \in Queues, NEW u \in Urls, queue' = Enqueued(k, u), ~CanRequest(u),
             product' = product, drain' = drain,
             k = "own" => shop.discovery \in {"sitemap", "graph"}
      PROVE  HasDrainer(q)'
  <2>1. CASE q = k
    BY <1>b, <1>h, <1>i, <2>1, EnqueuedLists
  <2>2. CASE q # k
    BY <1>e, <1>i, <2>2, EnqueuedLists
  <2> QED
    BY <2>1, <2>2
<1>j. ASSUME NEW updated \in [Pages -> Product], NEW u \in Urls, RequestProduct(updated, u),
             \A p \in Pages : updated[p].state = product[p].state
      PROVE  \A p \in Pages : StaysQueued(p)
  <2>1. \A p \in Pages \ {u} : product'[p] = updated[p]
    BY <1>j, ProductRequestTypes
  <2>2. product'[u].state = "queued" \/ product'[u] = updated[u]
    BY <1>j, ProductRequestTypes
  <2> QED
    BY <1>j, <2>1, <2>2
(* A callback that ends a turn. *)
<1>k. ASSUME NEW c \in Callbacks, queue' = queue, EndTurn(c), \A p \in Pages : StaysQueued(p),
             At(c, q) /\ Turning(drain[c], q) => HasDrainer(q)'
      PROVE  HasDrainer(q)'
  <2>1. \A b \in Callbacks : b # c => drain'[b] = drain[b]
    BY <1>a, <1>k DEF EndTurn
  <2>2. Turning(drain[c], q) => HasDrainer(q)'
    BY <1>k, <1>o, TurnEnds
  <2> QED
    BY <1>f, <1>k, <1>n, <1>o, <2>1, <2>2
(* A page whose request comes to its end, and a callback that begins.      *)
<1>l. ASSUME NEW p \in Pages, NEW s \in Seq(Stages(shop)), product[p].state = "queued",
             drain' = [drain EXCEPT ![p].queues = s], queue' = queue,
             \A r \in Pages : r # p => StaysQueued(r), Emptying(p, q) => Contains(s, q)
      PROVE  HasDrainer(q)'
  <2>1. drain[p] = Idle /\ p \in Callbacks
    BY <1>a, <1>l DEF DrainInv
  <2>2. ~Turning(drain[p], q)
    BY <2>1 DEF Idle, Turning, Contains
  <2>3. \A c \in Callbacks : c # p => drain'[c] = drain[c]
    BY <1>a, <1>l
  <2>4. Emptying(p, q) => Turning(drain'[p], q)
    BY <1>l, <2>1, BeginsTurning
  <2> QED
    BY <1>f, <1>l, <1>n, <1>o, <2>1, <2>2, <2>3, <2>4
<1>m. ASSUME NEW l \in Listings, NEW s, drain' = [drain EXCEPT ![l].queues = s],
             listing[l].state \in {"queued", "awaiting"}, queue'[q] = queue[q], product' = product
      PROVE  HasDrainer(q)'
  <2>1. drain[l] = Idle /\ l \in Callbacks
    BY <1>a, <1>m DEF DrainInv
  <2>2. ~Turning(drain[l], q)
    BY <2>1 DEF Idle, Turning, Contains
  <2>3. \A c \in Callbacks : c # l => drain'[c] = drain[c]
    BY <1>a, <1>m
  <2> QED
    BY <1>f, <1>m, <1>n, <1>o, <2>1, <2>2, <2>3
<1>1. CASE StartSeed /\ UNCHANGED own
  <2>1. queue' = queue /\ drain' = drain /\ product' = product
    BY <1>1 DEF StartSeed
  <2> QED
    BY <1>g, <2>1
<1>2. ASSUME NEW l \in Listings, LoseListing(l) /\ UNCHANGED own
      PROVE  HasDrainer(q)'
  <2>1. /\ drain' = [drain EXCEPT ![l].queues = shop.errback] /\ listing[l].state = "queued"
        /\ queue' = queue /\ product' = product
    BY <1>2 DEF LoseListing
  <2> QED
    BY <1>m, <2>1
<1>3. ASSUME NEW p \in Urls \cup Leaves, LoseProduct(p) /\ UNCHANGED own
      PROVE  HasDrainer(q)'
  <2>1. /\ product' = [product EXCEPT ![p].state = "failed"] /\ queue' = queue
        /\ drain' = [drain EXCEPT ![p].queues = shop.errback] /\ product[p].state = "queued"
    BY <1>3 DEF LoseProduct
  <2>2. p \in Pages
    BY PageKinds
  <2>3. product'[p].state = "failed" /\ \A r \in Pages : r # p => StaysQueued(r)
    BY <2>1, <2>2, StateMoved DEF ProductStates
  <2>4. Emptying(p, q) => Contains(shop.errback, q)
    BY <1>b, <2>2, <2>3
  <2> QED
    BY <1>a, <1>l, <2>1, <2>2, <2>3, <2>4
<1>4. ASSUME NEW u \in Urls, RejectProduct(u) /\ UNCHANGED own
      PROVE  HasDrainer(q)'
  <2>1. product' = [product EXCEPT ![u].state = "rejected"] /\ u \in Pages
    BY <1>4, <1>a DEF RejectProduct
  <2>2. product'[u].state = "rejected"
    BY <2>1, StateMoved DEF ProductStates
  <2> QED
    BY <1>b, <2>1, <2>2
<1>5. ASSUME NEW f \in Leaves, LoseLeaf(f)
      PROVE  HasDrainer(q)'
  <2>1. /\ product' = [product EXCEPT ![f].state = "failed"] /\ queue' = queue /\ drain' = drain
        /\ product[f].state # "queued"
    BY <1>5 DEF LoseLeaf
  <2>2. f \in Pages
    BY PageKinds
  <2>3. \A r \in Pages : StaysQueued(r)
    BY <2>1, <2>2, StateMoved DEF ProductStates
  <2> QED
    BY <1>e, <2>1, <2>3
<1>6. ASSUME NEW u \in Urls, LoseGraph(u)
      PROVE  HasDrainer(q)'
  <2>1. /\ product' = [product EXCEPT ![Graph(u)].state = "failed"] /\ queue' = queue /\ drain' = drain
    BY <1>6 DEF LoseGraph
  <2>2. Graph(u) \in Pages /\ Graph(u) \notin Urls
    BY PageKinds
  <2>3. product'[Graph(u)].state = "failed" /\ \A r \in Pages : r # Graph(u) => StaysQueued(r)
    BY <2>1, <2>2, StateMoved DEF ProductStates
  <2>4. ~Emptying(Graph(u), q)
    <3>1. Contains(shop.errback, q)
      BY <1>b, <2>2, <2>3
    <3>2. shop.errback # <<>>
      BY <3>1 DEF Contains
    <3>3. shop.others = <<>>
      BY <1>a, <3>2, DiscoveryAssumption DEF DiscoveryAssumption
    <3>4. Empties(Graph(u)) = <<>>
      BY <2>2, <3>3 DEF Empties
    <3> QED
      BY <3>4 DEF Contains
  <2> QED
    BY <1>f, <1>n, <1>o, <2>1, <2>2, <2>3, <2>4
<1>7. CASE HomepageBreaks
  <2>1. queue' = queue /\ drain' = drain /\ product' = product
    BY <1>7 DEF HomepageBreaks
  <2> QED
    BY <1>g, <2>1
<1>8. CASE ReadSitemap
  <2>1. /\ drain' = [drain EXCEPT ![Entry].queues = <<"own">>] /\ listing[Entry].state = "queued"
        /\ product' = product /\ Entry \in Listings /\ shop.discovery = "sitemap"
        /\ queue' = queue \/ queue' = [queue EXCEPT !["own"] = Fresh(shop.sitemap)]
    BY <1>8, ShopTypes, <1>a DEF ReadSitemap
  <2>2. CASE q = "own"
    <3>1. drain[Entry] = Idle /\ Entry \in Callbacks
      BY <1>a, <2>1 DEF DrainInv
    <3>2. <<"own">> \in Seq(Stages(shop)) /\ Contains(<<"own">>, q)
      BY <2>1, <2>2 DEF Stages, Queues, Contains
    <3> QED
      BY <1>o, <2>1, <3>1, <3>2, BeginsTurning
  <2>3. CASE q # "own"
    <3>1. queue'[q] = queue[q]
      BY <1>a, <2>1, <2>3
    <3> QED
      BY <1>m, <2>1, <3>1
  <2> QED
    BY <2>2, <2>3
<1>9. CASE ReadIndex
  <2>1. queue' = queue /\ drain' = drain /\ listing[Entry].state = "queued"
    BY <1>9 DEF ReadIndex
  <2>2. product' = product \/ \E f \in Leaves : product' = [product EXCEPT ![f].state = "queued"]
    <3>1. shop.leaves # <<>> => Head(shop.leaves) \in Leaves
      BY ShopTypes, <1>a
    <3> QED
      BY <1>9, <3>1 DEF ReadIndex
  <2>3. ASSUME NEW f \in Leaves, product' = [product EXCEPT ![f].state = "queued"]
        PROVE  \A r \in Pages : StaysQueued(r)
    BY <2>3, PageKinds, StateMoved DEF ProductStates
  <2> QED
    BY <1>e, <1>g, <2>1, <2>2, <2>3
<1>10. CASE HomepageArrives
  <2>1. queue' = queue /\ drain' = drain /\ product' = product
    BY <1>10 DEF HomepageArrives
  <2> QED
    BY <1>g, <2>1
<1>11. CASE HomepageShowsNone
  <2>1. queue' = queue /\ drain' = drain /\ product' = product
    BY <1>11 DEF HomepageShowsNone, ReadListing
  <2> QED
    BY <1>g, <2>1
<1>12. CASE HomepageShows
  <2>1. /\ drain' = [drain EXCEPT ![Entry].queues = <<"links">>] /\ listing[Entry].state = "awaiting"
        /\ queue' = queue /\ product' = product /\ Entry \in Listings
    BY <1>12, ShopTypes, <1>a DEF HomepageShows
  <2> QED
    BY <1>m, <2>1
<1>13. ASSUME NEW l \in Listings, Parses(l)
      PROVE  HasDrainer(q)'
  <2>1. queue' = queue /\ drain' = drain /\ product' = product
    BY <1>13 DEF Parses, ParseListing, ReadListing
  <2> QED
    BY <1>g, <2>1
<1>14. ASSUME NEW l \in Listings, FollowLink(l) /\ UNCHANGED own
      PROVE  HasDrainer(q)'
  <2>1. Head(listing[l].links) \in Urls
    <3>1. listing[l].links \in Seq(Urls) /\ listing[l].links # <<>>
      BY <1>14, <1>a DEF Listing, FollowLink
    <3> QED
      BY <3>1
  <2>2. PICK u \in Urls : u = Head(listing[l].links)
    BY <2>1
  <2>3. /\ drain' = drain
        /\ \/ queue' = queue /\ product' = product
           \/ queue' = Enqueued("framework", u) /\ product' = product /\ ~CanRequest(u)
           \/ queue' = queue /\ RequestProduct(product, u)
    BY <1>14, <2>2 DEF FollowLink
  <2>4. "framework" \in Queues /\ "framework" # "own"
    BY DEF Queues
  <2> QED
    BY <1>a, <1>e, <1>g, <1>i, <1>j, <2>3, <2>4
<1>15. ASSUME NEW l \in Listings, FollowSubcategory(l) /\ UNCHANGED own
      PROVE  HasDrainer(q)'
  <2>1. queue' = queue /\ drain' = drain /\ product' = product
    BY <1>15 DEF FollowSubcategory
  <2> QED
    BY <1>g, <2>1
<1>16. ASSUME NEW l \in Listings, Paginate(l) /\ UNCHANGED own
      PROVE  HasDrainer(q)'
  <2>1. queue' = queue /\ drain' = drain /\ product' = product
    BY <1>16 DEF Paginate
  <2> QED
    BY <1>g, <2>1
<1>17. ASSUME NEW u \in Urls, ParseProduct(u) /\ UNCHANGED own
      PROVE  HasDrainer(q)'
  <2>1. /\ product' = [product EXCEPT ![u].state = "done"] /\ queue' = queue
        /\ drain' = [drain EXCEPT ![u].queues = shop.drains] /\ product[u].state = "queued"
    BY <1>17 DEF ParseProduct
  <2>2. u \in Pages
    BY PageKinds
  <2>3. product'[u].state = "done" /\ \A r \in Pages : r # u => StaysQueued(r)
    BY <2>1, <2>2, StateMoved DEF ProductStates
  <2>4. Emptying(u, q) => Contains(shop.drains, q)
    BY DEF Empties
  <2> QED
    BY <1>a, <1>l, <2>1, <2>2, <2>3, <2>4
<1>18. ASSUME NEW c \in Callbacks, NEW k \in Queues, DrainOver(c, k) /\ UNCHANGED own
      PROVE  HasDrainer(q)'
  <2>1. /\ queue' = queue /\ product' = product /\ EndTurn(c) /\ At(c, k)
        /\ HasTurn(c, k) => ~CanRequest(Head(queue[k]))
    BY <1>18 DEF DrainOver
  <2>2. ASSUME At(c, q), Turning(drain[c], q) PROVE HasDrainer(q)'
    <3>1. k = q
      BY <2>1, <2>2 DEF At
    <3>2. HasTurn(c, q)
      BY <2>1, <2>2 DEF HasTurn, Turning, At
    <3>3. Head(queue[q]) \in Urls /\ Head(queue[q]) \in ToSet(queue'[q]) /\ queue[q] # <<>>
      BY <1>a, <2>1, TailHead
    <3> QED
      BY <1>b, <1>d, <1>h, <2>1, <3>1, <3>2, <3>3
  <2> QED
    BY <1>k, <2>1, <2>2
<1>19. ASSUME NEW c \in Callbacks, NEW k \in Queues, DrainKnown(c, k) /\ DeepOnly
      PROVE  HasDrainer(q)'
  <2>1. /\ At(c, k) /\ HasTurn(c, k) /\ drain' = drain /\ product' = product
        /\ queue' = [queue EXCEPT ![k] = Tail(queue[k])]
    BY <1>19 DEF DrainKnown
  <2>2. CASE q = k
    <3>1. drain[c].queues # <<>> /\ Head(drain[c].queues) = q /\ drain[c].drained < DrainLimit[q]
      BY <2>1, <2>2 DEF At, HasTurn
    <3>2. drain[c].queues \in Seq(Stages(shop))
      BY <1>a DEF Callback
    <3>3. Contains(drain[c].queues, q)
      BY <3>1, <3>2 DEF Contains
    <3> QED
      BY <1>o, <2>1, <3>1, <3>3 DEF Turning
  <2>3. CASE q # k
    BY <1>a, <1>e, <2>1, <2>3
  <2> QED
    BY <2>2, <2>3
<1>20. ASSUME NEW c \in Callbacks, NEW k \in Queues, NEW d \in {0, 1}, DrainRequestOf(c, k, d) /\ DeepOnly
      PROVE  HasDrainer(q)'
  <2> DEFINE u == Head(queue[k])
             updated == [product EXCEPT ![u].depth = d]
  <2>1. /\ queue[k] # <<>> /\ RequestProduct(updated, u) /\ ~Skip(u)
        /\ queue' = [queue EXCEPT ![k] = Tail(queue[k])]
    BY <1>20 DEF DrainRequestOf, HasTurn
  <2>2. u \in Urls /\ u \in Pages
    BY <1>a, <2>1
  <2>3. updated \in [Pages -> Product] /\ updated[u].state = product[u].state
    <3>1. updated \in [Pages -> Product]
      BY <2>2, Moved
    <3> QED
      BY <1>a, <2>2, <3>1 DEF Product
  <2>4. product[u].state = "new"
    BY <2>1, <2>2 DEF Skip, RegistryInv
  <2> HIDE DEF u, updated
  <2>5. product'[u].state = "queued"
    BY <2>1, <2>2, <2>3, <2>4, ProductRequestTypes
  <2>6. queue[q] # <<>>
    BY <1>a, <2>1
  <2> QED
    BY <1>c, <1>d, <2>2, <2>5, <2>6
<1>21. ASSUME NEW u \in Urls, Expand(u)
      PROVE  HasDrainer(q)'
  <2>1. /\ queue' = queue /\ EndTurn(u) /\ ~At(u, q) /\ u \in Callbacks
        /\ product' = product \/ (Open(u, graph.waiting) /\ graph.waiting \in Seq(Urls))
    BY <1>21, <1>a DEF Expand, At, Queues, Opening
  <2>2. \A p \in Pages : StaysQueued(p)
    BY <2>1, OpenTypes
  <2> QED
    BY <1>k, <2>1, <2>2
<1>22. ASSUME NEW f \in Leaves, ReadLeaf(f)
      PROVE  HasDrainer(q)'
  <2>1. /\ product' = [product EXCEPT ![f].state = "reading"] /\ queue' = queue /\ drain' = drain
        /\ product[f].state \in {"queued", "internal"}
    BY <1>22 DEF ReadLeaf
  <2>2. f \in Pages /\ f \notin Urls
    BY PageKinds
  <2>3. \A r \in Pages : r # f => StaysQueued(r)
    BY <2>1, <2>2, StateMoved DEF ProductStates
  <2>4. ~Emptying(f, q)
    <3>1. shop.others = <<>>
      BY <2>1, DiscoveryAssumption DEF DiscoveryAssumption, LeafInv, TypeOK
    <3>2. Empties(f) = <<>>
      BY <2>2, <3>1 DEF Empties
    <3> QED
      BY <3>2 DEF Contains
  <2> QED
    BY <1>f, <1>n, <1>o, <2>1, <2>2, <2>3, <2>4
<1>23. ASSUME NEW f \in Leaves, LeafKnown(f)
      PROVE  HasDrainer(q)'
  <2>1. queue' = queue /\ drain' = drain /\ product' = product
    BY <1>23 DEF LeafKnown, vars
  <2> QED
    BY <1>g, <2>1
<1>24. ASSUME NEW f \in Leaves, LeafProduct(f)
      PROVE  HasDrainer(q)'
  <2>1. /\ RequestProduct(product, LeafUrl(f)) /\ queue' = queue /\ drain' = drain
        /\ LeafUrl(f) \in Urls
    BY <1>24, LeafUrlTypes DEF LeafProduct
  <2> QED
    BY <1>a, <1>e, <1>j, <2>1
<1>25. ASSUME NEW f \in Leaves, LeafOver(f)
      PROVE  HasDrainer(q)'
  <2>1. queue' = queue /\ drain' = drain
    BY <1>25 DEF LeafOver, LeafOverFrom
  <2>2. product[f].state = "reading"
    BY <1>25, LeafOverMoves
  <2>3. PICK g \in Leaves :
          /\ \A p \in Pages \ {f, g} : product'[p] = product[p]
          /\ g # f => product'[g].state = "internal"
    BY <1>25, LeafOverMoves
  <2>4. g # f => product[g].state \in {"new", "done"}
    BY <2>2 DEF LeafInv, Active
  <2>5. \A p \in Pages : StaysQueued(p)
    BY <2>2, <2>3, <2>4
  <2> QED
    BY <1>e, <2>1, <2>5
<1>26. ASSUME NEW u \in Urls, ParseGraph(u)
      PROVE  HasDrainer(q)'
  <2>1. /\ product' = [product EXCEPT ![Graph(u)].state = "done"] /\ queue' = queue
        /\ drain' = [drain EXCEPT ![Graph(u)].queues = shop.others] /\ product[Graph(u)].state = "queued"
    BY <1>26 DEF ParseGraph
  <2>2. Graph(u) \in Pages
    BY PageKinds
  <2>3. product'[Graph(u)].state = "done" /\ \A r \in Pages : r # Graph(u) => StaysQueued(r)
    BY <2>1, <2>2, StateMoved DEF ProductStates
  <2>4. Emptying(Graph(u), q) => Contains(shop.others, q)
    BY PageKinds DEF Empties
  <2> QED
    BY <1>a, <1>l, <2>1, <2>2, <2>3, <2>4
<1>27. ASSUME NEW c \in Callbacks, Candidate(c)
      PROVE  HasDrainer(q)'
  <2>1. Head(fan.links) \in Urls
    <3>1. fan.links \in Seq(Urls) /\ fan.links # <<>>
      BY <1>27, <1>a DEF Candidates, Candidate
    <3> QED
      BY <3>1
  <2>2. PICK u \in Urls : u = Head(fan.links)
    BY <2>1
  <2> DEFINE updated == [product EXCEPT ![u].depth = Depth(c)]
  <2>3. /\ drain' = drain /\ At(c, "links")
        /\ \/ queue' = queue /\ product' = product
           \/ queue' = Enqueued("own", u) /\ product' = product /\ ~CanRequest(u)
           \/ queue' = queue /\ RequestProduct(updated, u)
    BY <1>27, <2>2 DEF Candidate
  <2>4. updated \in [Pages -> Product] /\ \A p \in Pages : updated[p].state = product[p].state
    <3>1. updated \in [Pages -> Product]
      BY <1>a, Moved DEF Depth
    <3> QED
      BY <1>a, <3>1 DEF Product
  <2>5. "own" \in Queues /\ shop.discovery = "graph"
    <3>1. drain[c].queues \in Seq(Stages(shop)) /\ drain[c].queues # <<>> /\ Head(drain[c].queues) = "links"
      BY <1>a, <2>3 DEF Callback, At
    <3>2. "links" \in Stages(shop)
      BY <3>1
    <3> QED
      BY <3>2 DEF Stages, Queues
  <2> HIDE DEF updated
  <2> QED
    BY <1>e, <1>g, <1>i, <1>j, <2>3, <2>4, <2>5
<1>28. ASSUME NEW c \in Callbacks, CandidatesOver(c)
      PROVE  HasDrainer(q)'
  <2>1. queue' = queue /\ product' = product /\ EndTurn(c) /\ ~At(c, q)
    BY <1>28 DEF CandidatesOver, At, Queues
  <2> QED
    BY <1>k, <2>1
<1>29. ASSUME NEW c \in Callbacks, DrainGraph(c)
      PROVE  HasDrainer(q)'
  <2>1. /\ queue' = queue /\ drain' = [drain EXCEPT ![c].drained = drain[c].drained + 1]
        /\ ~At(c, q) /\ graph.waiting # <<>>
        /\ Open(Head(graph.waiting), Tail(graph.waiting))
    BY <1>29 DEF DrainGraph, SeedOpens, At, Queues
  <2>2. Head(graph.waiting) \in Urls /\ Tail(graph.waiting) \in Seq(Urls)
    BY <1>a, <2>1 DEF Opening
  <2>3. \A p \in Pages : StaysQueued(p)
    BY <2>1, <2>2, OpenTypes
  <2>4. drain'[c].queues = drain[c].queues /\ \A b \in Callbacks : b # c => drain'[b] = drain[b]
    BY <1>a, <2>1 DEF Callback
  <2>5. Turning(drain[c], q) => Turning(drain'[c], q)
    BY <2>1, <2>4 DEF Turning, At
  <2> QED
    BY <1>f, <1>n, <1>o, <2>1, <2>3, <2>4, <2>5
<1>30. ASSUME NEW c \in Callbacks, DrainGraphOver(c)
      PROVE  HasDrainer(q)'
  <2>1. queue' = queue /\ product' = product /\ EndTurn(c) /\ ~At(c, q)
    BY <1>30 DEF DrainGraphOver, At, Queues
  <2> QED
    BY <1>k, <2>1
<1>31. CASE UNCHANGED discovery
  <2>1. queue' = queue /\ drain' = drain /\ product' = product
    BY <1>31 DEF discovery, vars
  <2> QED
    BY <1>g, <2>1
<1> QED
  BY Steps, <1>1, <1>2, <1>3, <1>4, <1>5, <1>6, <1>7, <1>8, <1>9, <1>10,
     <1>11, <1>12, <1>13, <1>14, <1>15, <1>16, <1>17, <1>18, <1>19, <1>20,
     <1>21, <1>22, <1>23, <1>24, <1>25, <1>26, <1>27, <1>28, <1>29, <1>30,
     <1>31

-----------------------------------------------------------------------------
(* The whole invariant.                                                    *)

PagesRead == \A l \in Listings : PageRead(l)
SafetyInv ==
    CrawlInv /\ PagesRead /\ SitemapRead /\ LeavesReadUpTo /\ CandidatesSeen /\ DrainInv /\ QueueHasDrainer

LEMMA InitSafety == DiscoveryInit => SafetyInv
<1> SUFFICES ASSUME DiscoveryInit PROVE SafetyInv
  OBVIOUS
<1>1. CrawlInv
  BY InitInv
<1>2. /\ \A l \in Listings : listing[l] = NewListing /\ drain[l] = Idle
      /\ \A p \in Pages : drain[p] = Idle
      /\ \A q \in Queues : queue[q] = <<>>
      /\ "own" \in Queues
  BY DEF DiscoveryInit, Init, Queues
<1>8. (\A f \in Leaves : leaf[f].offset = 0) /\ fan.seen = {}
  BY DEF DiscoveryInit, NoFan
<1>3. PagesRead
  BY <1>2 DEF PagesRead, PageRead, ReadUpTo, NewListing
<1>4. SitemapRead
  <2>1. shop.discovery = "sitemap" => Entry \in Listings
    BY <1>1, ShopTypes DEF CrawlInv, TypeOK
  <2> QED
    BY <1>2, <2>1 DEF SitemapRead, NewListing
<1>5. LeavesReadUpTo /\ CandidatesSeen
  BY <1>8 DEF LeavesReadUpTo, CandidatesSeen
<1>6. DrainInv
  BY <1>2 DEF DrainInv
<1>7. QueueHasDrainer
  BY <1>2 DEF QueueHasDrainer
<1> QED
  BY <1>1, <1>3, <1>4, <1>5, <1>6, <1>7 DEF SafetyInv

LEMMA NextSafety == SafetyInv /\ [DiscoveryNext]_discovery => SafetyInv'
<1> SUFFICES ASSUME SafetyInv, [DiscoveryNext]_discovery PROVE SafetyInv'
  OBVIOUS
<1>1. /\ TypeOK /\ LeafInv /\ GraphInv /\ RegistryInv /\ BudgetInv /\ SlotsAreHeld
      /\ CrawlInv /\ PagesRead /\ SitemapRead /\ LeavesReadUpTo /\ CandidatesSeen /\ DrainInv
      /\ QueueHasDrainer
  BY DEF SafetyInv, CrawlInv
<1>2. CrawlInv' /\ TypeOK' /\ shop' = shop /\ Effects
  BY <1>1, NextInv, NextTypes, NextShop, StepEffects
<1>3. PagesRead'
  <2>1. ASSUME NEW l \in Listings PROVE PageRead(l)'
    <3>1. PageRead(l)
      BY <1>1 DEF PagesRead
    <3> QED
      BY <1>1, <1>2, <3>1, PagesReadOn
  <2> QED
    BY <2>1 DEF PagesRead
<1>4. SitemapRead'
  BY <1>1, <1>2, SitemapReadOn
<1>5. LeavesReadUpTo' /\ CandidatesSeen'
  BY <1>1, <1>2, LeavesReadOn
<1>6. DrainInv'
  BY <1>1, <1>2, NextDrain
<1>7. QueueHasDrainer'
  BY <1>1, <1>2, NextDrainer
<1> QED
  BY <1>2, <1>3, <1>4, <1>5, <1>6, <1>7 DEF SafetyInv

LEMMA AlwaysSafe == DiscoverySpec => []SafetyInv
<1> QED
  BY InitSafety, NextSafety, PTL DEF DiscoverySpec

(* No product is forgotten that a listing, the sitemap, a leaf or the      *)
(* candidates of a callback were read up to: it was requested, under this  *)
(* URL or another, or waits in a queue, however the callbacks interleave   *)
(* and whatever fails (_parse_listing_inner, _seed_sitemap_product_queue,  *)
(* parse_product_sitemap_leaf, _schedule_product_requests_from_candidates, *)
(* and what empties the queues).                                           *)
THEOREM NothingEverForgotten == DiscoverySpec => []NothingForgotten
<1>1. SafetyInv => NothingForgotten
  <2> SUFFICES ASSUME SafetyInv PROVE NothingForgotten
    OBVIOUS
  <2>1. LinksRemembered
    BY DEF SafetyInv, PagesRead, PageRead, ReadUpTo, LinksRemembered
  <2>2. shop.discovery = "sitemap" /\ listing[Entry].state = "seeded" =>
          \A u \in ToSet(shop.sitemap) : Remembered(u)
    BY DEF SafetyInv, SitemapRead
  <2>3. /\ \A f \in Leaves : \A i \in 1..leaf[f].offset : Remembered(LeafUrls[f][i])
        /\ \A u \in fan.seen : Remembered(u)
    BY DEF SafetyInv, LeavesReadUpTo, CandidatesSeen
  <2> QED
    BY <2>1, <2>2, <2>3 DEF NothingForgotten
<1> QED
  BY <1>1, AlwaysSafe, PTL

(* While products wait in a queue that can be emptied, somebody is still   *)
(* going to empty it: a request whose answer does is outstanding, or a     *)
(* callback has turns left (_drain_pending_listing_products,               *)
(* _drain_pending_sitemap_products, _drain_pending_product_candidates).    *)
THEOREM QueueAlwaysHasDrainer == DiscoverySpec => []QueueHasDrainer
<1>1. SafetyInv => QueueHasDrainer
  BY DEF SafetyInv
<1> QED
  BY <1>1, AlwaysSafe, PTL
=============================================================================
