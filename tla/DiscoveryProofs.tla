--------------------------- MODULE DiscoveryProofs ---------------------------
(***************************************************************************)
(* What holds of every crawl, for any shops, site and limits: the slots of *)
(* the budget are held by the requests that are outstanding, the budget is *)
(* never exceeded, and of the URLs of one product at most one is requested.*)
(***************************************************************************)
EXTENDS Discovery, FiniteSetTheorems, WellFoundedInduction, TLAPS

ListingStates == {"new", "queued", "parsing", "done", "failed", "seeded", "awaiting"}
ProductStates == {"new", "queued", "internal", "reading", "done", "failed", "rejected"}
Ids == {SourceId[u] : u \in Urls}
Slots == [{"listing", "product", "browser"} -> Nat]

Listing ==
    [state : ListingStates, page : Nat, empty : Nat, repeats : Nat, browser : BOOLEAN,
     links : Seq(Urls), subs : Seq(Listings), seen : SUBSET Urls]
Product == [state : ProductStates, depth : {0, 1}]
Callback == [queues : Seq(Stages(shop)), drained : Nat]
Registry == [urls : SUBSET Urls, ids : SUBSET Ids, pages : SUBSET Listings,
             signatures : SUBSET ({Path[l] : l \in Listings} \X Nat \X Seq(Urls))]
Opening == [waiting : Seq(Urls), expanded : SUBSET Urls, deep : SUBSET Urls]
Candidates == [links : Seq(Urls), seen : SUBSET Urls, scheduled : Nat]

(* The types of the variables. *)
TypeOK ==
    /\ shop \in Shops
    /\ seeds \in Seq(Listings)
    /\ listing \in [Listings -> Listing]
    /\ product \in [Pages -> Product]
    /\ queue \in [Queues -> Seq(Urls)]
    /\ drain \in [Listings \cup Pages -> Callback]
    /\ known \in Registry
    /\ inflight \in Slots
    /\ filtered \in Slots
    /\ failures \in Nat
    /\ leaf \in [Leaves -> [offset : Nat, until : Nat]]
    /\ graph \in Opening
    /\ fan \in Candidates

(* At most one leaf is asked for or read at a time, none before the entry  *)
(* was answered, and once a request for one failed no other is.            *)
Active(f) == product[f].state \in {"queued", "internal", "reading"}
LeafInv ==
    /\ \A f \in Leaves : product[f].state # "new" =>
         /\ shop.discovery = "leaves" /\ f \in ToSet(shop.leaves)
         /\ listing[Entry].state \notin {"new", "queued"}
    /\ \A f, g \in Leaves : f # g /\ Active(f) => product[g].state \in {"new", "done"}
    /\ \A f \in Leaves : leaf[f].offset <= leaf[f].until /\ leaf[f].until <= Len(LeafUrls[f])

(* A page is opened in a browser once. *)
GraphInv == \A u \in Urls : product[Graph(u)].state # "new" => u \in graph.expanded

(* The registry knows what was requested, and nothing else. *)
RegistryInv ==
    /\ \A u \in Urls : product[u].state # "new" => u \in known.urls
    /\ \A u \in known.urls : SourceId[u] \in known.ids
    /\ \A i \in known.ids : \E v \in Urls : SourceId[v] = i /\ product[v].state # "new"

(* The counters stay within the budget. *)
BudgetInv ==
    /\ \A kind \in {"listing", "product", "browser"} : inflight[kind] <= shop.budget[kind]
    /\ inflight.listing + inflight.product <= shop.budget.total

-----------------------------------------------------------------------------
(* Induction, and what Fresh computes.                                     *)

(* A nonempty set of natural numbers has a least element: there is no      *)
(* infinite descent from 0..n to 0..m among the finite sets.               *)
LEMMA LeastNumber == \A S \in SUBSET Nat : S # {} => \E m \in S : \A k \in S : m <= k
<1> SUFFICES ASSUME NEW S \in SUBSET Nat, S # {} PROVE \E m \in S : \A k \in S : m <= k
  OBVIOUS
<1> DEFINE R == StrictSubsetOrdering(Nat)
           F == FiniteSubsetsOf(Nat)
           T == {0..n : n \in S}
<1>1. T \subseteq F /\ T # {}
  <2>1. \A n \in Nat : 0..n \subseteq Nat /\ IsFiniteSet(0..n)
    BY FS_Interval
  <2> QED
    BY <2>1 DEF FiniteSubsetsOf
<1>2. PICK x \in T : \A y \in T : ~(<<y, x>> \in R)
  <2>1. IsWellFoundedOn(R, F)
    BY FS_StrictSubsetOrderingWellFounded
  <2> HIDE DEF R, F, T
  <2> QED
    BY <2>1, <1>1, WFMin
<1>3. PICK m \in S : x = 0..m
  BY <1>2
<1>4. ASSUME NEW k \in S, k < m PROVE FALSE
  <2>1. <<0..k, 0..m>> \in R
    <3>1. 0..k \subseteq 0..m /\ m \in 0..m /\ m \notin 0..k
      BY <1>4
    <3>2. 0..k \in SUBSET Nat /\ 0..m \in SUBSET Nat
      OBVIOUS
    <3> QED
      BY <3>1, <3>2 DEF StrictSubsetOrdering
  <2>2. 0..k \in T
    OBVIOUS
  <2> QED
    BY <2>1, <2>2, <1>2, <1>3
<1> QED
  BY <1>4

LEMMA Appended ==
  ASSUME NEW S, NEW q \in Seq(S), NEW u \in S
  PROVE  /\ Append(q, u) \in Seq(S)
         /\ \A j \in DOMAIN q : j \in DOMAIN Append(q, u) /\ Append(q, u)[j] = q[j]
         /\ \E j \in DOMAIN Append(q, u) : Append(q, u)[j] = u
         /\ ToSet(Append(q, u)) = ToSet(q) \cup {u}
<1>1. /\ Append(q, u) \in Seq(S)
      /\ Len(Append(q, u)) = Len(q) + 1
      /\ \A j \in 1..Len(q) : Append(q, u)[j] = q[j]
      /\ Append(q, u)[Len(q) + 1] = u
  OBVIOUS
<1>2. DOMAIN q = 1..Len(q) /\ DOMAIN Append(q, u) = 1..Len(q) + 1 /\ Len(q) \in Nat
  BY <1>1
<1>3. \A j \in 1..Len(q) + 1 : j \in 1..Len(q) \/ j = Len(q) + 1
  BY <1>2
<1> QED
  BY <1>1, <1>2, <1>3 DEF ToSet

LEMMA TailHead ==
  ASSUME NEW S, NEW q \in Seq(S), q # <<>>
  PROVE  /\ Head(q) \in S /\ Tail(q) \in Seq(S)
         /\ Len(q) \in Nat \ {0} /\ Len(Tail(q)) = Len(q) - 1
         /\ \A i \in 1..Len(q) - 1 : Tail(q)[i] = q[i + 1]
         /\ Head(q) = q[1]
         /\ ToSet(q) = {Head(q)} \cup ToSet(Tail(q))
<1>1. /\ Head(q) \in S /\ Tail(q) \in Seq(S)
      /\ Len(q) \in Nat \ {0} /\ Len(Tail(q)) = Len(q) - 1
      /\ \A i \in 1..Len(q) - 1 : Tail(q)[i] = q[i + 1]
      /\ Head(q) = q[1]
  OBVIOUS
<1>2. DOMAIN q = 1..Len(q) /\ DOMAIN Tail(q) = 1..Len(q) - 1
  BY <1>1
<1>3. \A i \in 1..Len(q) : i = 1 \/ i - 1 \in 1..Len(q) - 1
  BY <1>1
<1>4. 1 \in 1..Len(q) /\ \A i \in 1..Len(q) - 1 : i + 1 \in 1..Len(q)
  BY <1>1
<1>5. ToSet(q) \subseteq {Head(q)} \cup ToSet(Tail(q))
  <2> SUFFICES ASSUME NEW i \in 1..Len(q) PROVE q[i] \in {Head(q)} \cup ToSet(Tail(q))
    BY <1>2 DEF ToSet
  <2>1. CASE i = 1
    BY <2>1, <1>1
  <2>2. CASE i # 1
    <3>1. i - 1 \in 1..Len(q) - 1 /\ Tail(q)[i - 1] = q[i]
      BY <1>1, <1>3, <2>2
    <3> QED
      BY <3>1, <1>2 DEF ToSet
  <2> QED
    BY <2>1, <2>2
<1>6. {Head(q)} \cup ToSet(Tail(q)) \subseteq ToSet(q)
  BY <1>1, <1>2, <1>4 DEF ToSet
<1> QED
  BY <1>1, <1>5, <1>6

LEMMA UnlistedLists ==
  ASSUME NEW q \in Seq(Urls), NEW u \in Urls
  PROVE  /\ Unlisted(q, u) \in Seq(Urls)
         /\ ToSet(q) \subseteq ToSet(Unlisted(q, u))
         /\ Skip(u) \/ \E v \in ToSet(Unlisted(q, u)) : SourceId[v] = SourceId[u]
<1>1. CASE Skip(u) \/ \E i \in DOMAIN q : SourceId[q[i]] = SourceId[u]
  BY <1>1 DEF Unlisted, ToSet
<1>2. CASE ~(Skip(u) \/ \E i \in DOMAIN q : SourceId[q[i]] = SourceId[u])
  <2>1. Unlisted(q, u) = Append(q, u)
    BY <1>2 DEF Unlisted
  <2>2. /\ Append(q, u) \in Seq(Urls)
        /\ ToSet(Append(q, u)) = ToSet(q) \cup {u}
    BY Appended
  <2> QED
    BY <2>1, <2>2
<1> QED
  BY <1>1, <1>2

(* The queue read from a sitemap holds product URLs, and one with the      *)
(* source id of each URL that is not known yet.                            *)
LEMMA FreshLists ==
  ASSUME NEW urls \in Seq(Urls)
  PROVE  /\ Fresh(urls) \in Seq(Urls)
         /\ \A i \in 1..Len(urls) :
              \/ Skip(urls[i])
              \/ \E u \in ToSet(Fresh(urls)) : SourceId[u] = SourceId[urls[i]]
<1> DEFINE N == Len(urls)
           UpTo(f, m) == f = [n \in 0..m |-> IF n = 0 THEN <<>> ELSE Unlisted(f[n - 1], urls[n])]
<1>1. N \in Nat /\ \A n \in 1..N : urls[n] \in Urls
  OBVIOUS
<1>2. \A m \in 0..N : \E f : UpTo(f, m)
  <2> DEFINE Bad == {m \in 0..N : ~\E f : UpTo(f, m)}
  <2> SUFFICES ASSUME Bad # {} PROVE FALSE
    OBVIOUS
  <2>1. PICK m \in Bad : \A k \in Bad : m <= k
    <3>1. Bad \in SUBSET Nat
      BY <1>1
    <3> HIDE DEF Bad
    <3> QED
      BY <3>1, LeastNumber
  <2>2. CASE m = 0
    <3>1. UpTo([n \in 0..0 |-> <<>>], 0)
      OBVIOUS
    <3> QED
      BY <3>1, <2>1, <2>2
  <2>3. CASE m # 0
    <3>1. m - 1 \in 0..N /\ m - 1 \notin Bad
      BY <2>1, <2>3, <1>1, SMTT(30)
    <3>2. PICK f : UpTo(f, m - 1)
      BY <3>1
    <3> DEFINE g == [n \in 0..m |-> IF n = m THEN Unlisted(f[m - 1], urls[m]) ELSE f[n]]
    <3>3. m \in Nat \ {0}
      BY <2>1, <2>3, <1>1
    <3>4. ASSUME NEW n \in 0..m
          PROVE  g[n] = IF n = 0 THEN <<>> ELSE Unlisted(g[n - 1], urls[n])
      <4>1. CASE n = m
        BY <4>1, <3>3
      <4>2. CASE n # m
        <5>1. n \in 0..m - 1 /\ (n # 0 => n - 1 \in 0..m - 1)
          BY <4>2, <3>3
        <5>2. f[n] = IF n = 0 THEN <<>> ELSE Unlisted(f[n - 1], urls[n])
          BY <3>2, <5>1
        <5>3. g[n] = f[n] /\ (n # 0 => g[n - 1] = f[n - 1])
          BY <4>2, <5>1, <3>3
        <5> QED
          BY <5>2, <5>3
      <4> QED
        BY <4>1, <4>2
    <3>5. UpTo(g, m)
      BY <3>4
    <3> QED
      BY <3>5, <2>1
  <2> QED
    BY <2>2, <2>3
<1> DEFINE fresh == CHOOSE f : UpTo(f, N)
<1>3. UpTo(fresh, N)
  <2>1. \E f : UpTo(f, N)
    BY <1>1, <1>2
  <2> QED
    BY <2>1
<1>4. Fresh(urls) = fresh[N]
  BY DEF Fresh
<1> HIDE DEF fresh
<1>5. \A n \in 0..N : fresh[n] = IF n = 0 THEN <<>> ELSE Unlisted(fresh[n - 1], urls[n])
  BY <1>3
<1> HIDE DEF UpTo
<1> DEFINE Listed(q, i) == Skip(urls[i]) \/ \E u \in ToSet(q) : SourceId[u] = SourceId[urls[i]]
           Good(n) == fresh[n] \in Seq(Urls) /\ \A i \in 1..n : Listed(fresh[n], i)
<1>6. \A n \in 0..N : Good(n)
  <2> DEFINE Bad == {m \in 0..N : ~Good(m)}
  <2> SUFFICES ASSUME Bad # {} PROVE FALSE
    OBVIOUS
  <2>1. PICK m \in Bad : \A k \in Bad : m <= k
    <3>1. Bad \in SUBSET Nat
      BY <1>1
    <3> HIDE DEF Bad
    <3> QED
      BY <3>1, LeastNumber
  <2>2. m \in 0..N /\ ~Good(m)
    <3> HIDE DEF Good
    <3> QED
      BY <2>1
  <2>3. CASE m = 0
    <3>1. fresh[0] = <<>>
      BY <1>5, <1>1
    <3>2. Good(0)
      BY <3>1
    <3> HIDE DEF Good
    <3> QED
      BY <3>2, <2>2, <2>3
  <2>4. CASE m # 0
    <3>1. m \in 1..N /\ m - 1 \in 0..N
      BY <2>2, <2>4, <1>1
    <3>2. Good(m - 1)
      <4> HIDE DEF Good
      <4> QED
        BY <2>1, <3>1
    <3> DEFINE q == fresh[m - 1]
               p == fresh[m]
    <3>3. p = Unlisted(q, urls[m]) /\ urls[m] \in Urls /\ q \in Seq(Urls)
      BY <1>1, <1>5, <3>1, <3>2
    <3>4. \A i \in 1..m - 1 : Listed(q, i)
      BY <3>2
    <3> HIDE DEF p, q
    <3>5. /\ p \in Seq(Urls)
          /\ ToSet(q) \subseteq ToSet(p)
          /\ Listed(p, m)
      BY <3>3, UnlistedLists
    <3>6. \A i \in 1..m : i \in 1..m - 1 \/ i = m
      BY <3>1
    <3>7. p \in Seq(Urls) /\ \A i \in 1..m : Listed(p, i)
      BY <3>4, <3>5, <3>6
    <3> QED
      BY <3>7, <2>2 DEF p
  <2> QED
    BY <2>3, <2>4
<1>7. Good(N)
  BY <1>6, <1>1
<1> QED
  BY <1>4, <1>7

-----------------------------------------------------------------------------
(* Constants, counters and requests.                                       *)

(* What the assumptions say of the store that is crawled. *)
LEMMA ShopTypes ==
  ASSUME shop \in Shops
  PROVE  /\ shop.seeds \in Seq(Listings) /\ shop.failures \in Nat
         /\ shop.hydrates \in BOOLEAN /\ shop.numbered \in BOOLEAN
         /\ shop.sitemap \in Seq(Urls) /\ shop.leaves \in Seq(Leaves)
         /\ shop.drains \in Seq(Stages(shop)) /\ shop.others \in Seq(Stages(shop))
         /\ shop.errback \in Seq(Stages(shop))
         /\ shop.browsing = Graphs
         /\ shop.discovery # "categories" => Entry \in Listings
<1>1. /\ shop.seeds \in Seq(Listings) /\ shop.failures \in Nat
      /\ shop.hydrates \in BOOLEAN /\ shop.numbered \in BOOLEAN
  BY CrawlAssumption DEF CrawlAssumption
<1>2. /\ shop.sitemap \in Seq(Urls) /\ shop.leaves \in Seq(Leaves)
      /\ {shop.drains, shop.others, shop.errback} \subseteq Seq(Stages(shop))
      /\ shop.browsing = Graphs
      /\ shop.discovery # "categories" => shop.seeds # <<>>
  BY DiscoveryAssumption DEF DiscoveryAssumption
<1>3. shop.discovery # "categories" => Entry \in Listings
  BY <1>1, <1>2 DEF Entry
<1> QED
  BY <1>1, <1>2, <1>3

LEMMA Budgets ==
  ASSUME shop \in Shops
  PROVE  /\ \A kind \in {"total", "listing", "product", "browser"} : shop.budget[kind] \in Nat
         /\ shop.budget.listing + shop.budget.browser < shop.budget.total
         /\ shop.budget.browser < shop.budget.product
         /\ shop.leaves # <<>> =>
              /\ shop.budget.listing + shop.budget.browser + 1 < shop.budget.total
              /\ shop.budget.browser + 1 < shop.budget.product
<1>1. /\ \A kind \in {"total", "listing", "product", "browser"} : shop.budget[kind] \in Nat
      /\ shop.budget.listing + shop.budget.browser < shop.budget.total
      /\ shop.budget.browser < shop.budget.product
  BY CrawlAssumption DEF CrawlAssumption
<1>2. shop.leaves # <<>> =>
        /\ shop.budget.listing + shop.budget.browser + 1 < shop.budget.total
        /\ shop.budget.browser + 1 < shop.budget.product
  BY DiscoveryAssumption DEF DiscoveryAssumption
<1> QED
  BY <1>1, <1>2

(* The pages are products, leaves and browser pages. *)
LEMMA PageKinds ==
  /\ Pages = Urls \cup Leaves \cup Graphs
  /\ Urls \cap Leaves = {} /\ Urls \cap Graphs = {} /\ Leaves \cap Graphs = {}
  /\ Listings \cap Pages = {}
  /\ \A u \in Urls : Graph(u) \in Graphs
  /\ \A u, v \in Urls : Graph(u) = Graph(v) => u = v
<1>1. Others = Leaves \cup Graphs /\ Leaves \cap Graphs = {}
  BY DiscoveryAssumption DEF DiscoveryAssumption
<1>2. Urls \cap Others = {} /\ Listings \cap Pages = {}
  BY CrawlAssumption DEF CrawlAssumption
<1>3. /\ \A u \in Urls : Graph(u) \in Graphs
      /\ \A u, v \in Urls : Graph(u) = Graph(v) => u = v
  BY DEF Graph, Graphs
<1> QED
  BY <1>1, <1>2, <1>3 DEF Pages

LEMMA TakenIs ==
  ASSUME NEW r \in Slots, NEW b \in BOOLEAN
  PROVE  /\ Taken(r, "listing", b) \in Slots
         /\ Taken(r, "listing", b).listing = r.listing + 1
         /\ Taken(r, "listing", b).product = r.product
         /\ Taken(r, "listing", b).browser = r.browser + (IF b THEN 1 ELSE 0)
         /\ Taken(r, "product", b) \in Slots
         /\ Taken(r, "product", b).listing = r.listing
         /\ Taken(r, "product", b).product = r.product + 1
         /\ Taken(r, "product", b).browser = r.browser + (IF b THEN 1 ELSE 0)
<1> DEFINE l == Taken(r, "listing", b)
           p == Taken(r, "product", b)
<1>1. "listing" # "product" /\ "listing" # "browser" /\ "product" # "browser"
  OBVIOUS
<1>2. /\ l \in Slots
      /\ l["listing"] = r["listing"] + 1 /\ l["product"] = r["product"]
      /\ l["browser"] = r["browser"] + (IF b THEN 1 ELSE 0)
  BY <1>1 DEF Taken, Slots
<1>3. /\ p \in Slots
      /\ p["listing"] = r["listing"] /\ p["product"] = r["product"] + 1
      /\ p["browser"] = r["browser"] + (IF b THEN 1 ELSE 0)
  BY <1>1 DEF Taken, Slots
<1> QED
  BY <1>2, <1>3

LEMMA ReleasedIs ==
  ASSUME NEW r \in Slots, NEW b \in BOOLEAN
  PROVE  /\ Released(r, "listing", b) \in Slots
         /\ Released(r, "listing", b).listing = IF r.listing > 0 THEN r.listing - 1 ELSE 0
         /\ Released(r, "listing", b).product = r.product
         /\ Released(r, "listing", b).browser =
              IF b THEN IF r.browser > 0 THEN r.browser - 1 ELSE 0 ELSE r.browser
         /\ Released(r, "product", b) \in Slots
         /\ Released(r, "product", b).listing = r.listing
         /\ Released(r, "product", b).product = IF r.product > 0 THEN r.product - 1 ELSE 0
         /\ Released(r, "product", b).browser =
              IF b THEN IF r.browser > 0 THEN r.browser - 1 ELSE 0 ELSE r.browser
<1> DEFINE l == Released(r, "listing", b)
           p == Released(r, "product", b)
           less(n) == IF n > 0 THEN n - 1 ELSE 0
<1>1. "listing" # "product" /\ "listing" # "browser" /\ "product" # "browser"
  OBVIOUS
<1>2. /\ l \in Slots
      /\ l["listing"] = less(r["listing"]) /\ l["product"] = r["product"]
      /\ l["browser"] = IF b THEN less(r["browser"]) ELSE r["browser"]
  BY <1>1 DEF Released, Slots
<1>3. /\ p \in Slots
      /\ p["listing"] = r["listing"] /\ p["product"] = less(r["product"])
      /\ p["browser"] = IF b THEN less(r["browser"]) ELSE r["browser"]
  BY <1>1 DEF Released, Slots
<1> QED
  BY <1>2, <1>3

(* The three things that may come of a request for a listing. *)
ListingForgotten(updated) ==
    listing' = updated /\ inflight' = inflight /\ filtered' = filtered
ListingDropped(updated, b) ==
    /\ Admit(inflight, "listing") /\ (b => Browses(inflight))
    /\ listing' = updated
    /\ inflight' = Taken(inflight, "listing", b) /\ filtered' = Taken(filtered, "listing", b)
ListingQueued(updated, l, page, empty, repeats, b) ==
    /\ Admit(inflight, "listing") /\ (b => Browses(inflight))
    /\ updated[l].state = "new"
    /\ listing' = [updated EXCEPT ![l] =
         [@ EXCEPT !.state = "queued", !.page = page, !.browser = b,
                   !.empty = empty, !.repeats = repeats]]
    /\ inflight' = Taken(inflight, "listing", b) /\ filtered' = filtered

LEMMA ListingRequested ==
  ASSUME NEW updated, NEW l, NEW page, NEW empty, NEW repeats,
         RequestListing(updated, l, page, empty, repeats), shop.hydrates \in BOOLEAN
  PROVE  \/ ListingForgotten(updated)
         \/ \E b \in BOOLEAN : ListingDropped(updated, b)
         \/ \E b \in BOOLEAN : ListingQueued(updated, l, page, empty, repeats, b)
<1> DEFINE b == shop.hydrates /\ Browses(inflight)
<1>1. b \in BOOLEAN /\ (b => Browses(inflight))
  OBVIOUS
<1>2. CASE ~Admit(inflight, "listing")
  BY <1>2 DEF RequestListing, ListingForgotten
<1>3. CASE Admit(inflight, "listing")
  <2>1. CASE updated[l].state = "new"
    <3>1. ListingQueued(updated, l, page, empty, repeats, b)
      BY <1>1, <1>3, <2>1 DEF RequestListing, ListingQueued
    <3> QED
      BY <3>1, <1>1
  <2>2. CASE updated[l].state # "new"
    <3>1. ListingDropped(updated, b)
      BY <1>1, <1>3, <2>2 DEF RequestListing, ListingDropped
    <3> QED
      BY <3>1, <1>1
  <2> QED
    BY <2>1, <2>2
<1> QED
  BY <1>2, <1>3

(* A request changes the state of its own listing at most. *)
LEMMA ListingRequestTypes ==
  ASSUME TypeOK, NEW updated \in [Listings -> Listing], NEW l \in Listings,
         NEW page \in Nat, NEW empty \in Nat, NEW repeats \in Nat,
         RequestListing(updated, l, page, empty, repeats)
  PROVE  /\ listing' \in [Listings -> Listing]
         /\ inflight' \in Slots /\ filtered' \in Slots
         /\ \A k \in Listings :
              /\ \/ listing'[k].state = updated[k].state
                 \/ k = l /\ updated[k].state = "new" /\ listing'[k].state = "queued"
              /\ listing'[k].links = updated[k].links
              /\ listing'[k].seen = updated[k].seen
<1>1. inflight \in Slots /\ filtered \in Slots /\ shop.hydrates \in BOOLEAN
  BY ShopTypes DEF TypeOK
<1>2. CASE ListingForgotten(updated)
  BY <1>1, <1>2 DEF ListingForgotten
<1>3. ASSUME NEW b \in BOOLEAN, ListingDropped(updated, b)
      PROVE  listing' = updated /\ inflight' \in Slots /\ filtered' \in Slots
  BY <1>1, <1>3, TakenIs DEF ListingDropped
<1>4. ASSUME NEW b \in BOOLEAN, ListingQueued(updated, l, page, empty, repeats, b)
      PROVE  /\ inflight' \in Slots /\ filtered' \in Slots
             /\ updated[l].state = "new"
             /\ listing' \in [Listings -> Listing]
             /\ listing'[l].state = "queued"
             /\ listing'[l].links = updated[l].links /\ listing'[l].seen = updated[l].seen
             /\ \A k \in Listings \ {l} : listing'[k] = updated[k]
  <2> DEFINE q == [updated[l] EXCEPT !.state = "queued", !.page = page, !.browser = b,
                                     !.empty = empty, !.repeats = repeats]
  <2>1. q \in Listing /\ q.state = "queued" /\ q.links = updated[l].links /\ q.seen = updated[l].seen
    BY DEF Listing, ListingStates
  <2>2. listing' = [updated EXCEPT ![l] = q]
    BY <1>4, Zenon DEF ListingQueued
  <2>3. inflight' \in Slots /\ filtered' \in Slots /\ updated[l].state = "new"
    BY <1>1, <1>4, TakenIs DEF ListingQueued
  <2> HIDE DEF q
  <2> QED
    BY <2>1, <2>2, <2>3
<1> QED
  BY <1>1, <1>2, <1>3, <1>4, ListingRequested

(* A product is requested when the registry does not know it. *)
LEMMA ProductRequestTypes ==
  ASSUME TypeOK, NEW updated \in [Pages -> Product], NEW u \in Urls, RequestProduct(updated, u)
  PROVE  /\ known' \in Registry
         /\ known'.urls = known.urls \cup {u} /\ known'.ids = known.ids \cup {SourceId[u]}
         /\ inflight' \in Slots /\ filtered' \in Slots
         /\ inflight' = Taken(inflight, "product", FALSE)
         /\ product' \in [Pages -> Product]
         /\ \A p \in Pages \ {u} : product'[p] = updated[p]
         /\ updated[u].state = "new" => product'[u].state = "queued" /\ filtered' = filtered
         /\ updated[u].state # "new" => product' = updated
<1>1. inflight \in Slots /\ filtered \in Slots /\ known \in Registry
  BY DEF TypeOK
<1>2. inflight' = Taken(inflight, "product", FALSE) /\ inflight' \in Slots
  BY <1>1, TakenIs DEF RequestProduct
<1>3. /\ known' \in Registry
      /\ known'.urls = known.urls \cup {u} /\ known'.ids = known.ids \cup {SourceId[u]}
  BY <1>1 DEF RequestProduct, Remember, Registry, Ids
<1>4. CASE updated[u].state = "new"
  <2> DEFINE q == [updated[u] EXCEPT !.state = "queued"]
  <2>1. product' = [updated EXCEPT ![u] = q] /\ filtered' = filtered
    BY <1>4 DEF RequestProduct
  <2>2. q \in Product /\ q.state = "queued"
    BY DEF Pages, Product, ProductStates
  <2> HIDE DEF q
  <2> QED
    BY <1>1, <1>2, <1>3, <1>4, <2>1, <2>2 DEF Pages
<1>5. CASE updated[u].state # "new"
  BY <1>1, <1>2, <1>3, <1>5, TakenIs DEF RequestProduct
<1> QED
  BY <1>4, <1>5

-----------------------------------------------------------------------------
(* The steps, one by one.                                                  *)

Callbacks == Listings \cup Pages

(* A turn of a drain changes nothing of Uzum's but what it finds in deep. *)
DeepOnly ==
    /\ leaf' = leaf /\ fan' = fan /\ graph' \in Opening
    /\ graph'.waiting = graph.waiting /\ graph'.expanded = graph.expanded

(* The entry is a listing like the others when it shows its links without *)
(* a browser.                                                              *)
Parses(l) ==
    /\ ParseListing(l) /\ UNCHANGED own
    /\ l = Entry => shop.discovery = "graph"

LEMMA Steps ==
  ASSUME TypeOK, [DiscoveryNext]_discovery
  PROVE  \/ StartSeed /\ UNCHANGED own
         \/ \E l \in Listings : LoseListing(l) /\ UNCHANGED own
         \/ \E p \in Urls \cup Leaves : LoseProduct(p) /\ UNCHANGED own
         \/ \E u \in Urls : RejectProduct(u) /\ UNCHANGED own
         \/ \E f \in Leaves : LoseLeaf(f)
         \/ \E u \in Urls : LoseGraph(u)
         \/ HomepageBreaks
         \/ ReadSitemap
         \/ ReadIndex
         \/ HomepageArrives
         \/ HomepageShowsNone
         \/ HomepageShows
         \/ \E l \in Listings : Parses(l)
         \/ \E l \in Listings : FollowLink(l) /\ UNCHANGED own
         \/ \E l \in Listings : FollowSubcategory(l) /\ UNCHANGED own
         \/ \E l \in Listings : Paginate(l) /\ UNCHANGED own
         \/ \E u \in Urls : ParseProduct(u) /\ UNCHANGED own
         \/ \E c \in Callbacks, q \in Queues : DrainOver(c, q) /\ UNCHANGED own
         \/ \E c \in Callbacks, q \in Queues : DrainKnown(c, q) /\ DeepOnly
         \/ \E c \in Callbacks, q \in Queues, d \in {0, 1} : DrainRequestOf(c, q, d) /\ DeepOnly
         \/ \E u \in Urls : Expand(u)
         \/ \E f \in Leaves : ReadLeaf(f)
         \/ \E f \in Leaves : LeafKnown(f)
         \/ \E f \in Leaves : LeafProduct(f)
         \/ \E f \in Leaves : LeafOver(f)
         \/ \E u \in Urls : ParseGraph(u)
         \/ \E c \in Callbacks : Candidate(c)
         \/ \E c \in Callbacks : CandidatesOver(c)
         \/ \E c \in Callbacks : DrainGraph(c)
         \/ \E c \in Callbacks : DrainGraphOver(c)
         \/ UNCHANGED discovery
<1>1. graph \in Opening
  BY DEF TypeOK
<1>2. UNCHANGED own => DeepOnly
  BY <1>1 DEF own, DeepOnly
<1>3. CASE SeedTurn
  BY <1>3 DEF SeedTurn
<1>4. CASE Failure
  BY <1>4 DEF Failure
<1>5. ASSUME NEW l \in Listings, ListingTurn(l)
      PROVE  \/ ReadSitemap \/ ReadIndex \/ HomepageArrives \/ HomepageShowsNone \/ HomepageShows
             \/ Parses(l)
             \/ FollowLink(l) /\ UNCHANGED own
             \/ FollowSubcategory(l) /\ UNCHANGED own
             \/ Paginate(l) /\ UNCHANGED own
  BY <1>5 DEF ListingTurn, EntryStep, FollowStep, Parses
<1>6. ASSUME NEW u \in Urls, ProductTurn(u)
      PROVE  \/ ParseProduct(u) /\ UNCHANGED own
             \/ DrainOver(u, "framework") /\ UNCHANGED own
             \/ DrainKnown(u, "framework") /\ DeepOnly
             \/ DrainRequestOf(u, "framework", 0) /\ DeepOnly
             \/ Expand(u)
  BY <1>2, <1>6 DEF ProductTurn, DrainRequest
<1>7. ASSUME NEW c \in Callbacks, DrainOwn(c)
      PROVE  \/ DrainOver(c, "own") /\ UNCHANGED own
             \/ DrainKnown(c, "own") /\ DeepOnly
             \/ \E d \in {0, 1} : DrainRequestOf(c, "own", d) /\ DeepOnly
  <2> DEFINE depth == IF Head(queue["own"]) \in graph.deep THEN 1 ELSE 0
             less == [graph EXCEPT !.deep = @ \ {Head(queue["own"])}]
  <2>1. less \in Opening /\ less.waiting = graph.waiting /\ less.expanded = graph.expanded
    BY <1>1 DEF Opening
  <2>2. graph' = less /\ leaf' = leaf /\ fan' = fan => DeepOnly
    BY <2>1 DEF DeepOnly
  <2>3. depth \in {0, 1}
    OBVIOUS
  <2>4. \/ DrainOver(c, "own") /\ graph' = graph /\ leaf' = leaf /\ fan' = fan
        \/ /\ DrainKnown(c, "own") \/ DrainRequestOf(c, "own", depth)
           /\ graph' = less /\ leaf' = leaf /\ fan' = fan
    BY <1>7, Zenon DEF DrainOwn
  <2>5. graph' = graph /\ leaf' = leaf /\ fan' = fan => UNCHANGED own
    BY DEF own
  <2> HIDE DEF depth, less
  <2> QED
    BY <2>2, <2>3, <2>4, <2>5
<1>8. "framework" \in Queues /\ "own" \in Queues
  BY DEF Queues
<1>9. ASSUME NEW c \in Callbacks, Turn(c)
      PROVE  \/ c \in Listings /\ ListingTurn(c)
             \/ c \in Urls /\ ProductTurn(c)
             \/ \E f \in Leaves : ReadLeaf(f) \/ LeafKnown(f) \/ LeafProduct(f) \/ LeafOver(f)
             \/ \E u \in Urls : ParseGraph(u)
             \/ Candidate(c) \/ CandidatesOver(c)
             \/ DrainGraph(c) \/ DrainGraphOver(c) \/ DrainOwn(c)
  BY <1>9 DEF Turn, LeafTurn
<1>10. \A u \in Urls : u \in Callbacks
  BY DEF Callbacks, Pages
<1>11. CASE \E c \in Callbacks : Turn(c)
  <2>1. PICK c \in Callbacks : Turn(c)
    BY <1>11
  <2>2. CASE c \in Listings /\ ListingTurn(c)
    BY <2>2, <1>5
  <2>3. CASE c \in Urls /\ ProductTurn(c)
    BY <2>3, <1>6, <1>8, <1>10
  <2>4. CASE DrainOwn(c)
    BY <2>4, <1>7, <1>8
  <2> QED
    BY <2>1, <2>2, <2>3, <2>4, <1>9
<1> QED
  BY <1>3, <1>4, <1>11 DEF DiscoveryNext, Callbacks

(* A record of a listing, a page or a callback with another state. *)
LEMMA Moved ==
  ASSUME TypeOK
  PROVE  /\ \A l \in Listings, s \in ListingStates :
              [listing EXCEPT ![l].state = s] \in [Listings -> Listing]
         /\ \A p \in Pages, s \in ProductStates :
              [product EXCEPT ![p].state = s] \in [Pages -> Product]
         /\ \A p \in Pages, d \in {0, 1} :
              [product EXCEPT ![p].depth = d] \in [Pages -> Product]
         /\ \A c \in Callbacks, s \in Seq(Stages(shop)) :
              [drain EXCEPT ![c].queues = s] \in [Callbacks -> Callback]
<1>1. listing \in [Listings -> Listing] /\ product \in [Pages -> Product]
      /\ drain \in [Callbacks -> Callback]
  BY DEF TypeOK, Callbacks
<1>2. \A l \in Listings, s \in ListingStates : [listing[l] EXCEPT !.state = s] \in Listing
  BY <1>1 DEF Listing
<1>3. \A p \in Pages, s \in ProductStates : [product[p] EXCEPT !.state = s] \in Product
  BY <1>1 DEF Product
<1>4. \A p \in Pages, d \in {0, 1} : [product[p] EXCEPT !.depth = d] \in Product
  BY <1>1 DEF Product
<1>5. \A c \in Callbacks, s \in Seq(Stages(shop)) : [drain[c] EXCEPT !.queues = s] \in Callback
  BY <1>1 DEF Callback
<1> QED
  BY <1>1, <1>2, <1>3, <1>4, <1>5

(* What the next stage and one more turn make of a callback. *)
LEMMA Turned ==
  ASSUME TypeOK, NEW c \in Callbacks
  PROVE  /\ drain[c].queues # <<>> /\ EndTurn(c) => drain' \in [Callbacks -> Callback]
         /\ [drain EXCEPT ![c].drained = @ + 1] \in [Callbacks -> Callback]
<1>1. drain \in [Callbacks -> Callback]
  BY DEF TypeOK, Callbacks
<1>2. drain[c].queues # <<>> => [Idle EXCEPT !.queues = Tail(drain[c].queues)] \in Callback
  <2>1. drain[c].queues \in Seq(Stages(shop))
    BY <1>1 DEF Callback
  <2>2. drain[c].queues # <<>> => Tail(drain[c].queues) \in Seq(Stages(shop))
    BY <2>1
  <2> QED
    BY <2>2 DEF Idle, Callback
<1>3. [drain[c] EXCEPT !.drained = drain[c].drained + 1] \in Callback
  <2>1. drain[c] \in Callback
    BY <1>1
  <2> QED
    BY <2>1 DEF Callback
<1> QED
  BY <1>1, <1>2, <1>3 DEF EndTurn

(* What a callback reads off its page. *)
LEMMA ReadListingTypes ==
  ASSUME TypeOK, NEW l \in Listings, ReadListing(l)
  PROVE  /\ listing' \in [Listings -> Listing] /\ known' \in Registry
         /\ listing'[l].state = "parsing" /\ listing'[l].links = Links[l]
         /\ listing'[l].seen = listing[l].seen /\ listing'[l].browser = listing[l].browser
         /\ \A k \in Listings \ {l} : listing'[k] = listing[k]
         /\ known'.urls = known.urls /\ known'.ids = known.ids
<1>1. /\ listing \in [Listings -> Listing] /\ known \in Registry
      /\ Links[l] \in Seq(Urls) /\ Subcategories[l] \in Seq(Listings)
  BY CrawlAssumption DEF TypeOK, CrawlAssumption
<1>2. listing' = [listing EXCEPT ![l] = Answered(l)]
  BY DEF ReadListing
<1>3. /\ Answered(l) \in Listing
      /\ Answered(l).state = "parsing" /\ Answered(l).links = Links[l]
      /\ Answered(l).seen = listing[l].seen /\ Answered(l).browser = listing[l].browser
  <2>1. listing[l] \in Listing
    BY <1>1
  <2> DEFINE read(e, r) ==
        [listing[l] EXCEPT !.state = "parsing", !.links = Links[l], !.subs = Subcategories[l],
                           !.empty = e, !.repeats = r]
      e == IF Links[l] = <<>> THEN listing[l].empty + 1 ELSE 0
      r == IF Signature(l) \in known.signatures THEN listing[l].repeats + 1 ELSE 0
  <2>2. \A m, n \in Nat : /\ read(m, n) \in Listing
                          /\ read(m, n).state = "parsing" /\ read(m, n).links = Links[l]
                          /\ read(m, n).seen = listing[l].seen
                          /\ read(m, n).browser = listing[l].browser
    BY <1>1, <2>1 DEF Listing, ListingStates
  <2>3. e \in Nat /\ r \in Nat
    BY <2>1 DEF Listing
  <2>4. Answered(l) = read(e, r)
    BY DEF Answered
  <2> HIDE DEF read, e, r
  <2> QED
    BY <2>2, <2>3, <2>4
<1>4. known' \in Registry /\ known'.urls = known.urls /\ known'.ids = known.ids
  <2>1. Signature(l) \in {Path[k] : k \in Listings} \X Nat \X Seq(Urls)
    <3>1. PageNumber(l) \in Nat
      BY <1>1 DEF PageNumber, Listing
    <3> QED
      BY <1>1, <3>1 DEF Signature
  <2>2. known' = [known EXCEPT !.pages = @ \cup {l}, !.signatures = @ \cup {Signature(l)}]
    BY DEF ReadListing
  <2> QED
    BY <1>1, <2>1, <2>2 DEF Registry
<1> QED
  BY <1>1, <1>2, <1>3, <1>4

LEMMA EnqueuedTypes ==
  ASSUME TypeOK, NEW q \in Queues, NEW u \in Urls
  PROVE  /\ Enqueued(q, u) \in [Queues -> Seq(Urls)]
         /\ ToSet(Enqueued(q, u)[q]) = ToSet(queue[q]) \cup {u}
         /\ \A r \in Queues \ {q} : Enqueued(q, u)[r] = queue[r]
<1>1. queue \in [Queues -> Seq(Urls)] /\ queue[q] \in Seq(Urls)
  BY DEF TypeOK
<1>2. CASE Waits(q, u)
  <2>1. u \in ToSet(queue[q])
    BY <1>1, <1>2 DEF Waits, Contains, ToSet
  <2> QED
    BY <1>1, <1>2, <2>1 DEF Enqueued
<1>3. CASE ~Waits(q, u)
  <2>1. /\ Append(queue[q], u) \in Seq(Urls)
        /\ ToSet(Append(queue[q], u)) = ToSet(queue[q]) \cup {u}
    BY <1>1, Appended
  <2>2. Enqueued(q, u) = [queue EXCEPT ![q] = Append(queue[q], u)]
    BY <1>3 DEF Enqueued
  <2> QED
    BY <1>1, <2>1, <2>2
<1> QED
  BY <1>2, <1>3

LEMMA OpenTypes ==
  ASSUME TypeOK, NEW u \in Urls, NEW waiting \in Seq(Urls), Open(u, waiting)
  PROVE  /\ product' \in [Pages -> Product] /\ inflight' \in Slots /\ graph' \in Opening
         /\ graph'.expanded = graph.expanded \cup {u}
         /\ product'[Graph(u)].state = "queued"
         /\ \A p \in Pages \ {Graph(u)} : product'[p] = product[p]
<1>1. /\ product \in [Pages -> Product] /\ inflight \in Slots /\ graph \in Opening
      /\ Graph(u) \in Pages
  BY PageKinds DEF TypeOK
<1>2. /\ product' = [product EXCEPT ![Graph(u)].state = "queued"]
      /\ inflight' = Taken(inflight, "product", TRUE)
      /\ graph' = [graph EXCEPT !.waiting = waiting, !.expanded = @ \cup {u}]
  BY DEF Open
<1>3. product' \in [Pages -> Product]
  BY <1>1, <1>2, Moved DEF ProductStates
<1>4. inflight' \in Slots
  BY <1>1, <1>2, TakenIs
<1>5. graph' \in Opening /\ graph'.expanded = graph.expanded \cup {u}
  BY <1>1, <1>2 DEF Opening
<1>6. /\ product'[Graph(u)].state = "queued"
      /\ \A p \in Pages \ {Graph(u)} : product'[p] = product[p]
  BY <1>1, <1>2 DEF Product
<1> QED
  BY <1>3, <1>4, <1>5, <1>6

LEMMA SmallerOne ==
  ASSUME NEW m \in Nat, NEW n \in Nat
  PROVE  /\ Min({m, n}) \in Nat
         /\ Min({m, n}) <= m /\ Min({m, n}) <= n
         /\ Min({m, n}) \in {m, n}
<1>1. \E x \in {m, n} : \A y \in {m, n} : x =< y
  <2>1. CASE m <= n
    BY <2>1
  <2>2. CASE n <= m
    BY <2>2
  <2> QED
    BY <2>1, <2>2
<1> QED
  BY <1>1 DEF Min

LEMMA LeafUrlTypes ==
  ASSUME TypeOK, LeafInv, NEW f \in Leaves, Reads(f)
  PROVE  /\ LeafUrl(f) \in Urls
         /\ leaf[f].offset + 1 \in 1..Len(LeafUrls[f])
         /\ LeafUrl(f) = LeafUrls[f][leaf[f].offset + 1]
<1>1. LeafUrls[f] \in Seq(Urls) /\ leaf[f].offset \in Nat /\ leaf[f].until \in Nat
  BY DiscoveryAssumption DEF DiscoveryAssumption, TypeOK
<1>2. leaf[f].offset + 1 \in 1..Len(LeafUrls[f])
  BY <1>1 DEF Reads, LeafInv
<1> QED
  BY <1>1, <1>2 DEF LeafUrl

(* After a leaf is over it is asked for again, or it is done and the next  *)
(* one is asked for, or it was the last.                                   *)
LEMMA LeafOverMoves ==
  ASSUME TypeOK, LeafInv, NEW f \in Leaves, LeafOver(f)
  PROVE  /\ product' \in [Pages -> Product]
         /\ product[f].state = "reading"
         /\ \E g \in Leaves :
              /\ \A p \in Pages \ {f, g} : product'[p] = product[p]
              /\ g # f => /\ product'[f].state = "done" /\ product'[g].state = "internal"
                          /\ g \in ToSet(shop.leaves)
              /\ g = f => product'[f].state \in {"internal", "done"}
<1> DEFINE at == CHOOSE i \in DOMAIN shop.leaves : shop.leaves[i] = f
           over == [product EXCEPT ![f].state = "done"]
           next == shop.leaves[at + 1]
<1>1. product \in [Pages -> Product] /\ f \in Pages /\ shop.leaves \in Seq(Leaves)
  BY ShopTypes, PageKinds DEF TypeOK
<1>2. /\ over \in [Pages -> Product] /\ \A p \in Pages \ {f} : over[p] = product[p]
      /\ over[f].state = "done"
  <2>1. over \in [Pages -> Product]
    BY <1>1, Moved DEF ProductStates
  <2> QED
    BY <1>1, <2>1 DEF Product
<1>3. /\ product[f].state = "reading"
      /\ \/ product' = [product EXCEPT ![f].state = "internal"]
         \/ at < Len(shop.leaves) /\ product' = [over EXCEPT ![next].state = "internal"]
         \/ product' = over
  BY DEF LeafOver, LeafOverFrom
<1>4. at \in DOMAIN shop.leaves
  BY <1>3 DEF LeafInv, ToSet
<1>5. at < Len(shop.leaves) => next \in Leaves /\ next \in Pages /\ next \in ToSet(shop.leaves)
  <2> SUFFICES ASSUME at < Len(shop.leaves) PROVE next \in Leaves /\ next \in ToSet(shop.leaves)
    BY PageKinds
  <2>1. DOMAIN shop.leaves = 1..Len(shop.leaves) /\ Len(shop.leaves) \in Nat
    BY <1>1
  <2> HIDE DEF at
  <2>2. at + 1 \in DOMAIN shop.leaves
    BY <1>4, <2>1
  <2> QED
    BY <1>1, <2>1, <2>2 DEF ToSet
<1> HIDE DEF over, next, at
<1>6. CASE product' = [product EXCEPT ![f].state = "internal"]
  <2>1. /\ product' \in [Pages -> Product] /\ \A p \in Pages \ {f} : product'[p] = product[p]
        /\ product'[f].state = "internal"
    <3>1. product' \in [Pages -> Product]
      BY <1>1, <1>6, Moved DEF ProductStates
    <3> QED
      BY <1>1, <1>6, <3>1 DEF Product
  <2> QED
    BY <1>3, <2>1
<1>7. CASE at < Len(shop.leaves) /\ product' = [over EXCEPT ![next].state = "internal"]
  <2>1. /\ product' \in [Pages -> Product] /\ \A p \in Pages \ {next} : product'[p] = over[p]
        /\ product'[next].state = "internal"
    <3>1. [over[next] EXCEPT !.state = "internal"] \in Product
      BY <1>2, <1>5, <1>7 DEF Product, ProductStates
    <3>2. product' \in [Pages -> Product]
      BY <1>2, <1>7, <3>1
    <3> QED
      BY <1>2, <1>5, <1>7, <3>2 DEF Product
  <2>2. next # f => product'[f].state = "done"
    BY <1>1, <1>2, <2>1
  <2>3. \A p \in Pages \ {f, next} : product'[p] = product[p]
    BY <1>2, <2>1
  <2> QED
    BY <1>3, <1>5, <1>7, <2>1, <2>2, <2>3
<1>8. CASE product' = over
  BY <1>2, <1>3, <1>8
<1> QED
  BY <1>3, <1>6, <1>7, <1>8

LEMMA NextUrlTypes ==
  ASSUME TypeOK, NEW f \in Leaves, NextUrl(f)
  PROVE  /\ leaf' \in [Leaves -> [offset : Nat, until : Nat]]
         /\ leaf'[f].offset = leaf[f].offset + 1 /\ leaf'[f].until = leaf[f].until
         /\ \A g \in Leaves \ {f} : leaf'[g] = leaf[g]
<1>1. leaf \in [Leaves -> [offset : Nat, until : Nat]] /\ leaf[f].offset \in Nat
  BY DEF TypeOK
<1>2. leaf' = [leaf EXCEPT ![f].offset = leaf[f].offset + 1]
  BY DEF NextUrl
<1> QED
  BY <1>1, <1>2

LEMMA NextTypes == TypeOK /\ LeafInv /\ [DiscoveryNext]_discovery => TypeOK'
<1> SUFFICES ASSUME TypeOK, LeafInv, [DiscoveryNext]_discovery PROVE TypeOK'
  OBVIOUS
<1>1. /\ shop \in Shops /\ seeds \in Seq(Listings)
      /\ listing \in [Listings -> Listing] /\ product \in [Pages -> Product]
      /\ queue \in [Queues -> Seq(Urls)] /\ drain \in [Callbacks -> Callback]
      /\ known \in Registry /\ inflight \in Slots /\ filtered \in Slots /\ failures \in Nat
      /\ leaf \in [Leaves -> [offset : Nat, until : Nat]]
      /\ graph \in Opening /\ fan \in Candidates
  BY DEF TypeOK, Callbacks
<1>2. CASE StartSeed /\ UNCHANGED own
  <2>1. seeds # <<>> /\ seeds' = Tail(seeds) /\ RequestListing(listing, Head(seeds), 1, 0, 0)
    BY <1>2 DEF StartSeed
  <2>2. Head(seeds) \in Listings /\ seeds' \in Seq(Listings)
    BY <1>1, <2>1
  <2>3. listing' \in [Listings -> Listing] /\ inflight' \in Slots /\ filtered' \in Slots
    BY <1>1, <2>1, <2>2, ListingRequestTypes
  <2> QED
    BY <1>2, <1>1, <2>2, <2>3 DEF StartSeed, own, TypeOK, Callback
<1>3. ASSUME NEW l \in Listings, LoseListing(l) /\ UNCHANGED own
      PROVE  TypeOK'
  <2>1. /\ listing' = [listing EXCEPT ![l].state = "failed"]
        /\ drain' = [drain EXCEPT ![l].queues = shop.errback]
        /\ inflight' = Released(inflight, "listing", listing[l].browser)
        /\ failures' = failures + 1
    BY <1>3 DEF LoseListing, Fails
  <2>2. listing[l].browser \in BOOLEAN /\ l \in Callbacks /\ "failed" \in ListingStates
    BY <1>1 DEF Listing, ListingStates, Callbacks
  <2>3. listing' \in [Listings -> Listing] /\ drain' \in [Callbacks -> Callback]
    BY <2>1, <2>2, Moved, ShopTypes, <1>1
  <2>4. inflight' \in Slots
    BY <1>1, <2>1, <2>2, ReleasedIs
  <2> QED
    BY <1>3, <1>1, <2>1, <2>3, <2>4 DEF LoseListing, own, TypeOK, Callback, Callbacks
<1>4. ASSUME NEW p \in Urls \cup Leaves, LoseProduct(p) /\ UNCHANGED own
      PROVE  TypeOK'
  <2>1. /\ product' = [product EXCEPT ![p].state = "failed"]
        /\ drain' = [drain EXCEPT ![p].queues = shop.errback]
        /\ inflight' = Released(inflight, "product", FALSE)
        /\ failures' = failures + 1
    BY <1>4 DEF LoseProduct, Fails
  <2>5. UNCHANGED <<shop, seeds, listing, queue, known, filtered, own>>
    BY <1>4 DEF LoseProduct
  <2>2. p \in Pages /\ p \in Callbacks /\ "failed" \in ProductStates
    BY PageKinds DEF ProductStates, Callbacks
  <2>3. product' \in [Pages -> Product] /\ drain' \in [Callbacks -> Callback]
    BY <2>1, <2>2, Moved, ShopTypes, <1>1
  <2>4. inflight' \in Slots
    BY <1>1, <2>1, ReleasedIs
  <2>6. failures' \in Nat
    BY <1>1, <2>1
  <2> QED
    BY <1>1, <2>3, <2>4, <2>5, <2>6 DEF own, TypeOK, Callback, Callbacks
<1>5. ASSUME NEW u \in Urls, RejectProduct(u) /\ UNCHANGED own
      PROVE  TypeOK'
  <2>1. /\ product' = [product EXCEPT ![u].state = "rejected"]
        /\ inflight' = Released(inflight, "product", FALSE)
        /\ failures' = failures + 1
    BY <1>5 DEF RejectProduct, Fails
  <2>2. u \in Pages /\ "rejected" \in ProductStates
    BY PageKinds DEF ProductStates
  <2>3. product' \in [Pages -> Product]
    BY <2>1, <2>2, Moved, <1>1
  <2>4. inflight' \in Slots
    BY <1>1, <2>1, ReleasedIs
  <2>5. UNCHANGED <<shop, seeds, listing, queue, drain, known, filtered, own>>
    BY <1>5 DEF RejectProduct
  <2>6. failures' \in Nat
    BY <1>1, <2>1
  <2> QED
    BY <1>1, <2>3, <2>4, <2>5, <2>6 DEF own, TypeOK, Callback, Callbacks
<1>6. ASSUME NEW f \in Leaves, LoseLeaf(f)
      PROVE  TypeOK'
  <2>1. product' = [product EXCEPT ![f].state = "failed"] /\ failures' = failures + 1
    BY <1>6 DEF LoseLeaf, Fails
  <2>2. f \in Pages /\ "failed" \in ProductStates
    BY PageKinds DEF ProductStates
  <2>3. product' \in [Pages -> Product]
    BY <2>1, <2>2, Moved, <1>1
  <2> QED
    BY <1>6, <1>1, <2>1, <2>3 DEF LoseLeaf, own, TypeOK, Callback, Callbacks
<1>7. ASSUME NEW u \in Urls, LoseGraph(u)
      PROVE  TypeOK'
  <2>1. /\ product' = [product EXCEPT ![Graph(u)].state = "failed"]
        /\ inflight' = Released(inflight, "product", TRUE)
        /\ failures' = failures + 1
    BY <1>7 DEF LoseGraph, Fails
  <2>2. Graph(u) \in Pages /\ "failed" \in ProductStates
    BY PageKinds DEF ProductStates
  <2>3. product' \in [Pages -> Product]
    BY <2>1, <2>2, Moved, <1>1
  <2>4. inflight' \in Slots
    BY <1>1, <2>1, ReleasedIs
  <2>5. UNCHANGED <<shop, seeds, listing, queue, drain, known, filtered, own>>
    BY <1>7 DEF LoseGraph
  <2>6. failures' \in Nat
    BY <1>1, <2>1
  <2> QED
    BY <1>1, <2>3, <2>4, <2>5, <2>6 DEF own, TypeOK, Callback, Callbacks
<1>8. CASE HomepageBreaks
  <2>1. Entry \in Listings /\ Entry \in Callbacks
    BY <1>8, <1>1, ShopTypes DEF HomepageBreaks, Callbacks
  <2>2. listing' = [listing EXCEPT ![Entry].state = "failed"]
    BY <1>8 DEF HomepageBreaks, EntryTo
  <2>3. listing' \in [Listings -> Listing]
    BY <2>1, <2>2, Moved, <1>1 DEF ListingStates
  <2>4. listing[Entry].browser \in BOOLEAN
    BY <1>1, <2>1 DEF Listing
  <2>5. EntryReleased \in Slots
    BY <1>1, <2>4, ReleasedIs DEF EntryReleased
  <2> QED
    BY <1>8, <1>1, <2>3 DEF HomepageBreaks, Fails, own, TypeOK, Callback
<1>9. CASE ReadSitemap
  <2>1. Entry \in Listings /\ Entry \in Callbacks
    BY <1>9, <1>1, ShopTypes DEF ReadSitemap, Callbacks
  <2>2. listing' = [listing EXCEPT ![Entry].state = "seeded"]
    BY <1>9 DEF ReadSitemap, EntryTo
  <2>3. listing' \in [Listings -> Listing]
    BY <2>1, <2>2, Moved, <1>1 DEF ListingStates
  <2>4. listing[Entry].browser \in BOOLEAN
    BY <1>1, <2>1 DEF Listing
  <2>5. EntryReleased \in Slots
    BY <1>1, <2>4, ReleasedIs DEF EntryReleased
  <2>6. known' \in Registry
    <3>1. known' = [known EXCEPT !.pages = @ \cup {Entry}]
      BY <1>9 DEF ReadSitemap
    <3> QED
      BY <1>1, <2>1, <3>1 DEF Registry
  <2>7. queue' \in [Queues -> Seq(Urls)]
    <3>1. Fresh(shop.sitemap) \in Seq(Urls)
      BY <1>1, ShopTypes, FreshLists
    <3>2. queue' = queue \/ queue' = [queue EXCEPT !["own"] = Fresh(shop.sitemap)]
      BY <1>9 DEF ReadSitemap
    <3> QED
      BY <1>1, <3>1, <3>2 DEF Queues
  <2>8. drain' \in [Callbacks -> Callback]
    <3>1. drain' = [drain EXCEPT ![Entry].queues = <<"own">>]
      BY <1>9 DEF ReadSitemap
    <3>2. <<"own">> \in Seq(Stages(shop))
      <4>1. "own" \in Stages(shop)
        BY DEF Stages, Queues
      <4> QED
        BY <4>1
    <3> QED
      BY <2>1, <3>1, <3>2, Moved, <1>1
  <2> QED
    BY <1>9, <1>1, <2>3, <2>5, <2>6, <2>7, <2>8 DEF ReadSitemap, own, TypeOK, Callback, Callbacks
<1>10. CASE ReadIndex
  <2>1. Entry \in Listings /\ Entry \in Callbacks
    BY <1>10, <1>1, ShopTypes DEF ReadIndex, Callbacks
  <2>2. listing' = [listing EXCEPT ![Entry].state = "seeded"]
    BY <1>10 DEF ReadIndex, EntryTo
  <2>3. listing' \in [Listings -> Listing]
    BY <2>1, <2>2, Moved, <1>1 DEF ListingStates
  <2>4. listing[Entry].browser \in BOOLEAN
    BY <1>1, <2>1 DEF Listing
  <2>5. EntryReleased \in Slots
    BY <1>1, <2>4, ReleasedIs DEF EntryReleased
  <2>6. product' \in [Pages -> Product] /\ inflight' \in Slots
    <3>1. \/ /\ shop.leaves # <<>>
             /\ product' = [product EXCEPT ![Head(shop.leaves)].state = "queued"]
             /\ inflight' = Taken(EntryReleased, "product", FALSE)
          \/ product' = product /\ inflight' = EntryReleased
      BY <1>10 DEF ReadIndex
    <3>2. shop.leaves # <<>> => Head(shop.leaves) \in Pages
      BY <1>1, ShopTypes, PageKinds
    <3>3. Taken(EntryReleased, "product", FALSE) \in Slots
      BY <2>5, TakenIs
    <3>4. shop.leaves # <<>> =>
            [product EXCEPT ![Head(shop.leaves)].state = "queued"] \in [Pages -> Product]
      BY <3>2, Moved DEF ProductStates
    <3> QED
      BY <1>1, <2>5, <3>1, <3>3, <3>4
  <2> QED
    BY <1>10, <1>1, <2>3, <2>6 DEF ReadIndex, own, TypeOK, Callback
<1>11. CASE HomepageArrives
  <2>1. Entry \in Listings /\ Entry \in Callbacks
    BY <1>11, <1>1, ShopTypes DEF HomepageArrives, Callbacks
  <2>2. listing' = [listing EXCEPT ![Entry].state = "awaiting"]
    BY <1>11 DEF HomepageArrives, EntryTo
  <2>3. listing' \in [Listings -> Listing]
    BY <2>1, <2>2, Moved, <1>1 DEF ListingStates
  <2>4. listing[Entry].browser \in BOOLEAN
    BY <1>1, <2>1 DEF Listing
  <2>5. EntryReleased \in Slots
    BY <1>1, <2>4, ReleasedIs DEF EntryReleased
  <2> QED
    BY <1>11, <1>1, <2>3, <2>5 DEF HomepageArrives, own, TypeOK, Callback
<1>12. CASE HomepageShowsNone
  <2>1. Entry \in Listings
    BY <1>12, <1>1, ShopTypes DEF HomepageShowsNone
  <2>2. ReadListing(Entry)
    BY <1>12 DEF HomepageShowsNone
  <2>3. listing' \in [Listings -> Listing] /\ known' \in Registry
    BY <1>1, <2>1, <2>2, ReadListingTypes
  <2> QED
    BY <1>12, <1>1, <2>2, <2>3 DEF HomepageShowsNone, ReadListing, own, TypeOK, Callback
<1>13. CASE HomepageShows
  <2>1. Entry \in Listings /\ Entry \in Callbacks
    BY <1>13, <1>1, ShopTypes DEF HomepageShows, Callbacks
  <2>2. listing' = [listing EXCEPT ![Entry].state = "seeded"]
    BY <1>13 DEF HomepageShows, EntryTo
  <2>3. listing' \in [Listings -> Listing]
    BY <2>1, <2>2, Moved, <1>1 DEF ListingStates
  <2>4. listing[Entry].browser \in BOOLEAN
    BY <1>1, <2>1 DEF Listing
  <2>5. EntryReleased \in Slots
    BY <1>1, <2>4, ReleasedIs DEF EntryReleased
  <2>6. known' \in Registry
    <3>1. known' = [known EXCEPT !.pages = @ \cup {Entry}]
      BY <1>13 DEF HomepageShows
    <3> QED
      BY <1>1, <2>1, <3>1 DEF Registry
  <2>7. drain' \in [Callbacks -> Callback]
    <3>1. drain' = [drain EXCEPT ![Entry].queues = <<"links">>]
      BY <1>13 DEF HomepageShows
    <3>2. <<"links">> \in Seq(Stages(shop))
      BY <1>13 DEF HomepageShows, Stages
    <3> QED
      BY <2>1, <3>1, <3>2, Moved, <1>1
  <2>8. fan' \in Candidates
    <3>1. Links[Entry] \in Seq(Urls)
      BY <2>1, CrawlAssumption DEF CrawlAssumption
    <3> QED
      BY <1>13, <3>1 DEF HomepageShows, NoFan, Candidates
  <2> QED
    BY <1>13, <1>1, <2>3, <2>6, <2>7, <2>8 DEF HomepageShows, own, TypeOK, Callback, Callbacks
<1>14. ASSUME NEW l \in Listings, Parses(l)
      PROVE  TypeOK'
  <2>1. ReadListing(l) /\ inflight' = Released(inflight, "listing", listing[l].browser)
    BY <1>14 DEF Parses, ParseListing
  <2>2. listing' \in [Listings -> Listing] /\ known' \in Registry
    BY <1>1, <2>1, ReadListingTypes
  <2>3. inflight' \in Slots
    <3>1. listing[l].browser \in BOOLEAN
      BY <1>1 DEF Listing
    <3> QED
      BY <1>1, <2>1, <3>1, ReleasedIs
  <2> QED
    BY <1>14, <1>1, <2>1, <2>2, <2>3 DEF Parses, ReadListing, own, TypeOK, Callback
<1>15. ASSUME NEW l \in Listings, FollowLink(l) /\ UNCHANGED own
      PROVE  TypeOK'
  <2> DEFINE u == Head(listing[l].links)
             rest == [listing EXCEPT ![l].links = Tail(listing[l].links)]
             noted == [rest EXCEPT ![l].seen = rest[l].seen \cup {u}]
  <2>1. /\ \/ listing' = rest \/ listing' = noted
        /\ \/ UNCHANGED <<product, known, inflight, filtered>>
           \/ RequestProduct(product, u)
        /\ queue' = queue \/ queue' = Enqueued("framework", u)
        /\ listing[l].links # <<>>
        /\ UNCHANGED <<shop, seeds, drain, failures>>
    BY <1>15 DEF FollowLink
  <2>2. u \in Urls /\ Tail(listing[l].links) \in Seq(Urls)
    <3>1. listing[l].links \in Seq(Urls)
      BY <1>1 DEF Listing
    <3> QED
      BY <2>1, <3>1, TailHead
  <2>3. rest \in [Listings -> Listing] /\ noted \in [Listings -> Listing]
    <3>1. [listing[l] EXCEPT !.links = Tail(listing[l].links)] \in Listing
      BY <1>1, <2>2 DEF Listing
    <3>2. rest \in [Listings -> Listing]
      BY <1>1, <3>1
    <3> HIDE DEF rest
    <3>3. [rest[l] EXCEPT !.seen = rest[l].seen \cup {u}] \in Listing
      BY <2>2, <3>2 DEF Listing
    <3> QED
      BY <3>2, <3>3
  <2>4. /\ known' \in Registry /\ inflight' \in Slots /\ filtered' \in Slots
        /\ product' \in [Pages -> Product]
    BY <1>1, <2>1, <2>2, ProductRequestTypes
  <2>5. queue' \in [Queues -> Seq(Urls)]
    BY <1>1, <2>1, <2>2, EnqueuedTypes DEF Queues
  <2> HIDE DEF u, rest, noted
  <2> QED
    BY <1>15, <1>1, <2>1, <2>3, <2>4, <2>5 DEF own, TypeOK, Callback
<1>16. ASSUME NEW l \in Listings, FollowSubcategory(l) /\ UNCHANGED own
      PROVE  TypeOK'
  <2> DEFINE s == Head(listing[l].subs)
             rest == [listing EXCEPT ![l].subs = Tail(listing[l].subs)]
  <2>1. /\ listing[l].subs # <<>>
        /\ known' = [known EXCEPT !.pages = @ \cup {s}]
        /\ \/ listing' = rest /\ UNCHANGED <<inflight, filtered>>
           \/ RequestListing(rest, s, 1, 0, 0)
        /\ UNCHANGED <<shop, seeds, product, queue, drain, failures>>
    BY <1>16 DEF FollowSubcategory
  <2>2. s \in Listings /\ Tail(listing[l].subs) \in Seq(Listings)
    <3>1. listing[l].subs \in Seq(Listings)
      BY <1>1 DEF Listing
    <3> QED
      BY <2>1, <3>1, TailHead
  <2>3. rest \in [Listings -> Listing]
    <3>1. [listing[l] EXCEPT !.subs = Tail(listing[l].subs)] \in Listing
      BY <1>1, <2>2 DEF Listing
    <3> QED
      BY <1>1, <3>1
  <2>4. known' \in Registry
    BY <1>1, <2>1, <2>2 DEF Registry
  <2> HIDE DEF s, rest
  <2>5. listing' \in [Listings -> Listing] /\ inflight' \in Slots /\ filtered' \in Slots
    BY <1>1, <2>1, <2>2, <2>3, ListingRequestTypes
  <2> QED
    BY <1>16, <1>1, <2>1, <2>4, <2>5 DEF own, TypeOK, Callback
<1>17. ASSUME NEW l \in Listings, Paginate(l) /\ UNCHANGED own
      PROVE  TypeOK'
  <2> DEFINE done == [listing EXCEPT ![l].state = "done"]
  <2>1. /\ \/ listing' = done /\ UNCHANGED <<inflight, filtered>>
           \/ /\ NextPage[l] # None
              /\ RequestListing(done, NextPage[l], listing[l].page + 1,
                                listing[l].empty, listing[l].repeats)
        /\ UNCHANGED <<shop, seeds, product, queue, drain, known, failures>>
    BY <1>17 DEF Paginate, StopsAt
  <2>2. done \in [Listings -> Listing]
    BY <1>1, Moved DEF ListingStates
  <2>3. /\ NextPage[l] # None => NextPage[l] \in Listings
        /\ listing[l].page + 1 \in Nat /\ listing[l].empty \in Nat /\ listing[l].repeats \in Nat
    BY <1>1, CrawlAssumption DEF CrawlAssumption, Listing
  <2> HIDE DEF done
  <2>4. listing' \in [Listings -> Listing] /\ inflight' \in Slots /\ filtered' \in Slots
    BY <1>1, <2>1, <2>2, <2>3, ListingRequestTypes
  <2> QED
    BY <1>17, <1>1, <2>1, <2>4 DEF own, TypeOK, Callback
<1>18. ASSUME NEW u \in Urls, ParseProduct(u) /\ UNCHANGED own
      PROVE  TypeOK'
  <2>1. /\ product' = [product EXCEPT ![u].state = "done"]
        /\ drain' = [drain EXCEPT ![u].queues = shop.drains]
        /\ inflight' = Released(inflight, "product", FALSE)
    BY <1>18 DEF ParseProduct
  <2>2. u \in Pages /\ u \in Callbacks /\ "done" \in ProductStates
    BY PageKinds DEF ProductStates, Callbacks
  <2>3. product' \in [Pages -> Product] /\ drain' \in [Callbacks -> Callback]
    BY <2>1, <2>2, Moved, ShopTypes, <1>1
  <2>4. inflight' \in Slots
    BY <1>1, <2>1, ReleasedIs
  <2> QED
    BY <1>18, <1>1, <2>1, <2>3, <2>4 DEF ParseProduct, own, TypeOK, Callback, Callbacks
<1>19. ASSUME NEW c \in Callbacks, NEW q \in Queues, DrainOver(c, q) /\ UNCHANGED own
      PROVE  TypeOK'
  <2>1. drain' \in [Callbacks -> Callback]
    BY <1>19, <1>1, Turned DEF DrainOver, At
  <2> QED
    BY <1>19, <1>1, <2>1 DEF DrainOver, own, TypeOK, Callback, Callbacks
<1>20. ASSUME NEW c \in Callbacks, NEW q \in Queues, DrainKnown(c, q) /\ DeepOnly
      PROVE  TypeOK'
  <2>1. queue' \in [Queues -> Seq(Urls)]
    BY <1>20, <1>1 DEF DrainKnown, HasTurn
  <2> QED
    BY <1>20, <1>1, <2>1 DEF DrainKnown, DeepOnly, TypeOK, Callback
<1>21. ASSUME NEW c \in Callbacks, NEW q \in Queues, NEW d \in {0, 1}, DrainRequestOf(c, q, d) /\ DeepOnly
      PROVE  TypeOK'
  <2> DEFINE u == Head(queue[q])
             updated == [product EXCEPT ![u].depth = d]
  <2>1. /\ queue[q] # <<>> /\ queue' = [queue EXCEPT ![q] = Tail(queue[q])]
        /\ drain' = [drain EXCEPT ![c].drained = drain[c].drained + 1]
        /\ RequestProduct(updated, u)
        /\ UNCHANGED <<shop, seeds, listing, failures>>
    BY <1>21 DEF DrainRequestOf, HasTurn
  <2>2. u \in Urls /\ u \in Pages /\ queue' \in [Queues -> Seq(Urls)]
    BY <1>1, <2>1 DEF Pages
  <2>3. updated \in [Pages -> Product]
    BY <1>1, <2>2, Moved
  <2>4. drain' \in [Callbacks -> Callback]
    BY <1>1, <2>1, Turned
  <2> HIDE DEF u, updated
  <2>5. /\ known' \in Registry /\ inflight' \in Slots /\ filtered' \in Slots
        /\ product' \in [Pages -> Product]
    BY <1>1, <2>1, <2>2, <2>3, ProductRequestTypes
  <2> QED
    BY <1>21, <1>1, <2>1, <2>2, <2>4, <2>5 DEF DeepOnly, TypeOK, Callback, Callbacks
<1>22. ASSUME NEW u \in Urls, Expand(u)
      PROVE  TypeOK'
  <2>1. u \in Callbacks /\ Graph(u) \in Pages
    BY PageKinds DEF Callbacks
  <2>2. drain' \in [Callbacks -> Callback]
    BY <1>22, <1>1, <2>1, Turned DEF Expand, At
  <2>3. product' \in [Pages -> Product] /\ inflight' \in Slots /\ graph' \in Opening
    <3>1. CASE Open(u, graph.waiting)
      <4>1. graph.waiting \in Seq(Urls)
        BY <1>1 DEF Opening
      <4> QED
        BY <1>1, <3>1, <4>1, OpenTypes
    <3>2. CASE graph' = [graph EXCEPT !.waiting = Append(graph.waiting, u)]
               /\ UNCHANGED <<product, inflight>>
      <4>1. Append(graph.waiting, u) \in Seq(Urls)
        BY <1>1 DEF Opening
      <4> QED
        BY <1>1, <3>2, <4>1 DEF Opening
    <3>3. CASE UNCHANGED <<product, inflight, graph>>
      BY <1>1, <3>3
    <3> QED
      BY <1>22, <3>1, <3>2, <3>3 DEF Expand
  <2> QED
    BY <1>22, <1>1, <2>2, <2>3 DEF Expand, TypeOK, Callback, Callbacks
<1>23. ASSUME NEW f \in Leaves, ReadLeaf(f)
      PROVE  TypeOK'
  <2>1. /\ product' = [product EXCEPT ![f].state = "reading"]
        /\ leaf' = [leaf EXCEPT ![f].until = Min({leaf[f].until + Batch, Len(LeafUrls[f])})]
        /\ inflight' = Released(inflight, "product", FALSE) \/ inflight' = inflight
    BY <1>23 DEF ReadLeaf
  <2>2. product' \in [Pages -> Product]
    BY <1>1, <2>1, Moved, PageKinds DEF ProductStates
  <2>3. inflight' \in Slots
    BY <1>1, <2>1, ReleasedIs
  <2>4. leaf' \in [Leaves -> [offset : Nat, until : Nat]]
    <3>1. leaf[f].until + Batch \in Nat /\ Len(LeafUrls[f]) \in Nat
      BY <1>1, DiscoveryAssumption DEF DiscoveryAssumption
    <3>2. Min({leaf[f].until + Batch, Len(LeafUrls[f])}) \in Nat
      BY <3>1, SmallerOne
    <3> QED
      BY <1>1, <2>1, <3>2
  <2> QED
    BY <1>23, <1>1, <2>2, <2>3, <2>4 DEF ReadLeaf, TypeOK, Callback
<1>24. ASSUME NEW f \in Leaves, LeafKnown(f)
      PROVE  TypeOK'
  <2>1. leaf' \in [Leaves -> [offset : Nat, until : Nat]]
    BY <1>24, <1>1, NextUrlTypes DEF LeafKnown
  <2> QED
    BY <1>24, <1>1, <2>1 DEF LeafKnown, vars, TypeOK, Callback
<1>25. ASSUME NEW f \in Leaves, LeafProduct(f)
      PROVE  TypeOK'
  <2>1. leaf' \in [Leaves -> [offset : Nat, until : Nat]]
    BY <1>25, <1>1, NextUrlTypes DEF LeafProduct
  <2>2. LeafUrl(f) \in Urls
    BY <1>25, <1>1, LeafUrlTypes DEF LeafProduct
  <2>3. RequestProduct(product, LeafUrl(f))
    BY <1>25 DEF LeafProduct
  <2>4. /\ known' \in Registry /\ inflight' \in Slots /\ filtered' \in Slots
        /\ product' \in [Pages -> Product]
    BY <1>1, <2>2, <2>3, ProductRequestTypes
  <2> QED
    BY <1>25, <1>1, <2>1, <2>4 DEF LeafProduct, TypeOK, Callback
<1>26. ASSUME NEW f \in Leaves, LeafOver(f)
      PROVE  TypeOK'
  <2>1. leaf' \in [Leaves -> [offset : Nat, until : Nat]]
    <3>1. leaf[f].offset \in Nat
      BY <1>1
    <3>2. leaf' = [leaf EXCEPT ![f] = [offset |-> leaf[f].offset, until |-> leaf[f].offset]]
      BY <1>26 DEF LeafOver, LeafOverFrom
    <3> QED
      BY <1>1, <3>1, <3>2
  <2>2. product' \in [Pages -> Product]
    BY <1>26, <1>1, LeafOverMoves
  <2> QED
    BY <1>26, <1>1, <2>1, <2>2 DEF LeafOver, LeafOverFrom, TypeOK, Callback
<1>27. ASSUME NEW u \in Urls, ParseGraph(u)
      PROVE  TypeOK'
  <2>1. /\ product' = [product EXCEPT ![Graph(u)].state = "done"]
        /\ drain' = [drain EXCEPT ![Graph(u)].queues = shop.others]
        /\ inflight' = Released(inflight, "product", TRUE)
        /\ fan' = [NoFan EXCEPT !.links = GraphLinks[u]]
    BY <1>27 DEF ParseGraph
  <2>2. Graph(u) \in Pages /\ Graph(u) \in Callbacks /\ "done" \in ProductStates
    BY PageKinds DEF ProductStates, Callbacks
  <2>3. product' \in [Pages -> Product] /\ drain' \in [Callbacks -> Callback]
    BY <2>1, <2>2, Moved, ShopTypes, <1>1
  <2>4. inflight' \in Slots
    BY <1>1, <2>1, ReleasedIs
  <2>5. fan' \in Candidates
    <3>1. GraphLinks[u] \in Seq(Urls)
      BY DiscoveryAssumption DEF DiscoveryAssumption
    <3> QED
      BY <2>1, <3>1 DEF NoFan, Candidates
  <2> QED
    BY <1>27, <1>1, <2>3, <2>4, <2>5 DEF ParseGraph, TypeOK, Callback, Callbacks
<1>28. ASSUME NEW c \in Callbacks, Candidate(c)
      PROVE  TypeOK'
  <2> DEFINE u == Head(fan.links)
             updated == [product EXCEPT ![u].depth = Depth(c)]
  <2>1. /\ fan.links # <<>>
        /\ \/ UNCHANGED <<product, known, inflight, filtered>>
           \/ RequestProduct(updated, u)
        /\ queue' = queue \/ queue' = Enqueued("own", u)
        /\ graph' = graph \/ graph' = [graph EXCEPT !.deep = graph.deep \cup {u}]
        /\ UNCHANGED <<shop, seeds, listing, drain, failures, leaf>>
    BY <1>28 DEF Candidate
  <2>2. u \in Urls /\ u \in Pages /\ Tail(fan.links) \in Seq(Urls)
    <3>1. fan.links \in Seq(Urls)
      BY <1>1 DEF Candidates
    <3> QED
      BY <2>1, <3>1, TailHead DEF Pages
  <2>3. updated \in [Pages -> Product]
    BY <1>1, <2>2, Moved DEF Depth
  <2>4. fan' \in Candidates
    <3> DEFINE rest == [fan EXCEPT !.links = Tail(fan.links)]
               noted == [fan EXCEPT !.links = Tail(fan.links), !.seen = fan.seen \cup {u}]
    <3>1. \/ fan' = rest \/ fan' = noted
          \/ fan' = [noted EXCEPT !.scheduled = noted.scheduled + 1]
      BY <1>28 DEF Candidate
    <3> HIDE DEF u
    <3>2. rest \in Candidates /\ noted \in Candidates
      BY <1>1, <2>2 DEF Candidates
    <3> HIDE DEF rest, noted
    <3>3. [noted EXCEPT !.scheduled = noted.scheduled + 1] \in Candidates
      BY <3>2 DEF Candidates
    <3> QED
      BY <3>1, <3>2, <3>3
  <2>5. queue' \in [Queues -> Seq(Urls)]
    BY <1>1, <2>1, <2>2, EnqueuedTypes DEF Queues
  <2>6. graph' \in Opening
    BY <1>1, <2>1, <2>2 DEF Opening
  <2> HIDE DEF u, updated
  <2>7. /\ known' \in Registry /\ inflight' \in Slots /\ filtered' \in Slots
        /\ product' \in [Pages -> Product]
    BY <1>1, <2>1, <2>2, <2>3, ProductRequestTypes
  <2> QED
    BY <1>1, <2>1, <2>4, <2>5, <2>6, <2>7 DEF TypeOK, Callback
<1>29. ASSUME NEW c \in Callbacks, CandidatesOver(c)
      PROVE  TypeOK'
  <2>1. drain' \in [Callbacks -> Callback]
    BY <1>29, <1>1, Turned DEF CandidatesOver, At
  <2>2. fan' \in Candidates
    BY <1>29 DEF CandidatesOver, NoFan, Candidates
  <2> QED
    BY <1>29, <1>1, <2>1, <2>2 DEF CandidatesOver, TypeOK, Callback, Callbacks
<1>30. ASSUME NEW c \in Callbacks, DrainGraph(c)
      PROVE  TypeOK'
  <2>1. /\ graph.waiting # <<>>
        /\ Open(Head(graph.waiting), Tail(graph.waiting))
        /\ drain' = [drain EXCEPT ![c].drained = drain[c].drained + 1]
    BY <1>30 DEF DrainGraph, SeedOpens
  <2>2. Head(graph.waiting) \in Urls /\ Tail(graph.waiting) \in Seq(Urls)
    BY <1>1, <2>1 DEF Opening
  <2>3. product' \in [Pages -> Product] /\ inflight' \in Slots /\ graph' \in Opening
    BY <1>1, <2>1, <2>2, OpenTypes
  <2>4. drain' \in [Callbacks -> Callback]
    BY <1>1, <2>1, Turned
  <2> QED
    BY <1>30, <1>1, <2>3, <2>4 DEF DrainGraph, TypeOK, Callback, Callbacks
<1>31. ASSUME NEW c \in Callbacks, DrainGraphOver(c)
      PROVE  TypeOK'
  <2>1. drain' \in [Callbacks -> Callback]
    BY <1>31, <1>1, Turned DEF DrainGraphOver, At
  <2> QED
    BY <1>31, <1>1, <2>1 DEF DrainGraphOver, own, TypeOK, Callback, Callbacks
<1>32. CASE UNCHANGED discovery
  BY <1>32, <1>1 DEF discovery, vars, own, TypeOK, Callback
<1> QED
  BY Steps, <1>2, <1>3, <1>4, <1>5, <1>6, <1>7, <1>8, <1>9, <1>10, <1>11,
     <1>12, <1>13, <1>14, <1>15, <1>16, <1>17, <1>18, <1>19, <1>20, <1>21,
     <1>22, <1>23, <1>24, <1>25, <1>26, <1>27, <1>28, <1>29, <1>30, <1>31,
     <1>32

-----------------------------------------------------------------------------
(* What a step may do to requests, slots and registry.                     *)

SameListing(l) ==
    /\ listing'[l].state = "new" <=> listing[l].state = "new"
    /\ listing'[l].state = "queued" <=> listing[l].state = "queued"
    /\ listing'[l].browser = listing[l].browser
SameListings == \A l \in Listings : SameListing(l)
SameState(p) == product'[p].state = product[p].state
SamePages == \A p \in Pages : SameState(p)
SameSlots == inflight' = inflight /\ filtered' = filtered
SameRegistry == known'.urls = known.urls /\ known'.ids = known.ids
SameExpanded == graph'.expanded = graph.expanded
SameRest == SamePages /\ SameRegistry /\ SameExpanded

Nothing == SameListings /\ SameSlots /\ SameRest

(* A request for a listing was dropped, was made, or came to its end. *)
Drops(b) ==
    /\ Admit(inflight, "listing") /\ (b => Browses(inflight))
    /\ inflight' = Taken(inflight, "listing", b) /\ filtered' = Taken(filtered, "listing", b)
    /\ SameListings /\ SameRest
QueuesListing(l, b) ==
    /\ Admit(inflight, "listing") /\ (b => Browses(inflight))
    /\ inflight' = Taken(inflight, "listing", b) /\ filtered' = filtered
    /\ listing[l].state = "new" /\ listing'[l].state = "queued" /\ listing'[l].browser = b
    /\ \A k \in Listings \ {l} : SameListing(k)
    /\ SameRest
Ends(l) ==
    /\ listing[l].state = "queued" /\ listing'[l].state \notin {"new", "queued"}
    /\ \A k \in Listings \ {l} : SameListing(k)
Answers(l) ==
    /\ Ends(l) /\ SameRest
    /\ inflight' = Released(inflight, "listing", listing[l].browser) /\ filtered' = filtered

(* A product was requested, a seed was opened in a browser, a page's       *)
(* request came to its end.                                                *)
Requests(u) ==
    /\ ~Skip(u) /\ CanRequest(u)
    /\ product[u].state = "new" /\ product'[u].state = "queued"
    /\ \A p \in Pages \ {u} : SameState(p)
    /\ known'.urls = known.urls \cup {u} /\ known'.ids = known.ids \cup {SourceId[u]}
    /\ inflight' = Taken(inflight, "product", FALSE) /\ filtered' = filtered
    /\ SameListings /\ SameExpanded
OpensGraph(u) ==
    /\ Admit(inflight, "product") /\ Browses(inflight)
    /\ u \notin graph.expanded /\ graph'.expanded = graph.expanded \cup {u}
    /\ product'[Graph(u)].state = "queued"
    /\ \A p \in Pages \ {Graph(u)} : SameState(p)
    /\ inflight' = Taken(inflight, "product", TRUE) /\ filtered' = filtered
    /\ SameListings /\ SameRegistry
Closes(p) ==
    /\ product[p].state = "queued" /\ product'[p].state \notin {"new", "queued", "internal"}
    /\ p \notin Leaves => product'[p].state # "reading"
    /\ \A r \in Pages \ {p} : SameState(r)
    /\ inflight' = Released(inflight, "product", p \in Graphs) /\ filtered' = filtered
    /\ SameListings /\ SameRegistry /\ SameExpanded

(* The index was read and the first leaf asked for; a leaf was answered,   *)
(* or lost, or is over, and no slot was held for it.                       *)
StartsLeaves(first) ==
    /\ shop.discovery = "leaves" /\ Ends(Entry) /\ first \in ToSet(shop.leaves)
    /\ Admit(EntryReleased, "product")
    /\ product'[first].state = "queued"
    /\ \A p \in Pages \ {first} : SameState(p)
    /\ inflight' = Taken(EntryReleased, "product", FALSE) /\ filtered' = filtered
    /\ SameRegistry /\ SameExpanded
MovesLeaf(f, g) ==
    /\ product[f].state \in {"internal", "reading"}
    /\ \A p \in Pages \ {f, g} : SameState(p)
    /\ g # f => /\ product'[f].state = "done" /\ product'[g].state = "internal"
                /\ g \in ToSet(shop.leaves)
    /\ g = f => product'[f].state \notin {"new", "queued"}
    /\ SameListings /\ SameSlots /\ SameRegistry /\ SameExpanded

Effects ==
    \/ Nothing
    \/ \E b \in BOOLEAN : Drops(b)
    \/ \E l \in Listings, b \in BOOLEAN : QueuesListing(l, b)
    \/ \E l \in Listings : Answers(l)
    \/ \E u \in Urls : Requests(u)
    \/ \E u \in Urls : OpensGraph(u)
    \/ \E p \in Pages : Closes(p)
    \/ \E f \in Leaves : StartsLeaves(f)
    \/ \E f, g \in Leaves : MovesLeaf(f, g)

LEMMA StateMoved ==
  ASSUME TypeOK
  PROVE  /\ \A l \in Listings, s \in ListingStates : listing' = [listing EXCEPT ![l].state = s] =>
              /\ listing'[l].state = s /\ listing'[l].browser = listing[l].browser
              /\ listing'[l].links = listing[l].links /\ listing'[l].seen = listing[l].seen
              /\ \A k \in Listings \ {l} : listing'[k] = listing[k]
         /\ \A p \in Pages, s \in ProductStates : product' = [product EXCEPT ![p].state = s] =>
              /\ product'[p].state = s
              /\ \A r \in Pages \ {p} : product'[r] = product[r]
<1>1. listing \in [Listings -> Listing] /\ product \in [Pages -> Product]
  BY DEF TypeOK
<1>2. ASSUME NEW l \in Listings, NEW s \in ListingStates, listing' = [listing EXCEPT ![l].state = s]
      PROVE  /\ listing'[l].state = s /\ listing'[l].browser = listing[l].browser
             /\ listing'[l].links = listing[l].links /\ listing'[l].seen = listing[l].seen
             /\ \A k \in Listings \ {l} : listing'[k] = listing[k]
  <2>1. listing[l] \in Listing /\ listing'[l] = [listing[l] EXCEPT !.state = s]
    BY <1>1, <1>2
  <2> QED
    BY <1>1, <1>2, <2>1 DEF Listing
<1>3. ASSUME NEW p \in Pages, NEW s \in ProductStates, product' = [product EXCEPT ![p].state = s]
      PROVE  product'[p].state = s /\ \A r \in Pages \ {p} : product'[r] = product[r]
  <2>1. product[p] \in Product
    BY <1>1
  <2> QED
    BY <1>1, <1>3, <2>1 DEF Product
<1> QED
  BY <1>2, <1>3

(* A request whose step has left the states of the listings alone. *)
LEMMA ListingRequestEffects ==
  ASSUME TypeOK, NEW updated \in [Listings -> Listing], NEW l \in Listings,
         NEW page \in Nat, NEW empty \in Nat, NEW repeats \in Nat,
         RequestListing(updated, l, page, empty, repeats),
         \A k \in Listings : /\ updated[k].state = "new" <=> listing[k].state = "new"
                             /\ updated[k].state = "queued" <=> listing[k].state = "queued"
                             /\ updated[k].browser = listing[k].browser,
         SameRest
  PROVE  Effects
<1>1. shop.hydrates \in BOOLEAN
  BY ShopTypes DEF TypeOK
<1>2. CASE ListingForgotten(updated)
  BY <1>2 DEF ListingForgotten, Effects, Nothing, SameListings, SameListing, SameSlots
<1>3. ASSUME NEW b \in BOOLEAN, ListingDropped(updated, b)
      PROVE  Drops(b)
  BY <1>3 DEF ListingDropped, Drops, SameListings, SameListing
<1>4. ASSUME NEW b \in BOOLEAN, ListingQueued(updated, l, page, empty, repeats, b)
      PROVE  QueuesListing(l, b)
  <2>1. updated[l] \in Listing
    OBVIOUS
  <2> DEFINE q == [updated[l] EXCEPT !.state = "queued", !.page = page, !.browser = b,
                                     !.empty = empty, !.repeats = repeats]
  <2>2. q.state = "queued" /\ q.browser = b
    BY <2>1 DEF Listing
  <2>3. listing' = [updated EXCEPT ![l] = q]
    BY <1>4, Zenon DEF ListingQueued
  <2> HIDE DEF q
  <2>4. /\ listing'[l].state = "queued" /\ listing'[l].browser = b
        /\ \A k \in Listings \ {l} : SameListing(k)
    BY <2>2, <2>3 DEF SameListing
  <2> QED
    BY <1>4, <2>4 DEF ListingQueued, QueuesListing
<1> QED
  BY <1>1, <1>2, <1>3, <1>4, ListingRequested DEF Effects

(* An admitted request for a product the registry does not know. *)
LEMMA ProductRequestEffects ==
  ASSUME TypeOK, RegistryInv, NEW updated \in [Pages -> Product], NEW u \in Urls,
         RequestProduct(updated, u), ~Skip(u), CanRequest(u),
         \A p \in Pages : updated[p].state = product[p].state,
         SameListings, SameExpanded
  PROVE  Requests(u)
<1>1. product[u].state = "new" /\ u \in Pages
  BY DEF RegistryInv, Skip, Pages
<1>2. /\ known'.urls = known.urls \cup {u} /\ known'.ids = known.ids \cup {SourceId[u]}
      /\ inflight' = Taken(inflight, "product", FALSE)
      /\ \A p \in Pages \ {u} : product'[p] = updated[p]
      /\ updated[u].state = "new" => product'[u].state = "queued" /\ filtered' = filtered
  BY ProductRequestTypes
<1>3. product'[u].state = "queued" /\ filtered' = filtered /\ \A p \in Pages \ {u} : SameState(p)
  BY <1>1, <1>2 DEF SameState
<1> QED
  BY <1>1, <1>2, <1>3 DEF Requests

LEMMA OpenEffects ==
  ASSUME TypeOK, NEW u \in Urls, NEW waiting \in Seq(Urls),
         Open(u, waiting), Expandable(u), Opens, UNCHANGED <<listing, known, filtered>>
  PROVE  OpensGraph(u)
<1>1. /\ graph'.expanded = graph.expanded \cup {u}
      /\ product'[Graph(u)].state = "queued"
      /\ \A p \in Pages \ {Graph(u)} : product'[p] = product[p]
  BY OpenTypes
<1>2. u \notin graph.expanded /\ Admit(inflight, "product") /\ Browses(inflight)
  BY DEF Expandable, Opens
<1>3. inflight' = Taken(inflight, "product", TRUE)
  BY DEF Open
<1> QED
  BY <1>1, <1>2, <1>3 DEF OpensGraph, SameListings, SameListing, SameState, SameRegistry

(* A callback that looks at a link changes what it has still to look at. *)
LEMMA FollowLinkKeeps ==
  ASSUME TypeOK, NEW l \in Listings, FollowLink(l)
  PROVE  /\ listing[l].state = "parsing" /\ listing[l].links # <<>>
         /\ listing'[l].links = Tail(listing[l].links)
         /\ listing'[l].seen \in {listing[l].seen, listing[l].seen \cup {Head(listing[l].links)}}
         /\ \A k \in Listings \ {l} : listing'[k] = listing[k]
         /\ \A k \in Listings : /\ listing'[k].state = listing[k].state
                                /\ listing'[k].browser = listing[k].browser
<1> DEFINE u == Head(listing[l].links)
           rest == [listing EXCEPT ![l].links = Tail(listing[l].links)]
           noted == [rest EXCEPT ![l].seen = rest[l].seen \cup {u}]
<1>1. /\ \/ listing' = rest \/ listing' = noted
      /\ listing[l].state = "parsing" /\ listing[l].links # <<>>
  BY DEF FollowLink
<1>2. listing \in [Listings -> Listing] /\ listing[l] \in Listing
  BY DEF TypeOK
<1>3. /\ rest[l].state = listing[l].state /\ rest[l].browser = listing[l].browser
      /\ rest[l].links = Tail(listing[l].links) /\ rest[l].seen = listing[l].seen
      /\ \A k \in Listings \ {l} : rest[k] = listing[k]
      /\ DOMAIN rest = Listings /\ DOMAIN rest[l] = DOMAIN listing[l]
  BY <1>2 DEF Listing
<1>4. "seen" \in DOMAIN listing[l]
  BY <1>2 DEF Listing
<1> HIDE DEF rest, u
<1>5. /\ noted[l].state = rest[l].state /\ noted[l].browser = rest[l].browser
      /\ noted[l].links = rest[l].links /\ noted[l].seen = rest[l].seen \cup {u}
      /\ \A k \in Listings \ {l} : noted[k] = rest[k]
  BY <1>3, <1>4
<1> HIDE DEF noted
<1> QED
  BY <1>1, <1>3, <1>5 DEF u

(* Every step is one of these. *)
LEMMA StepEffects ==
  ASSUME TypeOK, LeafInv, RegistryInv, [DiscoveryNext]_discovery
  PROVE  Effects
<1>1. /\ TypeOK /\ LeafInv /\ RegistryInv
      /\ shop \in Shops /\ seeds \in Seq(Listings)
      /\ listing \in [Listings -> Listing] /\ product \in [Pages -> Product]
      /\ queue \in [Queues -> Seq(Urls)] /\ drain \in [Callbacks -> Callback]
      /\ known \in Registry /\ inflight \in Slots /\ filtered \in Slots /\ failures \in Nat
      /\ leaf \in [Leaves -> [offset : Nat, until : Nat]]
      /\ graph \in Opening /\ fan \in Candidates
  BY DEF TypeOK, Callbacks
<1>2. CASE StartSeed /\ UNCHANGED own
  <2>1. seeds # <<>> /\ RequestListing(listing, Head(seeds), 1, 0, 0) /\ SameRest
    BY <1>2 DEF StartSeed, own, SameRest, SamePages, SameState, SameRegistry, SameExpanded
  <2>2. Head(seeds) \in Listings
    BY <1>1, <2>1
  <2> QED
    BY <1>1, <2>1, <2>2, ListingRequestEffects
<1>3. ASSUME NEW l \in Listings, LoseListing(l) /\ UNCHANGED own
      PROVE  Effects
  <2>1. listing' = [listing EXCEPT ![l].state = "failed"]
    BY <1>3 DEF LoseListing
  <2>2. /\ listing'[l].state = "failed"
        /\ \A k \in Listings \ {l} : listing'[k] = listing[k]
    BY <2>1, StateMoved DEF ListingStates
  <2>3. Answers(l)
    BY <1>3, <2>2 DEF LoseListing, own, Answers, Ends, SameListing, SameRest, SamePages, SameState, SameRegistry, SameExpanded
  <2> QED
    BY <2>3 DEF Effects
<1>4. ASSUME NEW p \in Urls \cup Leaves, LoseProduct(p) /\ UNCHANGED own
      PROVE  Effects
  <2>1. product' = [product EXCEPT ![p].state = "failed"] /\ p \in Pages
    BY <1>4, PageKinds DEF LoseProduct
  <2>2. /\ product'[p].state = "failed"
        /\ \A r \in Pages \ {p} : product'[r] = product[r]
    BY <2>1, StateMoved DEF ProductStates
  <2>3. inflight' = Released(inflight, "product", p \in Graphs)
    <3>1. inflight' = Released(inflight, "product", FALSE)
      BY <1>4 DEF LoseProduct
    <3>2. (p \in Graphs) = FALSE
      BY PageKinds
    <3> QED
      BY <3>1, <3>2
  <2>4. /\ product[p].state = "queued"
        /\ UNCHANGED <<listing, filtered, known>> /\ graph'.expanded = graph.expanded
    BY <1>4 DEF LoseProduct, own
  <2>5. Closes(p)
    BY <2>2, <2>3, <2>4 DEF Closes, SameListings, SameListing, SameState, SameRegistry, SameExpanded
  <2> QED
    BY <2>1, <2>5 DEF Effects
<1>5. ASSUME NEW u \in Urls, RejectProduct(u) /\ UNCHANGED own
      PROVE  Effects
  <2>1. product' = [product EXCEPT ![u].state = "rejected"] /\ u \in Pages
    BY <1>5, PageKinds DEF RejectProduct
  <2>2. /\ product'[u].state = "rejected"
        /\ \A r \in Pages \ {u} : product'[r] = product[r]
    BY <2>1, StateMoved DEF ProductStates
  <2>3. inflight' = Released(inflight, "product", u \in Graphs)
    <3>1. inflight' = Released(inflight, "product", FALSE)
      BY <1>5 DEF RejectProduct
    <3>2. (u \in Graphs) = FALSE
      BY PageKinds
    <3> QED
      BY <3>1, <3>2
  <2>4. /\ product[u].state = "queued"
        /\ UNCHANGED <<listing, filtered, known>> /\ graph'.expanded = graph.expanded
    BY <1>5 DEF RejectProduct, own
  <2>5. Closes(u)
    BY <2>2, <2>3, <2>4 DEF Closes, SameListings, SameListing, SameState, SameRegistry, SameExpanded
  <2> QED
    BY <2>1, <2>5 DEF Effects
<1>6. ASSUME NEW f \in Leaves, LoseLeaf(f)
      PROVE  Effects
  <2>1. product' = [product EXCEPT ![f].state = "failed"] /\ f \in Pages
    BY <1>6, PageKinds DEF LoseLeaf
  <2>2. product'[f].state = "failed" /\ \A r \in Pages \ {f} : product'[r] = product[r]
    BY <2>1, StateMoved DEF ProductStates
  <2>3. MovesLeaf(f, f)
    BY <1>6, <2>2 DEF LoseLeaf, own, MovesLeaf, SameListings, SameListing, SameSlots, SameState, SameRegistry, SameExpanded
  <2> QED
    BY <2>3 DEF Effects
<1>7. ASSUME NEW u \in Urls, LoseGraph(u)
      PROVE  Effects
  <2>1. product' = [product EXCEPT ![Graph(u)].state = "failed"] /\ Graph(u) \in Pages
    BY <1>7, PageKinds DEF LoseGraph
  <2>2. /\ product'[Graph(u)].state = "failed"
        /\ \A r \in Pages \ {Graph(u)} : product'[r] = product[r]
    BY <2>1, StateMoved DEF ProductStates
  <2>3. inflight' = Released(inflight, "product", Graph(u) \in Graphs)
    <3>1. inflight' = Released(inflight, "product", TRUE)
      BY <1>7 DEF LoseGraph
    <3>2. (Graph(u) \in Graphs) = TRUE
      BY PageKinds
    <3> QED
      BY <3>1, <3>2
  <2>4. /\ product[Graph(u)].state = "queued"
        /\ UNCHANGED <<listing, filtered, known>> /\ graph'.expanded = graph.expanded
    BY <1>7 DEF LoseGraph, own
  <2>5. Closes(Graph(u))
    BY <2>2, <2>3, <2>4 DEF Closes, SameListings, SameListing, SameState, SameRegistry, SameExpanded
  <2> QED
    BY <2>1, <2>5 DEF Effects
<1>8. CASE HomepageBreaks
  <2>1. Entry \in Listings
    BY <1>8, <1>1, ShopTypes DEF HomepageBreaks
  <2>2. listing' = [listing EXCEPT ![Entry].state = "failed"]
    BY <1>8 DEF HomepageBreaks, EntryTo
  <2>3. /\ listing'[Entry].state = "failed" /\ listing'[Entry].browser = listing[Entry].browser
        /\ \A k \in Listings \ {Entry} : listing'[k] = listing[k]
    BY <2>1, <2>2, StateMoved DEF ListingStates
  <2> QED
    BY <1>8, <2>3 DEF HomepageBreaks, own, Effects, Nothing, SameListings, SameListing, SameSlots, SameRest, SamePages, SameState, SameRegistry, SameExpanded
<1>9. CASE ReadSitemap
  <2>1. Entry \in Listings
    BY <1>9, <1>1, ShopTypes DEF ReadSitemap
  <2>2. listing' = [listing EXCEPT ![Entry].state = "seeded"]
    BY <1>9 DEF ReadSitemap, EntryTo
  <2>3. /\ listing'[Entry].state = "seeded" /\ listing'[Entry].browser = listing[Entry].browser
        /\ \A k \in Listings \ {Entry} : listing'[k] = listing[k]
    BY <2>1, <2>2, StateMoved DEF ListingStates
  <2>4. known'.urls = known.urls /\ known'.ids = known.ids
    BY <1>9, <1>1 DEF ReadSitemap, Registry
  <2>5. Answers(Entry)
    BY <1>9, <2>3, <2>4 DEF ReadSitemap, own, EntryReleased, Answers, Ends, SameListing, SameRest, SamePages, SameState, SameRegistry, SameExpanded
  <2> QED
    BY <2>1, <2>5 DEF Effects
<1>10. CASE ReadIndex
  <2>1. Entry \in Listings
    BY <1>10, <1>1, ShopTypes DEF ReadIndex
  <2>2. listing' = [listing EXCEPT ![Entry].state = "seeded"]
    BY <1>10 DEF ReadIndex, EntryTo
  <2>3. /\ listing'[Entry].state = "seeded" /\ listing'[Entry].browser = listing[Entry].browser
        /\ \A k \in Listings \ {Entry} : listing'[k] = listing[k]
    BY <2>1, <2>2, StateMoved DEF ListingStates
  <2>4. Ends(Entry) /\ filtered' = filtered /\ SameRegistry /\ SameExpanded
    BY <1>10, <2>3 DEF ReadIndex, own, Ends, SameListing, SameRegistry, SameExpanded
  <2>5. CASE shop.leaves # <<>> /\ Admit(EntryReleased, "product")
    <3> DEFINE first == Head(shop.leaves)
    <3>1. first \in Leaves /\ first \in Pages /\ first \in ToSet(shop.leaves)
      BY <1>1, <2>5, ShopTypes, TailHead, PageKinds
    <3>2. product' = [product EXCEPT ![first].state = "queued"]
      BY <1>10, <2>5 DEF ReadIndex
    <3>3. inflight' = Taken(EntryReleased, "product", FALSE)
      BY <1>10, <2>5 DEF ReadIndex
    <3> HIDE DEF first
    <3>4. product'[first].state = "queued" /\ \A r \in Pages \ {first} : product'[r] = product[r]
      BY <3>1, <3>2, StateMoved DEF ProductStates
    <3>5. StartsLeaves(first)
      BY <1>10, <2>4, <2>5, <3>1, <3>3, <3>4 DEF ReadIndex, StartsLeaves, SameState
    <3> QED
      BY <3>1, <3>5 DEF Effects
  <2>6. CASE ~(shop.leaves # <<>> /\ Admit(EntryReleased, "product"))
    <3>1. inflight' = EntryReleased /\ product' = product
      BY <1>10, <2>6 DEF ReadIndex
    <3>2. Answers(Entry)
      BY <2>4, <3>1 DEF Answers, EntryReleased, SameRest, SamePages, SameState
    <3> QED
      BY <2>1, <3>2 DEF Effects
  <2> QED
    BY <2>5, <2>6
<1>11. CASE HomepageArrives
  <2>1. Entry \in Listings
    BY <1>11, <1>1, ShopTypes DEF HomepageArrives
  <2>2. listing' = [listing EXCEPT ![Entry].state = "awaiting"]
    BY <1>11 DEF HomepageArrives, EntryTo
  <2>3. /\ listing'[Entry].state = "awaiting" /\ listing'[Entry].browser = listing[Entry].browser
        /\ \A k \in Listings \ {Entry} : listing'[k] = listing[k]
    BY <2>1, <2>2, StateMoved DEF ListingStates
  <2>4. Answers(Entry)
    BY <1>11, <2>3 DEF HomepageArrives, own, EntryReleased, Answers, Ends, SameListing, SameRest, SamePages, SameState, SameRegistry, SameExpanded
  <2> QED
    BY <2>1, <2>4 DEF Effects
<1>12. CASE HomepageShowsNone
  <2>1. Entry \in Listings
    BY <1>12, <1>1, ShopTypes DEF HomepageShowsNone
  <2>2. ReadListing(Entry) /\ listing[Entry].state = "awaiting" /\ UNCHANGED <<inflight, own>>
    BY <1>12 DEF HomepageShowsNone
  <2>3. /\ listing'[Entry].state = "parsing" /\ listing'[Entry].browser = listing[Entry].browser
        /\ \A k \in Listings \ {Entry} : listing'[k] = listing[k]
        /\ known'.urls = known.urls /\ known'.ids = known.ids
    BY <1>1, <2>1, <2>2, ReadListingTypes
  <2>4. UNCHANGED <<product, filtered>>
    BY <2>2 DEF ReadListing
  <2> QED
    BY <2>2, <2>3, <2>4 DEF own, Effects, Nothing, SameListings, SameListing, SameSlots, SameRest, SamePages, SameState, SameRegistry, SameExpanded
<1>13. CASE HomepageShows
  <2>1. Entry \in Listings
    BY <1>13, <1>1, ShopTypes DEF HomepageShows
  <2>2. listing' = [listing EXCEPT ![Entry].state = "seeded"]
    BY <1>13 DEF HomepageShows, EntryTo
  <2>3. /\ listing'[Entry].state = "seeded" /\ listing'[Entry].browser = listing[Entry].browser
        /\ \A k \in Listings \ {Entry} : listing'[k] = listing[k]
    BY <2>1, <2>2, StateMoved DEF ListingStates
  <2>4. known'.urls = known.urls /\ known'.ids = known.ids
    BY <1>13, <1>1 DEF HomepageShows, Registry
  <2> QED
    BY <1>13, <2>3, <2>4 DEF HomepageShows, Effects, Nothing, SameListings, SameListing, SameSlots, SameRest, SamePages, SameState, SameRegistry, SameExpanded
<1>14. ASSUME NEW l \in Listings, Parses(l)
      PROVE  Effects
  <2>1. /\ ReadListing(l) /\ inflight' = Released(inflight, "listing", listing[l].browser)
        /\ listing[l].state = "queued" /\ UNCHANGED own
    BY <1>14 DEF Parses, ParseListing
  <2>2. /\ listing'[l].state = "parsing" /\ \A k \in Listings \ {l} : listing'[k] = listing[k]
        /\ known'.urls = known.urls /\ known'.ids = known.ids
    BY <1>1, <2>1, ReadListingTypes
  <2>3. UNCHANGED <<product, filtered>>
    BY <2>1 DEF ReadListing
  <2>4. Answers(l)
    BY <2>1, <2>2, <2>3 DEF own, Answers, Ends, SameListing, SameRest, SamePages, SameState, SameRegistry, SameExpanded
  <2> QED
    BY <2>4 DEF Effects
<1>15. ASSUME NEW l \in Listings, FollowLink(l) /\ UNCHANGED own
      PROVE  Effects
  <2> DEFINE u == Head(listing[l].links)
  <2>1. SameListings
    BY <1>15, FollowLinkKeeps DEF SameListings, SameListing
  <2>2. /\ listing[l].links # <<>> /\ SameExpanded
        /\ \/ UNCHANGED <<product, known, inflight, filtered>>
           \/ ~Skip(u) /\ CanRequest(u) /\ RequestProduct(product, u)
    BY <1>15 DEF FollowLink, own, SameExpanded
  <2>3. u \in Urls
    <3>1. listing[l].links \in Seq(Urls)
      BY <1>1 DEF Listing
    <3> QED
      BY <2>2, <3>1, TailHead
  <2> HIDE DEF u
  <2>4. CASE UNCHANGED <<product, known, inflight, filtered>>
    BY <2>1, <2>2, <2>4 DEF Effects, Nothing, SameSlots, SameRest, SamePages, SameState, SameRegistry
  <2>5. CASE ~Skip(u) /\ CanRequest(u) /\ RequestProduct(product, u)
    <3>1. Requests(u)
      BY <1>1, <2>1, <2>2, <2>3, <2>5, ProductRequestEffects
    <3> QED
      BY <2>3, <3>1 DEF Effects
  <2> QED
    BY <2>2, <2>4, <2>5
<1>16. ASSUME NEW l \in Listings, FollowSubcategory(l) /\ UNCHANGED own
      PROVE  Effects
  <2> DEFINE s == Head(listing[l].subs)
             rest == [listing EXCEPT ![l].subs = Tail(listing[l].subs)]
  <2>1. /\ listing[l].subs # <<>>
        /\ known' = [known EXCEPT !.pages = @ \cup {s}]
        /\ \/ listing' = rest /\ UNCHANGED <<inflight, filtered>>
           \/ RequestListing(rest, s, 1, 0, 0)
        /\ UNCHANGED <<product, own>>
    BY <1>16 DEF FollowSubcategory
  <2>2. s \in Listings /\ Tail(listing[l].subs) \in Seq(Listings)
    <3>1. listing[l].subs \in Seq(Listings)
      BY <1>1 DEF Listing
    <3> QED
      BY <2>1, <3>1, TailHead
  <2>3. /\ rest \in [Listings -> Listing]
        /\ rest[l].state = listing[l].state /\ rest[l].browser = listing[l].browser
        /\ \A k \in Listings \ {l} : rest[k] = listing[k]
    <3>1. [listing[l] EXCEPT !.subs = Tail(listing[l].subs)] \in Listing
      BY <1>1, <2>2 DEF Listing
    <3> QED
      BY <1>1, <3>1 DEF Listing
  <2>4. SameRest
    BY <1>1, <2>1 DEF own, Registry, SameRest, SamePages, SameState, SameRegistry, SameExpanded
  <2> HIDE DEF s, rest
  <2>5. \A k \in Listings : rest[k].state = listing[k].state /\ rest[k].browser = listing[k].browser
    BY <2>3
  <2>6. CASE listing' = rest /\ UNCHANGED <<inflight, filtered>>
    BY <2>4, <2>5, <2>6 DEF Effects, Nothing, SameListings, SameListing, SameSlots
  <2>7. CASE RequestListing(rest, s, 1, 0, 0)
    BY <1>1, <2>2, <2>3, <2>4, <2>5, <2>7, ListingRequestEffects
  <2> QED
    BY <2>1, <2>6, <2>7
<1>17. ASSUME NEW l \in Listings, Paginate(l) /\ UNCHANGED own
      PROVE  Effects
  <2> DEFINE done == [listing EXCEPT ![l].state = "done"]
  <2>1. /\ listing[l].state = "parsing"
        /\ \/ listing' = done /\ UNCHANGED <<inflight, filtered>>
           \/ /\ NextPage[l] # None
              /\ RequestListing(done, NextPage[l], listing[l].page + 1,
                                listing[l].empty, listing[l].repeats)
        /\ UNCHANGED <<product, known, own>>
    BY <1>17 DEF Paginate, StopsAt
  <2>2. done \in [Listings -> Listing]
    BY <1>1, Moved DEF ListingStates
  <2>3. /\ NextPage[l] # None => NextPage[l] \in Listings
        /\ listing[l].page + 1 \in Nat /\ listing[l].empty \in Nat /\ listing[l].repeats \in Nat
    BY <1>1, CrawlAssumption DEF CrawlAssumption, Listing
  <2>4. SameRest
    BY <2>1 DEF own, SameRest, SamePages, SameState, SameRegistry, SameExpanded
  <2>5. /\ done[l].state = "done" /\ done[l].browser = listing[l].browser
        /\ \A k \in Listings \ {l} : done[k] = listing[k]
    <3>1. listing[l] \in Listing
      BY <1>1
    <3> QED
      BY <1>1, <3>1 DEF Listing
  <2> HIDE DEF done
  <2>6. \A k \in Listings : /\ done[k].state = "new" <=> listing[k].state = "new"
                            /\ done[k].state = "queued" <=> listing[k].state = "queued"
                            /\ done[k].browser = listing[k].browser
    BY <2>1, <2>5
  <2>7. CASE listing' = done /\ UNCHANGED <<inflight, filtered>>
    BY <2>4, <2>6, <2>7 DEF Effects, Nothing, SameListings, SameListing, SameSlots
  <2>8. CASE NextPage[l] # None /\ RequestListing(done, NextPage[l], listing[l].page + 1,
                                                  listing[l].empty, listing[l].repeats)
    BY <1>1, <2>2, <2>3, <2>4, <2>6, <2>8, ListingRequestEffects
  <2> QED
    BY <2>1, <2>7, <2>8
<1>18. ASSUME NEW u \in Urls, ParseProduct(u) /\ UNCHANGED own
      PROVE  Effects
  <2>1. product' = [product EXCEPT ![u].state = "done"] /\ u \in Pages
    BY <1>18, PageKinds DEF ParseProduct
  <2>2. /\ product'[u].state = "done"
        /\ \A r \in Pages \ {u} : product'[r] = product[r]
    BY <2>1, StateMoved DEF ProductStates
  <2>3. inflight' = Released(inflight, "product", u \in Graphs)
    <3>1. inflight' = Released(inflight, "product", FALSE)
      BY <1>18 DEF ParseProduct
    <3>2. (u \in Graphs) = FALSE
      BY PageKinds
    <3> QED
      BY <3>1, <3>2
  <2>4. /\ product[u].state = "queued"
        /\ UNCHANGED <<listing, filtered, known>> /\ graph'.expanded = graph.expanded
    BY <1>18 DEF ParseProduct, own
  <2>5. Closes(u)
    BY <2>2, <2>3, <2>4 DEF Closes, SameListings, SameListing, SameState, SameRegistry, SameExpanded
  <2> QED
    BY <2>1, <2>5 DEF Effects
<1>19. ASSUME NEW c \in Callbacks, NEW q \in Queues, DrainOver(c, q) /\ UNCHANGED own
      PROVE  Effects
  BY <1>19 DEF DrainOver, own, Effects, Nothing, SameListings, SameListing, SameSlots, SameRest, SamePages, SameState, SameRegistry, SameExpanded
<1>20. ASSUME NEW c \in Callbacks, NEW q \in Queues, DrainKnown(c, q) /\ DeepOnly
      PROVE  Effects
  BY <1>20 DEF DrainKnown, DeepOnly, Effects, Nothing, SameListings, SameListing, SameSlots, SameRest, SamePages, SameState, SameRegistry, SameExpanded
<1>21. ASSUME NEW c \in Callbacks, NEW q \in Queues, NEW d \in {0, 1}, DrainRequestOf(c, q, d) /\ DeepOnly
      PROVE  Effects
  <2> DEFINE u == Head(queue[q])
             updated == [product EXCEPT ![u].depth = d]
  <2>1. /\ queue[q] # <<>> /\ ~Skip(u) /\ CanRequest(u)
        /\ RequestProduct(updated, u)
        /\ UNCHANGED listing /\ graph'.expanded = graph.expanded
    BY <1>21 DEF DrainRequestOf, HasTurn, DeepOnly
  <2>2. u \in Urls /\ u \in Pages
    BY <1>1, <2>1 DEF Pages
  <2>3. updated \in [Pages -> Product] /\ \A p \in Pages : updated[p].state = product[p].state
    <3>1. updated \in [Pages -> Product]
      BY <1>1, <2>2, Moved
    <3> QED
      BY <1>1, <2>2, <3>1 DEF Product
  <2> HIDE DEF u, updated
  <2>4. Requests(u)
    BY <1>1, <2>1, <2>2, <2>3, ProductRequestEffects DEF SameListings, SameListing, SameExpanded
  <2> QED
    BY <2>2, <2>4 DEF Effects
<1>22. ASSUME NEW u \in Urls, Expand(u)
      PROVE  Effects
  <2>1. UNCHANGED <<listing, known, filtered>>
    BY <1>22 DEF Expand
  <2>2. CASE Expandable(u) /\ Opens /\ Open(u, graph.waiting)
    <3>1. graph.waiting \in Seq(Urls)
      BY <1>1 DEF Opening
    <3>2. OpensGraph(u)
      BY <1>1, <2>1, <2>2, <3>1, OpenEffects
    <3> QED
      BY <3>2 DEF Effects
  <2>3. CASE graph' = [graph EXCEPT !.waiting = Append(graph.waiting, u)]
             /\ UNCHANGED <<product, inflight>>
    <3>1. graph'.expanded = graph.expanded
      BY <1>1, <2>3 DEF Opening
    <3> QED
      BY <2>1, <2>3, <3>1 DEF Effects, Nothing, SameListings, SameListing, SameSlots, SameRest, SamePages, SameState, SameRegistry, SameExpanded
  <2>4. CASE UNCHANGED <<product, inflight, graph>>
    BY <2>1, <2>4 DEF Effects, Nothing, SameListings, SameListing, SameSlots, SameRest, SamePages, SameState, SameRegistry, SameExpanded
  <2> QED
    BY <1>22, <2>2, <2>3, <2>4 DEF Expand
<1>23. ASSUME NEW f \in Leaves, ReadLeaf(f)
      PROVE  Effects
  <2>1. product' = [product EXCEPT ![f].state = "reading"] /\ f \in Pages
    BY <1>23, PageKinds DEF ReadLeaf
  <2>2. product'[f].state = "reading" /\ \A r \in Pages \ {f} : product'[r] = product[r]
    BY <2>1, StateMoved DEF ProductStates
  <2>3. UNCHANGED <<listing, filtered, known>> /\ graph'.expanded = graph.expanded
    BY <1>23 DEF ReadLeaf
  <2>4. CASE product[f].state = "queued"
    <3>1. inflight' = Released(inflight, "product", f \in Graphs)
      <4>1. inflight' = Released(inflight, "product", FALSE)
        BY <1>23, <2>4 DEF ReadLeaf
      <4>2. (f \in Graphs) = FALSE
        BY PageKinds
      <4> QED
        BY <4>1, <4>2
    <3>2. Closes(f)
      BY <2>2, <2>3, <2>4, <3>1
         DEF Closes, SameListings, SameListing, SameState, SameRegistry, SameExpanded
    <3> QED
      BY <2>1, <3>2 DEF Effects
  <2>5. CASE product[f].state = "internal"
    <3>1. inflight' = inflight
      BY <1>23, <2>5 DEF ReadLeaf
    <3>2. MovesLeaf(f, f)
      BY <2>2, <2>3, <2>5, <3>1 DEF MovesLeaf, SameListings, SameListing, SameSlots, SameState, SameRegistry, SameExpanded
    <3> QED
      BY <3>2 DEF Effects
  <2> QED
    BY <1>23, <2>4, <2>5 DEF ReadLeaf
<1>24. ASSUME NEW f \in Leaves, LeafKnown(f)
      PROVE  Effects
  BY <1>24 DEF LeafKnown, vars, Effects, Nothing, SameListings, SameListing, SameSlots, SameRest, SamePages, SameState, SameRegistry, SameExpanded
<1>25. ASSUME NEW f \in Leaves, LeafProduct(f)
      PROVE  Effects
  <2>1. LeafUrl(f) \in Urls
    BY <1>25, <1>1, LeafUrlTypes DEF LeafProduct
  <2>2. /\ RequestProduct(product, LeafUrl(f)) /\ ~Skip(LeafUrl(f)) /\ CanRequest(LeafUrl(f))
        /\ UNCHANGED listing /\ graph'.expanded = graph.expanded
    BY <1>25 DEF LeafProduct
  <2>3. Requests(LeafUrl(f))
    BY <1>1, <2>1, <2>2, ProductRequestEffects DEF SameListings, SameListing, SameExpanded
  <2> QED
    BY <2>1, <2>3 DEF Effects
<1>26. ASSUME NEW f \in Leaves, LeafOver(f)
      PROVE  Effects
  <2>1. PICK g \in Leaves :
          /\ \A p \in Pages \ {f, g} : product'[p] = product[p]
          /\ g # f => /\ product'[f].state = "done" /\ product'[g].state = "internal"
                      /\ g \in ToSet(shop.leaves)
          /\ g = f => product'[f].state \in {"internal", "done"}
    BY <1>26, <1>1, LeafOverMoves
  <2>2. product[f].state = "reading"
    BY <1>26, <1>1, LeafOverMoves
  <2>3. UNCHANGED <<listing, inflight, filtered, known>> /\ graph'.expanded = graph.expanded
    BY <1>26 DEF LeafOver, LeafOverFrom
  <2>4. MovesLeaf(f, g)
    BY <2>1, <2>2, <2>3 DEF MovesLeaf, SameListings, SameListing, SameSlots, SameState, SameRegistry, SameExpanded
  <2> QED
    BY <2>4 DEF Effects
<1>27. ASSUME NEW u \in Urls, ParseGraph(u)
      PROVE  Effects
  <2>1. product' = [product EXCEPT ![Graph(u)].state = "done"] /\ Graph(u) \in Pages
    BY <1>27, PageKinds DEF ParseGraph
  <2>2. /\ product'[Graph(u)].state = "done"
        /\ \A r \in Pages \ {Graph(u)} : product'[r] = product[r]
    BY <2>1, StateMoved DEF ProductStates
  <2>3. inflight' = Released(inflight, "product", Graph(u) \in Graphs)
    <3>1. inflight' = Released(inflight, "product", TRUE)
      BY <1>27 DEF ParseGraph
    <3>2. (Graph(u) \in Graphs) = TRUE
      BY PageKinds
    <3> QED
      BY <3>1, <3>2
  <2>4. /\ product[Graph(u)].state = "queued"
        /\ UNCHANGED <<listing, filtered, known>> /\ graph'.expanded = graph.expanded
    BY <1>27 DEF ParseGraph, own
  <2>5. Closes(Graph(u))
    BY <2>2, <2>3, <2>4 DEF Closes, SameListings, SameListing, SameState, SameRegistry, SameExpanded
  <2> QED
    BY <2>1, <2>5 DEF Effects
<1>28. ASSUME NEW c \in Callbacks, Candidate(c)
      PROVE  Effects
  <2> DEFINE u == Head(fan.links)
             updated == [product EXCEPT ![u].depth = Depth(c)]
  <2>1. /\ fan.links # <<>>
        /\ \/ UNCHANGED <<product, known, inflight, filtered>>
           \/ ~Skip(u) /\ CanRequest(u) /\ RequestProduct(updated, u)
        /\ graph' = graph \/ graph' = [graph EXCEPT !.deep = graph.deep \cup {u}]
        /\ UNCHANGED listing
    BY <1>28 DEF Candidate
  <2>2. u \in Urls /\ u \in Pages
    <3>1. fan.links \in Seq(Urls)
      BY <1>1 DEF Candidates
    <3> QED
      BY <2>1, <3>1, TailHead DEF Pages
  <2>3. updated \in [Pages -> Product] /\ \A p \in Pages : updated[p].state = product[p].state
    <3>1. updated \in [Pages -> Product]
      BY <1>1, <2>2, Moved DEF Depth
    <3> QED
      BY <1>1, <2>2, <3>1 DEF Product
  <2>4. graph'.expanded = graph.expanded
    BY <1>1, <2>1 DEF Opening
  <2> HIDE DEF u, updated
  <2>5. CASE UNCHANGED <<product, known, inflight, filtered>>
    BY <2>1, <2>4, <2>5 DEF Effects, Nothing, SameListings, SameListing, SameSlots, SameRest, SamePages, SameState, SameRegistry, SameExpanded
  <2>6. CASE ~Skip(u) /\ CanRequest(u) /\ RequestProduct(updated, u)
    <3>1. Requests(u)
      BY <1>1, <2>1, <2>2, <2>3, <2>4, <2>6, ProductRequestEffects
         DEF SameListings, SameListing, SameExpanded
    <3> QED
      BY <2>2, <3>1 DEF Effects
  <2> QED
    BY <2>1, <2>5, <2>6
<1>29. ASSUME NEW c \in Callbacks, CandidatesOver(c)
      PROVE  Effects
  BY <1>29 DEF CandidatesOver, Effects, Nothing, SameListings, SameListing, SameSlots, SameRest, SamePages, SameState, SameRegistry, SameExpanded
<1>30. ASSUME NEW c \in Callbacks, DrainGraph(c)
      PROVE  Effects
  <2> DEFINE u == Head(graph.waiting)
  <2>1. /\ graph.waiting # <<>>
        /\ Expandable(u) /\ Opens /\ Open(u, Tail(graph.waiting))
        /\ UNCHANGED <<listing, known, filtered>>
    BY <1>30 DEF DrainGraph, SeedOpens
  <2>2. u \in Urls /\ Tail(graph.waiting) \in Seq(Urls)
    BY <1>1, <2>1 DEF Opening
  <2> HIDE DEF u
  <2>3. OpensGraph(u)
    BY <1>1, <2>1, <2>2, OpenEffects
  <2> QED
    BY <2>2, <2>3 DEF Effects
<1>31. ASSUME NEW c \in Callbacks, DrainGraphOver(c)
      PROVE  Effects
  BY <1>31 DEF DrainGraphOver, own, Effects, Nothing, SameListings, SameListing, SameSlots, SameRest, SamePages, SameState, SameRegistry, SameExpanded
<1>32. CASE UNCHANGED discovery
  BY <1>32 DEF discovery, vars, own, Effects, Nothing, SameListings, SameListing, SameSlots, SameRest, SamePages, SameState, SameRegistry, SameExpanded
<1> QED
  BY Steps, <1>2, <1>3, <1>4, <1>5, <1>6, <1>7, <1>8, <1>9, <1>10, <1>11,
     <1>12, <1>13, <1>14, <1>15, <1>16, <1>17, <1>18, <1>19, <1>20, <1>21,
     <1>22, <1>23, <1>24, <1>25, <1>26, <1>27, <1>28, <1>29, <1>30, <1>31,
     <1>32

-----------------------------------------------------------------------------
(* What every step preserves.                                              *)

LEMMA NextShop == TypeOK /\ LeafInv /\ [DiscoveryNext]_discovery => shop' = shop
<1> SUFFICES ASSUME [DiscoveryNext]_discovery, TypeOK, LeafInv PROVE shop' = shop
  OBVIOUS
<1>1. CASE StartSeed /\ UNCHANGED own
  BY <1>1 DEF StartSeed
<1>2. ASSUME NEW l \in Listings, LoseListing(l) /\ UNCHANGED own
      PROVE  shop' = shop
  BY <1>2 DEF LoseListing
<1>3. ASSUME NEW p \in Urls \cup Leaves, LoseProduct(p) /\ UNCHANGED own
      PROVE  shop' = shop
  BY <1>3 DEF LoseProduct
<1>4. ASSUME NEW u \in Urls, RejectProduct(u) /\ UNCHANGED own
      PROVE  shop' = shop
  BY <1>4 DEF RejectProduct
<1>5. ASSUME NEW f \in Leaves, LoseLeaf(f)
      PROVE  shop' = shop
  BY <1>5 DEF LoseLeaf
<1>6. ASSUME NEW u \in Urls, LoseGraph(u)
      PROVE  shop' = shop
  BY <1>6 DEF LoseGraph
<1>7. CASE HomepageBreaks
  BY <1>7 DEF HomepageBreaks
<1>8. CASE ReadSitemap
  BY <1>8 DEF ReadSitemap
<1>9. CASE ReadIndex
  BY <1>9 DEF ReadIndex
<1>10. CASE HomepageArrives
  BY <1>10 DEF HomepageArrives
<1>11. CASE HomepageShowsNone
  BY <1>11 DEF HomepageShowsNone, ReadListing
<1>12. CASE HomepageShows
  BY <1>12 DEF HomepageShows
<1>13. ASSUME NEW l \in Listings, Parses(l)
      PROVE  shop' = shop
  BY <1>13 DEF Parses, ParseListing, ReadListing
<1>14. ASSUME NEW l \in Listings, FollowLink(l) /\ UNCHANGED own
      PROVE  shop' = shop
  BY <1>14 DEF FollowLink
<1>15. ASSUME NEW l \in Listings, FollowSubcategory(l) /\ UNCHANGED own
      PROVE  shop' = shop
  BY <1>15 DEF FollowSubcategory
<1>16. ASSUME NEW l \in Listings, Paginate(l) /\ UNCHANGED own
      PROVE  shop' = shop
  BY <1>16 DEF Paginate
<1>17. ASSUME NEW u \in Urls, ParseProduct(u) /\ UNCHANGED own
      PROVE  shop' = shop
  BY <1>17 DEF ParseProduct
<1>18. ASSUME NEW c \in Callbacks, NEW q \in Queues, DrainOver(c, q) /\ UNCHANGED own
      PROVE  shop' = shop
  BY <1>18 DEF DrainOver
<1>19. ASSUME NEW c \in Callbacks, NEW q \in Queues, DrainKnown(c, q) /\ DeepOnly
      PROVE  shop' = shop
  BY <1>19 DEF DrainKnown
<1>20. ASSUME NEW c \in Callbacks, NEW q \in Queues, NEW d \in {0, 1}, DrainRequestOf(c, q, d) /\ DeepOnly
      PROVE  shop' = shop
  BY <1>20 DEF DrainRequestOf
<1>21. ASSUME NEW u \in Urls, Expand(u)
      PROVE  shop' = shop
  BY <1>21 DEF Expand
<1>22. ASSUME NEW f \in Leaves, ReadLeaf(f)
      PROVE  shop' = shop
  BY <1>22 DEF ReadLeaf
<1>23. ASSUME NEW f \in Leaves, LeafKnown(f)
      PROVE  shop' = shop
  BY <1>23 DEF LeafKnown, vars
<1>24. ASSUME NEW f \in Leaves, LeafProduct(f)
      PROVE  shop' = shop
  BY <1>24 DEF LeafProduct
<1>25. ASSUME NEW f \in Leaves, LeafOver(f)
      PROVE  shop' = shop
  BY <1>25 DEF LeafOver, LeafOverFrom
<1>26. ASSUME NEW u \in Urls, ParseGraph(u)
      PROVE  shop' = shop
  BY <1>26 DEF ParseGraph
<1>27. ASSUME NEW c \in Callbacks, Candidate(c)
      PROVE  shop' = shop
  BY <1>27 DEF Candidate
<1>28. ASSUME NEW c \in Callbacks, CandidatesOver(c)
      PROVE  shop' = shop
  BY <1>28 DEF CandidatesOver
<1>29. ASSUME NEW c \in Callbacks, DrainGraph(c)
      PROVE  shop' = shop
  BY <1>29 DEF DrainGraph
<1>30. ASSUME NEW c \in Callbacks, DrainGraphOver(c)
      PROVE  shop' = shop
  BY <1>30 DEF DrainGraphOver
<1>31. CASE UNCHANGED discovery
  BY <1>31 DEF discovery, vars
<1> QED
  BY Steps, <1>1, <1>2, <1>3, <1>4, <1>5, <1>6, <1>7, <1>8, <1>9, <1>10,
     <1>11, <1>12, <1>13, <1>14, <1>15, <1>16, <1>17, <1>18, <1>19, <1>20,
     <1>21, <1>22, <1>23, <1>24, <1>25, <1>26, <1>27, <1>28, <1>29, <1>30,
     <1>31


(* Neither an Admit before nor one after a release lets the counters pass  *)
(* the budget, and a browser page takes a slot within it.                  *)
Fits(r, budget) ==
    /\ r.listing <= budget.listing /\ r.product <= budget.product
    /\ r.browser <= budget.browser
    /\ r.listing + r.product <= budget.total
LEMMA NextBudget == TypeOK /\ BudgetInv /\ shop' = shop /\ Effects => BudgetInv'
<1> SUFFICES ASSUME TypeOK, BudgetInv, shop' = shop, Effects PROVE BudgetInv'
  OBVIOUS
<1>1. /\ inflight \in Slots
      /\ \A kind \in {"total", "listing", "product", "browser"} : shop.budget[kind] \in Nat
      /\ \A l \in Listings : listing[l].browser \in BOOLEAN
  BY Budgets DEF TypeOK, Listing
<1>2. \A r \in Slots : r.listing \in Nat /\ r.product \in Nat /\ r.browser \in Nat
  BY DEF Slots
<1>3. Fits(inflight, shop.budget)
  BY DEF BudgetInv, Fits
<1>4. ASSUME NEW r \in Slots, Fits(r, shop.budget), NEW b \in BOOLEAN, b => Browses(r)
      PROVE  /\ Admit(r, "listing") => Fits(Taken(r, "listing", b), shop.budget)
             /\ Admit(r, "product") => Fits(Taken(r, "product", b), shop.budget)
  BY <1>1, <1>2, <1>4, TakenIs DEF Admit, Browses, Fits
<1>5. ASSUME NEW r \in Slots, Fits(r, shop.budget), NEW b \in BOOLEAN
      PROVE  /\ Released(r, "listing", b) \in Slots /\ Fits(Released(r, "listing", b), shop.budget)
             /\ Released(r, "product", b) \in Slots /\ Fits(Released(r, "product", b), shop.budget)
  BY <1>1, <1>2, <1>5, ReleasedIs DEF Fits
<1>6. SUFFICES Fits(inflight', shop.budget)
  BY DEF BudgetInv, Fits
<1>7. CASE Nothing
  BY <1>3, <1>7 DEF Nothing, SameSlots
<1>8. ASSUME NEW b \in BOOLEAN, Drops(b) PROVE Fits(inflight', shop.budget)
  BY <1>1, <1>3, <1>4, <1>8 DEF Drops
<1>9. ASSUME NEW l \in Listings, NEW b \in BOOLEAN, QueuesListing(l, b) PROVE Fits(inflight', shop.budget)
  BY <1>1, <1>3, <1>4, <1>9 DEF QueuesListing
<1>10. ASSUME NEW l \in Listings, Answers(l) PROVE Fits(inflight', shop.budget)
  BY <1>1, <1>3, <1>5, <1>10 DEF Answers
<1>11. ASSUME NEW u \in Urls, Requests(u) PROVE Fits(inflight', shop.budget)
  BY <1>1, <1>3, <1>4, <1>11 DEF Requests, CanRequest
<1>12. ASSUME NEW u \in Urls, OpensGraph(u) PROVE Fits(inflight', shop.budget)
  BY <1>1, <1>3, <1>4, <1>12 DEF OpensGraph
<1>13. ASSUME NEW p \in Pages, Closes(p) PROVE Fits(inflight', shop.budget)
  <2>1. (p \in Graphs) \in BOOLEAN
    OBVIOUS
  <2> QED
    BY <2>1, <1>1, <1>3, <1>5, <1>13 DEF Closes
<1>14. ASSUME NEW f \in Leaves, StartsLeaves(f) PROVE Fits(inflight', shop.budget)
  <2>1. Entry \in Listings
    BY <1>14, ShopTypes DEF StartsLeaves, TypeOK
  <2>2. EntryReleased \in Slots /\ Fits(EntryReleased, shop.budget)
    BY <2>1, <1>1, <1>3, <1>5 DEF EntryReleased
  <2> QED
    BY <2>2, <1>4, <1>14 DEF StartsLeaves
<1>15. ASSUME NEW f \in Leaves, NEW g \in Leaves, MovesLeaf(f, g) PROVE Fits(inflight', shop.budget)
  BY <1>3, <1>15 DEF MovesLeaf, SameSlots
<1> QED
  BY <1>7, <1>8, <1>9, <1>10, <1>11, <1>12, <1>13, <1>14, <1>15 DEF Effects

(* A product is requested only if the registry knows neither its URL nor   *)
(* its source id, and is put into the registry then.                       *)
LEMMA NextRegistry == TypeOK /\ RegistryInv /\ LeafInv /\ Effects => RegistryInv'
<1> SUFFICES ASSUME TypeOK, RegistryInv, Effects PROVE RegistryInv'
  OBVIOUS
<1>1. /\ Pages = Urls \cup Leaves \cup Graphs /\ Urls \cap Leaves = {} /\ Urls \cap Graphs = {}
      /\ \A u \in Urls : Graph(u) \in Graphs
  BY PageKinds
<1>2. CASE /\ SameRegistry
           /\ \A u \in Urls : product'[u].state = "new" <=> product[u].state = "new"
  BY <1>2 DEF RegistryInv, SameRegistry
<1>3. CASE SameRest
  BY <1>1, <1>2, <1>3 DEF SameRest, SamePages, SameState
<1>4. ASSUME NEW u \in Urls, Requests(u) PROVE RegistryInv'
  <2>1. /\ product[u].state = "new" /\ product'[u].state = "queued"
        /\ \A p \in Pages \ {u} : product'[p].state = product[p].state
        /\ known'.urls = known.urls \cup {u} /\ known'.ids = known.ids \cup {SourceId[u]}
    BY <1>4 DEF Requests, SameState
  <2>2. \A v \in Urls : v # u => product'[v].state = product[v].state
    BY <1>1, <2>1
  <2>3. \A v \in Urls : product'[v].state # "new" => v \in known'.urls
    BY <2>1, <2>2 DEF RegistryInv
  <2>4. \A v \in known'.urls : SourceId[v] \in known'.ids
    BY <2>1 DEF RegistryInv
  <2>5. \A i \in known'.ids : \E v \in Urls : SourceId[v] = i /\ product'[v].state # "new"
    BY <2>1, <2>2 DEF RegistryInv
  <2> QED
    BY <2>3, <2>4, <2>5 DEF RegistryInv
<1>5. ASSUME NEW u \in Urls, OpensGraph(u) PROVE RegistryInv'
  BY <1>1, <1>2, <1>5 DEF OpensGraph, SameState
<1>6. ASSUME NEW p \in Pages, Closes(p) PROVE RegistryInv'
  BY <1>1, <1>2, <1>6 DEF Closes, SameState
<1>7. ASSUME NEW f \in Leaves, StartsLeaves(f) PROVE RegistryInv'
  BY <1>1, <1>2, <1>7 DEF StartsLeaves, SameState
<1>8. ASSUME NEW f \in Leaves, NEW g \in Leaves, MovesLeaf(f, g) PROVE RegistryInv'
  BY <1>1, <1>2, <1>8 DEF MovesLeaf, SameState
<1> QED
  BY <1>3, <1>4, <1>5, <1>6, <1>7, <1>8 DEF Effects, Nothing, Drops, QueuesListing, Answers

LEMMA NextOnce == TypeOK /\ RegistryInv /\ RequestedOnce /\ Effects => RequestedOnce'
<1> SUFFICES ASSUME TypeOK, RegistryInv, RequestedOnce, Effects PROVE RequestedOnce'
  OBVIOUS
<1>1. /\ Pages = Urls \cup Leaves \cup Graphs /\ Urls \cap Leaves = {} /\ Urls \cap Graphs = {}
      /\ \A u \in Urls : Graph(u) \in Graphs
  BY PageKinds
<1>2. CASE \A u \in Urls : product'[u].state = "new" <=> product[u].state = "new"
  BY <1>2 DEF RequestedOnce
<1>3. CASE SameRest
  BY <1>1, <1>2, <1>3 DEF SameRest, SamePages, SameState
<1>4. ASSUME NEW u \in Urls, Requests(u) PROVE RequestedOnce'
  <2>1. \A v \in Urls : SourceId[v] = SourceId[u] => product[v].state = "new"
    BY <1>4 DEF Requests, Skip, RegistryInv
  <2>2. \A v \in Urls : v # u => product'[v].state = product[v].state
    BY <1>1, <1>4 DEF Requests, SameState
  <2> QED
    BY <2>1, <2>2 DEF RequestedOnce
<1>5. ASSUME NEW u \in Urls, OpensGraph(u) PROVE RequestedOnce'
  BY <1>1, <1>2, <1>5 DEF OpensGraph, SameState
<1>6. ASSUME NEW p \in Pages, Closes(p) PROVE RequestedOnce'
  BY <1>1, <1>2, <1>6 DEF Closes, SameState
<1>7. ASSUME NEW f \in Leaves, StartsLeaves(f) PROVE RequestedOnce'
  BY <1>1, <1>2, <1>7 DEF StartsLeaves, SameState
<1>8. ASSUME NEW f \in Leaves, NEW g \in Leaves, MovesLeaf(f, g) PROVE RequestedOnce'
  BY <1>1, <1>2, <1>8 DEF MovesLeaf, SameState
<1> QED
  BY <1>3, <1>4, <1>5, <1>6, <1>7, <1>8 DEF Effects, Nothing, Drops, QueuesListing, Answers

LEMMA NextGraph == TypeOK /\ GraphInv /\ Effects => GraphInv'
<1> SUFFICES ASSUME GraphInv, Effects PROVE GraphInv'
  OBVIOUS
<1>1. /\ Pages = Urls \cup Leaves \cup Graphs /\ Graphs \cap Leaves = {} /\ Urls \cap Graphs = {}
      /\ \A u \in Urls : Graph(u) \in Graphs
      /\ \A u, v \in Urls : Graph(u) = Graph(v) => u = v
  BY PageKinds
<1>2. CASE /\ SameExpanded
           /\ \A u \in Urls : product'[Graph(u)].state = "new" <=> product[Graph(u)].state = "new"
  BY <1>2 DEF GraphInv, SameExpanded
<1>3. CASE SameRest
  BY <1>1, <1>2, <1>3 DEF SameRest, SamePages, SameState
<1>4. ASSUME NEW u \in Urls, Requests(u) PROVE GraphInv'
  BY <1>1, <1>2, <1>4 DEF Requests, SameState
<1>5. ASSUME NEW u \in Urls, OpensGraph(u) PROVE GraphInv'
  <2>1. \A v \in Urls : v # u => product'[Graph(v)].state = product[Graph(v)].state
    BY <1>1, <1>5 DEF OpensGraph, SameState
  <2>2. graph'.expanded = graph.expanded \cup {u}
    BY <1>5 DEF OpensGraph
  <2> QED
    BY <2>1, <2>2 DEF GraphInv
<1>6. ASSUME NEW p \in Pages, Closes(p) PROVE GraphInv'
  BY <1>1, <1>2, <1>6 DEF Closes, SameState
<1>7. ASSUME NEW f \in Leaves, StartsLeaves(f) PROVE GraphInv'
  BY <1>1, <1>2, <1>7 DEF StartsLeaves, SameState
<1>8. ASSUME NEW f \in Leaves, NEW g \in Leaves, MovesLeaf(f, g) PROVE GraphInv'
  BY <1>1, <1>2, <1>8 DEF MovesLeaf, SameState
<1> QED
  BY <1>3, <1>4, <1>5, <1>6, <1>7, <1>8 DEF Effects, Nothing, Drops, QueuesListing, Answers

(* The leaves are requested from the entry on, one at a time.              *)
LEMMA NextLeafStates ==
  ASSUME TypeOK, LeafInv, shop' = shop, Effects
  PROVE  /\ \A f \in Leaves : product'[f].state # "new" =>
              /\ shop.discovery = "leaves" /\ f \in ToSet(shop.leaves)
              /\ listing'[Entry].state \notin {"new", "queued"}
         /\ \A f, g \in Leaves :
              f # g /\ product'[f].state \in {"queued", "internal", "reading"} =>
                product'[g].state \in {"new", "done"}
<1> DEFINE Asked(state, entry) ==
      \A f \in Leaves : state[f].state # "new" =>
        /\ shop.discovery = "leaves" /\ f \in ToSet(shop.leaves)
        /\ entry \notin {"new", "queued"}
           Alone(state) ==
      \A f, g \in Leaves : f # g /\ state[f].state \in {"queued", "internal", "reading"} =>
        state[g].state \in {"new", "done"}
<1>1. Asked(product, listing[Entry].state) /\ Alone(product)
  BY DEF LeafInv, Active
<1>2. /\ Pages = Urls \cup Leaves \cup Graphs
      /\ Urls \cap Leaves = {} /\ Leaves \cap Graphs = {}
      /\ \A u \in Urls : Graph(u) \in Graphs
  BY PageKinds
<1>3. shop.discovery = "leaves" => Entry \in Listings
  BY ShopTypes DEF TypeOK
<1> SUFFICES Asked(product', listing'[Entry].state) /\ Alone(product')
  OBVIOUS
<1>4. ASSUME \A f \in Leaves : SameState(f),
             listing[Entry].state \notin {"new", "queued"} /\ Entry \in Listings =>
               listing'[Entry].state \notin {"new", "queued"}
      PROVE  Asked(product', listing'[Entry].state) /\ Alone(product')
  BY <1>1, <1>3, <1>4 DEF SameState
<1>5. CASE SameListings /\ \A f \in Leaves : SameState(f)
  BY <1>4, <1>5 DEF SameListings, SameListing
<1>6. CASE Nothing
  BY <1>2, <1>5, <1>6 DEF Nothing, SameRest, SamePages
<1>7. ASSUME NEW b \in BOOLEAN, Drops(b)
      PROVE  Asked(product', listing'[Entry].state) /\ Alone(product')
  BY <1>2, <1>5, <1>7 DEF Drops, SameRest, SamePages
<1>8. ASSUME NEW l \in Listings, NEW b \in BOOLEAN, QueuesListing(l, b)
      PROVE  Asked(product', listing'[Entry].state) /\ Alone(product')
  <2>1. /\ listing[l].state = "new" /\ \A k \in Listings \ {l} : SameListing(k)
        /\ \A p \in Pages : SameState(p)
    BY <1>8 DEF QueuesListing, SameRest, SamePages
  <2> QED
    BY <1>2, <1>4, <2>1 DEF SameListing
<1>9. ASSUME NEW l \in Listings, Answers(l)
      PROVE  Asked(product', listing'[Entry].state) /\ Alone(product')
  <2>1. /\ listing[l].state = "queued" /\ \A k \in Listings \ {l} : SameListing(k)
        /\ \A p \in Pages : SameState(p)
    BY <1>9 DEF Answers, Ends, SameRest, SamePages
  <2> QED
    BY <1>2, <1>4, <2>1 DEF SameListing
<1>10. ASSUME NEW u \in Urls, Requests(u)
       PROVE  Asked(product', listing'[Entry].state) /\ Alone(product')
  BY <1>2, <1>5, <1>10 DEF Requests
<1>11. ASSUME NEW u \in Urls, OpensGraph(u)
       PROVE  Asked(product', listing'[Entry].state) /\ Alone(product')
  BY <1>2, <1>5, <1>11 DEF OpensGraph
<1>12. ASSUME NEW p \in Pages, Closes(p)
       PROVE  Asked(product', listing'[Entry].state) /\ Alone(product')
  <2>1. /\ product[p].state = "queued" /\ product'[p].state \notin {"new", "queued", "internal"}
        /\ \A r \in Pages : r # p => product'[r].state = product[r].state
        /\ SameListings
    BY <1>12 DEF Closes, SameState
  <2>2. CASE p \notin Leaves
    BY <1>2, <1>5, <2>1, <2>2 DEF SameState
  <2>3. CASE p \in Leaves
    <3>1. \A g \in Leaves : g # p => product[g].state \in {"new", "done"}
      BY <1>1, <2>1, <2>3
    <3>2. listing'[Entry].state \notin {"new", "queued"}
      BY <1>1, <1>3, <2>1, <2>3 DEF SameListings, SameListing
    <3>3. \A r \in Leaves : r # p => product'[r].state = product[r].state
      BY <2>1, <1>2
    <3> QED
      BY <1>1, <2>1, <2>3, <3>1, <3>2, <3>3
  <2> QED
    BY <2>2, <2>3
<1>13. ASSUME NEW f \in Leaves, StartsLeaves(f)
       PROVE  Asked(product', listing'[Entry].state) /\ Alone(product')
  <2>1. /\ shop.discovery = "leaves" /\ f \in ToSet(shop.leaves)
        /\ listing[Entry].state = "queued" /\ listing'[Entry].state \notin {"new", "queued"}
        /\ \A r \in Pages : r # f => product'[r].state = product[r].state
    BY <1>13 DEF StartsLeaves, Ends, SameState
  <2>2. \A g \in Leaves : product[g].state = "new"
    BY <1>1, <2>1
  <2>3. \A g \in Leaves : g # f => product'[g].state = "new"
    BY <1>2, <2>1, <2>2
  <2> QED
    BY <2>1, <2>3
<1>14. ASSUME NEW f \in Leaves, NEW g \in Leaves, MovesLeaf(f, g)
       PROVE  Asked(product', listing'[Entry].state) /\ Alone(product')
  <2>1. /\ product[f].state \in {"internal", "reading"}
        /\ \A r \in Leaves : r # f /\ r # g => product'[r].state = product[r].state
        /\ g # f => /\ product'[f].state = "done" /\ product'[g].state = "internal"
                    /\ g \in ToSet(shop.leaves)
        /\ g = f => product'[f].state \notin {"new", "queued"}
        /\ SameListings
    BY <1>2, <1>14 DEF MovesLeaf, SameState
  <2>2. /\ \A r \in Leaves : r # f => product[r].state \in {"new", "done"}
        /\ shop.discovery = "leaves" /\ f \in ToSet(shop.leaves)
    BY <1>1, <2>1
  <2>3. listing'[Entry].state \notin {"new", "queued"}
    BY <1>1, <1>3, <2>1 DEF SameListings, SameListing
  <2>4. \A r \in Leaves : r # f /\ r # g => product'[r].state \in {"new", "done"}
    BY <2>1, <2>2
  <2>5. \A r \in Leaves : r # f /\ r # g => r \in ToSet(shop.leaves) \/ product'[r].state = "new"
    BY <1>1, <2>1
  <2> QED
    BY <2>1, <2>2, <2>3, <2>4, <2>5
<1> QED
  BY <1>6, <1>7, <1>8, <1>9, <1>10, <1>11, <1>12, <1>13, <1>14 DEF Effects

(* The batch of a leaf is within it, and read in order.                    *)
LEMMA NextLeafBounds ==
  ASSUME TypeOK, LeafInv, [DiscoveryNext]_discovery
  PROVE  \A f \in Leaves : leaf'[f].offset <= leaf'[f].until /\ leaf'[f].until <= Len(LeafUrls[f])
<1> DEFINE Bounded(f, r) == r.offset <= r.until /\ r.until <= Len(LeafUrls[f])
           Goal == \A f \in Leaves : Bounded(f, leaf'[f])
<1> SUFFICES Goal
  OBVIOUS
<1>a. /\ leaf \in [Leaves -> [offset : Nat, until : Nat]]
      /\ \A f \in Leaves : Bounded(f, leaf[f])
      /\ \A f \in Leaves : Len(LeafUrls[f]) \in Nat
      /\ Batch \in Nat
  <2>1. /\ LeafUrls \in [Leaves -> Seq(Urls)] /\ Batch \in Nat
    BY DiscoveryAssumption DEF DiscoveryAssumption
  <2>2. \A f \in Leaves : Len(LeafUrls[f]) \in Nat
    BY <2>1
  <2> QED
    BY <2>1, <2>2 DEF TypeOK, LeafInv
<1>b. CASE leaf' = leaf
  BY <1>a, <1>b
<1>c. ASSUME NEW f \in Leaves, Reads(f), NextUrl(f) PROVE Goal
  <2>1. /\ leaf'[f].offset = leaf[f].offset + 1 /\ leaf'[f].until = leaf[f].until
        /\ \A g \in Leaves \ {f} : leaf'[g] = leaf[g]
    BY <1>c, NextUrlTypes
  <2>2. leaf[f].offset < leaf[f].until /\ leaf[f].offset \in Nat /\ leaf[f].until \in Nat
    BY <1>a, <1>c DEF Reads
  <2>3. Bounded(f, leaf'[f])
    BY <1>a, <2>1, <2>2
  <2> QED
    BY <1>a, <2>1, <2>3
<1> HIDE DEF Goal
<1>1. CASE StartSeed /\ UNCHANGED own
  BY <1>1, <1>b DEF own
<1>2. ASSUME NEW l \in Listings, LoseListing(l) /\ UNCHANGED own
      PROVE  Goal
  BY <1>2, <1>b DEF own
<1>3. ASSUME NEW p \in Urls \cup Leaves, LoseProduct(p) /\ UNCHANGED own
      PROVE  Goal
  BY <1>3, <1>b DEF own
<1>4. ASSUME NEW u \in Urls, RejectProduct(u) /\ UNCHANGED own
      PROVE  Goal
  BY <1>4, <1>b DEF own
<1>5. ASSUME NEW f \in Leaves, LoseLeaf(f)
      PROVE  Goal
  BY <1>5, <1>b DEF LoseLeaf, own
<1>6. ASSUME NEW u \in Urls, LoseGraph(u)
      PROVE  Goal
  BY <1>6, <1>b DEF LoseGraph, own
<1>7. CASE HomepageBreaks
  BY <1>7, <1>b DEF HomepageBreaks, own
<1>8. CASE ReadSitemap
  BY <1>8, <1>b DEF ReadSitemap, own
<1>9. CASE ReadIndex
  BY <1>9, <1>b DEF ReadIndex, own
<1>10. CASE HomepageArrives
  BY <1>10, <1>b DEF HomepageArrives, own
<1>11. CASE HomepageShowsNone
  BY <1>11, <1>b DEF HomepageShowsNone, own
<1>12. CASE HomepageShows
  BY <1>12, <1>b DEF HomepageShows
<1>13. ASSUME NEW l \in Listings, Parses(l)
      PROVE  Goal
  BY <1>13, <1>b DEF Parses, own
<1>14. ASSUME NEW l \in Listings, FollowLink(l) /\ UNCHANGED own
      PROVE  Goal
  BY <1>14, <1>b DEF own
<1>15. ASSUME NEW l \in Listings, FollowSubcategory(l) /\ UNCHANGED own
      PROVE  Goal
  BY <1>15, <1>b DEF own
<1>16. ASSUME NEW l \in Listings, Paginate(l) /\ UNCHANGED own
      PROVE  Goal
  BY <1>16, <1>b DEF own
<1>17. ASSUME NEW u \in Urls, ParseProduct(u) /\ UNCHANGED own
      PROVE  Goal
  BY <1>17, <1>b DEF own
<1>18. ASSUME NEW c \in Callbacks, NEW q \in Queues, DrainOver(c, q) /\ UNCHANGED own
      PROVE  Goal
  BY <1>18, <1>b DEF own
<1>19. ASSUME NEW c \in Callbacks, NEW q \in Queues, DrainKnown(c, q) /\ DeepOnly
      PROVE  Goal
  BY <1>19, <1>b DEF DeepOnly
<1>20. ASSUME NEW c \in Callbacks, NEW q \in Queues, NEW d \in {0, 1}, DrainRequestOf(c, q, d) /\ DeepOnly
      PROVE  Goal
  BY <1>20, <1>b DEF DeepOnly
<1>21. ASSUME NEW u \in Urls, Expand(u)
      PROVE  Goal
  BY <1>21, <1>b DEF Expand
<1>22. ASSUME NEW f \in Leaves, ReadLeaf(f)
      PROVE  Goal
  <2>1. leaf' = [leaf EXCEPT ![f].until = Min({leaf[f].until + Batch, Len(LeafUrls[f])})]
    BY <1>22 DEF ReadLeaf
  <2>2. leaf[f] \in [offset : Nat, until : Nat] /\ leaf[f].offset \in Nat /\ leaf[f].until \in Nat
    BY <1>a
  <2> DEFINE until == Min({leaf[f].until + Batch, Len(LeafUrls[f])})
  <2>3. until \in Nat /\ until <= Len(LeafUrls[f]) /\ until \in {leaf[f].until + Batch, Len(LeafUrls[f])}
    BY <1>a, <2>2, SmallerOne
  <2>4. /\ leaf'[f].offset = leaf[f].offset /\ leaf'[f].until = until
        /\ \A g \in Leaves \ {f} : leaf'[g] = leaf[g]
    BY <1>a, <2>1, <2>2
  <2> HIDE DEF until
  <2>5. Bounded(f, leaf'[f])
    <3>1. leaf[f].offset <= leaf[f].until /\ leaf[f].until <= Len(LeafUrls[f])
      BY <1>a
    <3>2. leaf[f].offset <= until
      BY <1>a, <2>2, <2>3, <3>1
    <3> QED
      BY <2>3, <2>4, <3>2
  <2> QED
    BY <1>a, <2>4, <2>5 DEF Goal
<1>23. ASSUME NEW f \in Leaves, LeafKnown(f)
      PROVE  Goal
  BY <1>23, <1>c DEF LeafKnown
<1>24. ASSUME NEW f \in Leaves, LeafProduct(f)
      PROVE  Goal
  BY <1>24, <1>c DEF LeafProduct
<1>25. ASSUME NEW f \in Leaves, LeafOver(f)
      PROVE  Goal
  <2>1. leaf' = [leaf EXCEPT ![f] = [offset |-> leaf[f].offset, until |-> leaf[f].offset]]
    BY <1>25 DEF LeafOver, LeafOverFrom
  <2>2. /\ leaf'[f] = [offset |-> leaf[f].offset, until |-> leaf[f].offset]
        /\ \A g \in Leaves \ {f} : leaf'[g] = leaf[g]
    BY <1>a, <2>1
  <2>3. leaf[f].offset <= leaf[f].until /\ leaf[f].until <= Len(LeafUrls[f])
        /\ leaf[f].offset \in Nat /\ leaf[f].until \in Nat /\ Len(LeafUrls[f]) \in Nat
    BY <1>a
  <2>4. Bounded(f, leaf'[f])
    BY <2>2, <2>3
  <2> QED
    BY <1>a, <2>2, <2>4 DEF Goal
<1>26. ASSUME NEW u \in Urls, ParseGraph(u)
      PROVE  Goal
  BY <1>26, <1>b DEF ParseGraph
<1>27. ASSUME NEW c \in Callbacks, Candidate(c)
      PROVE  Goal
  BY <1>27, <1>b DEF Candidate
<1>28. ASSUME NEW c \in Callbacks, CandidatesOver(c)
      PROVE  Goal
  BY <1>28, <1>b DEF CandidatesOver
<1>29. ASSUME NEW c \in Callbacks, DrainGraph(c)
      PROVE  Goal
  BY <1>29, <1>b DEF DrainGraph
<1>30. ASSUME NEW c \in Callbacks, DrainGraphOver(c)
      PROVE  Goal
  BY <1>30, <1>b DEF DrainGraphOver, own
<1>31. CASE UNCHANGED discovery
  BY <1>31, <1>b DEF discovery, own
<1> QED
  BY Steps, <1>1, <1>2, <1>3, <1>4, <1>5, <1>6, <1>7, <1>8, <1>9, <1>10,
     <1>11, <1>12, <1>13, <1>14, <1>15, <1>16, <1>17, <1>18, <1>19, <1>20,
     <1>21, <1>22, <1>23, <1>24, <1>25, <1>26, <1>27, <1>28, <1>29, <1>30,
     <1>31

-----------------------------------------------------------------------------
(* Slots.                                                                  *)

Asked == {l \in Listings : listing[l].state = "queued"}
Shown == {l \in Listings : listing[l].state = "queued" /\ listing[l].browser}
Out == {p \in Pages : product[p].state = "queued"}

LEMMA AskedAre ==
  TypeOK => /\ Queued(listing) = Asked /\ {l \in Queued(listing) : listing[l].browser} = Shown
            /\ Queued(product) = Out
            /\ IsFiniteSet(Asked) /\ IsFiniteSet(Shown)
            /\ IsFiniteSet(Out) /\ IsFiniteSet(Out \cap Graphs)
<1> SUFFICES ASSUME TypeOK
             PROVE  /\ Queued(listing) = Asked /\ {l \in Queued(listing) : listing[l].browser} = Shown
                    /\ Queued(product) = Out
                    /\ IsFiniteSet(Asked) /\ IsFiniteSet(Shown)
                    /\ IsFiniteSet(Out) /\ IsFiniteSet(Out \cap Graphs)
  OBVIOUS
<1>1. DOMAIN listing = Listings /\ DOMAIN product = Pages
  BY DEF TypeOK
<1>2. /\ Queued(listing) = Asked /\ {l \in Queued(listing) : listing[l].browser} = Shown
      /\ Queued(product) = Out
  BY <1>1 DEF Queued, Asked, Shown, Out
<1>3. IsFiniteSet(Listings) /\ IsFiniteSet(Pages)
  BY CrawlAssumption DEF CrawlAssumption
<1>4. /\ Asked \in SUBSET Listings /\ Shown \in SUBSET Listings
      /\ Out \in SUBSET Pages /\ (Out \cap Graphs) \in SUBSET Pages
  BY DEF Asked, Shown, Out
<1>5. IsFiniteSet(Asked) /\ IsFiniteSet(Shown)
  BY <1>3, <1>4, FS_Subset
<1>6. IsFiniteSet(Out) /\ IsFiniteSet(Out \cap Graphs)
  BY <1>3, <1>4, FS_Subset
<1> QED
  BY <1>2, <1>5, <1>6

LEMMA OneMore ==
  ASSUME NEW S, IsFiniteSet(S), NEW x, x \notin S
  PROVE  Cardinality(S) \in Nat /\ Cardinality(S \cup {x}) = Cardinality(S) + 1
BY FS_CardinalityType, FS_AddElement

LEMMA OneLess ==
  ASSUME NEW S, IsFiniteSet(S), NEW x, x \in S
  PROVE  /\ Cardinality(S) \in Nat \ {0} /\ Cardinality(S \ {x}) \in Nat
         /\ Cardinality(S \ {x}) = Cardinality(S) - 1
<1>1. Cardinality(S) \in Nat /\ Cardinality(S \ {x}) = Cardinality(S) - 1
  BY FS_CardinalityType, FS_RemoveElement
<1>2. Cardinality(S \ {x}) \in Nat
  BY FS_CardinalityType, FS_RemoveElement
<1> QED
  BY <1>1, <1>2

(* The counters r and f count a listings asked for, s of them in a         *)
(* browser, o pages and g of them in a browser.                            *)
Counts(r, f, a, s, o, g) ==
    r.listing = a + f.listing /\ r.product = o /\ r.browser = s + f.browser + g
Held == Counts(inflight, filtered, Cardinality(Asked), Cardinality(Shown), Cardinality(Out),
               Cardinality(Out \cap Graphs))

LEMMA HeldSlots == TypeOK => (SlotsAreHeld <=> Held)
<1> SUFFICES ASSUME TypeOK PROVE SlotsAreHeld <=> Held
  OBVIOUS
<1>1. shop.browsing = Graphs
  BY ShopTypes DEF TypeOK
<1> QED
  BY <1>1, AskedAre DEF SlotsAreHeld, Held, Counts

LEMMA CountsTaken ==
  ASSUME NEW r \in Slots, NEW f \in Slots, NEW a \in Nat, NEW s \in Nat, NEW o \in Nat, NEW g \in Nat,
         NEW b \in BOOLEAN, Counts(r, f, a, s, o, g)
  PROVE  /\ Counts(Taken(r, "listing", b), Taken(f, "listing", b), a, s, o, g)
         /\ Counts(Taken(r, "listing", b), f, a + 1, IF b THEN s + 1 ELSE s, o, g)
         /\ Counts(Taken(r, "product", b), f, a, s, o + 1, IF b THEN g + 1 ELSE g)
<1>1. /\ r.listing \in Nat /\ r.product \in Nat /\ r.browser \in Nat
      /\ f.listing \in Nat /\ f.product \in Nat /\ f.browser \in Nat
  BY DEF Slots
<1> QED
  BY <1>1, TakenIs DEF Counts

LEMMA CountsReleased ==
  ASSUME NEW r \in Slots, NEW f \in Slots, NEW a \in Nat, NEW s \in Nat, NEW o \in Nat, NEW g \in Nat,
         NEW b \in BOOLEAN, Counts(r, f, a, s, o, g)
  PROVE  /\ a > 0 /\ (b => s > 0) =>
              Counts(Released(r, "listing", b), f, a - 1, IF b THEN s - 1 ELSE s, o, g)
         /\ o > 0 /\ (b => g > 0) =>
              Counts(Released(r, "product", b), f, a, s, o - 1, IF b THEN g - 1 ELSE g)
<1>1. /\ r.listing \in Nat /\ r.product \in Nat /\ r.browser \in Nat
      /\ f.listing \in Nat /\ f.product \in Nat /\ f.browser \in Nat
  BY DEF Slots
<1>2. ASSUME a > 0, b => s > 0
      PROVE  Counts(Released(r, "listing", b), f, a - 1, IF b THEN s - 1 ELSE s, o, g)
  BY <1>1, <1>2, ReleasedIs DEF Counts
<1>3. ASSUME o > 0, b => g > 0
      PROVE  Counts(Released(r, "product", b), f, a, s, o - 1, IF b THEN g - 1 ELSE g)
  BY <1>1, <1>3, ReleasedIs DEF Counts
<1> QED
  BY <1>2, <1>3

(* Every step moves the counters with the requests it makes and ends.      *)
LEMMA NextHeld ==
  ASSUME TypeOK, LeafInv, GraphInv, RegistryInv, Effects, Held
  PROVE  Held'
<1> DEFINE a == Cardinality(Asked)
           s == Cardinality(Shown)
           o == Cardinality(Out)
           g == Cardinality(Out \cap Graphs)
<1>1. /\ IsFiniteSet(Asked) /\ IsFiniteSet(Shown)
      /\ IsFiniteSet(Out) /\ IsFiniteSet(Out \cap Graphs)
      /\ a \in Nat /\ s \in Nat /\ o \in Nat /\ g \in Nat
      /\ inflight \in Slots /\ filtered \in Slots
      /\ \A l \in Listings : listing[l].browser \in BOOLEAN
  BY AskedAre, FS_CardinalityType DEF TypeOK, Listing
<1>2. Counts(inflight, filtered, a, s, o, g)
  BY DEF Held
<1>3. SUFFICES Counts(inflight', filtered', Cardinality(Asked'), Cardinality(Shown'),
                      Cardinality(Out'), Cardinality(Out' \cap Graphs))
  BY DEF Held
<1> DEFINE Goal == Counts(inflight', filtered', Cardinality(Asked'), Cardinality(Shown'),
                          Cardinality(Out'), Cardinality(Out' \cap Graphs))
<1>4. /\ Pages = Urls \cup Leaves \cup Graphs
      /\ Urls \cap Graphs = {} /\ Leaves \cap Graphs = {}
      /\ \A u \in Urls : Graph(u) \in Graphs
  BY PageKinds
<1>5. SameListings => Asked' = Asked /\ Shown' = Shown
  BY DEF SameListings, SameListing, Asked, Shown
<1>6. SamePages => Out' = Out
  BY DEF SamePages, SameState, Out
<1>7. CASE Nothing
  <2>1. Asked' = Asked /\ Shown' = Shown /\ Out' = Out /\ inflight' = inflight /\ filtered' = filtered
    BY <1>5, <1>6, <1>7 DEF Nothing, SameSlots, SameRest
  <2> QED
    BY <1>2, <2>1
<1>8. ASSUME NEW b \in BOOLEAN, Drops(b) PROVE Goal
  <2>1. /\ Asked' = Asked /\ Shown' = Shown /\ Out' = Out
        /\ inflight' = Taken(inflight, "listing", b) /\ filtered' = Taken(filtered, "listing", b)
    BY <1>5, <1>6, <1>8 DEF Drops, SameRest
  <2>2. Counts(Taken(inflight, "listing", b), Taken(filtered, "listing", b), a, s, o, g)
    BY <1>1, <1>2, CountsTaken
  <2> QED
    BY <2>1, <2>2
<1>9. ASSUME NEW l \in Listings, NEW b \in BOOLEAN, QueuesListing(l, b) PROVE Goal
  <2>1. /\ Out' = Out /\ inflight' = Taken(inflight, "listing", b) /\ filtered' = filtered
        /\ listing[l].state = "new" /\ listing'[l].state = "queued" /\ listing'[l].browser = b
        /\ \A k \in Listings \ {l} : SameListing(k)
    BY <1>6, <1>9 DEF QueuesListing, SameRest
  <2>2. /\ Asked' = Asked \cup {l} /\ l \notin Asked /\ l \notin Shown
        /\ b => Shown' = Shown \cup {l}
        /\ ~b => Shown' = Shown
    BY <2>1 DEF Asked, Shown, SameListing
  <2>3. /\ Cardinality(Asked') = a + 1
        /\ Cardinality(Shown') = IF b THEN s + 1 ELSE s
    BY <1>1, <2>2, OneMore
  <2>4. Counts(Taken(inflight, "listing", b), filtered, a + 1, IF b THEN s + 1 ELSE s, o, g)
    BY <1>1, <1>2, CountsTaken
  <2> QED
    BY <2>1, <2>3, <2>4
<1>10. ASSUME NEW l \in Listings, Ends(l)
       PROVE  LET b == listing[l].browser IN
              /\ Cardinality(Asked') = a - 1
              /\ Cardinality(Shown') = IF b THEN s - 1 ELSE s
              /\ a > 0 /\ (b => s > 0) /\ b \in BOOLEAN
              /\ Cardinality(Asked') \in Nat /\ Cardinality(Shown') \in Nat
  <2> DEFINE b == listing[l].browser
  <2>1. /\ listing[l].state = "queued" /\ listing'[l].state # "queued"
        /\ \A k \in Listings \ {l} : SameListing(k)
    BY <1>10 DEF Ends
  <2>2. /\ Asked' = Asked \ {l} /\ l \in Asked
        /\ b => Shown' = Shown \ {l} /\ l \in Shown
        /\ ~b => Shown' = Shown
    BY <2>1 DEF Asked, Shown, SameListing
  <2> HIDE DEF b
  <2>3. Cardinality(Asked') = a - 1 /\ a > 0 /\ Cardinality(Asked') \in Nat
    BY <1>1, <2>2, OneLess
  <2>4. CASE b
    BY <1>1, <2>2, <2>3, <2>4, OneLess DEF b
  <2>5. CASE ~b
    BY <1>1, <2>2, <2>3, <2>5 DEF b
  <2> QED
    BY <2>4, <2>5
<1>11. ASSUME NEW l \in Listings, Answers(l) PROVE Goal
  <2> DEFINE b == listing[l].browser
  <2>1. /\ Out' = Out /\ inflight' = Released(inflight, "listing", b) /\ filtered' = filtered
        /\ Ends(l)
    BY <1>6, <1>11 DEF Answers, SameRest
  <2>2. /\ Cardinality(Asked') = a - 1 /\ Cardinality(Shown') = IF b THEN s - 1 ELSE s
        /\ a > 0 /\ (b => s > 0) /\ b \in BOOLEAN
    BY <2>1, <1>10
  <2>3. Counts(Released(inflight, "listing", b), filtered, a - 1, IF b THEN s - 1 ELSE s, o, g)
    BY <1>1, <1>2, <2>2, CountsReleased
  <2> QED
    BY <2>1, <2>2, <2>3
<1>12. ASSUME NEW u \in Urls, Requests(u) PROVE Goal
  <2>1. /\ Asked' = Asked /\ Shown' = Shown
        /\ inflight' = Taken(inflight, "product", FALSE) /\ filtered' = filtered
        /\ product[u].state = "new" /\ product'[u].state = "queued"
        /\ \A p \in Pages \ {u} : SameState(p)
    BY <1>5, <1>12 DEF Requests
  <2>2. Out' = Out \cup {u} /\ u \notin Out /\ Out' \cap Graphs = Out \cap Graphs
    BY <1>4, <2>1 DEF Out, SameState
  <2>3. Cardinality(Out') = o + 1
    BY <1>1, <2>2, OneMore
  <2>4. Counts(Taken(inflight, "product", FALSE), filtered, a, s, o + 1, g)
    BY <1>1, <1>2, CountsTaken
  <2> QED
    BY <2>1, <2>2, <2>3, <2>4
<1>13. ASSUME NEW u \in Urls, OpensGraph(u) PROVE Goal
  <2>1. /\ Asked' = Asked /\ Shown' = Shown
        /\ inflight' = Taken(inflight, "product", TRUE) /\ filtered' = filtered
        /\ u \notin graph.expanded /\ product'[Graph(u)].state = "queued"
        /\ \A p \in Pages \ {Graph(u)} : SameState(p)
    BY <1>5, <1>13 DEF OpensGraph
  <2>2. product[Graph(u)].state = "new" /\ Graph(u) \in Graphs
    BY <1>4, <2>1 DEF GraphInv
  <2>3. /\ Out' = Out \cup {Graph(u)} /\ Graph(u) \notin Out
        /\ Out' \cap Graphs = (Out \cap Graphs) \cup {Graph(u)}
    BY <1>4, <2>1, <2>2 DEF Out, SameState
  <2>4. Cardinality(Out') = o + 1 /\ Cardinality(Out' \cap Graphs) = g + 1
    BY <1>1, <2>3, OneMore
  <2>5. Counts(Taken(inflight, "product", TRUE), filtered, a, s, o + 1, g + 1)
    BY <1>1, <1>2, CountsTaken
  <2> QED
    BY <2>1, <2>4, <2>5
<1>14. ASSUME NEW p \in Pages, Closes(p) PROVE Goal
  <2> DEFINE b == p \in Graphs
  <2>1. /\ Asked' = Asked /\ Shown' = Shown
        /\ inflight' = Released(inflight, "product", b) /\ filtered' = filtered
        /\ product[p].state = "queued" /\ product'[p].state # "queued"
        /\ \A r \in Pages \ {p} : SameState(r)
    BY <1>5, <1>14 DEF Closes
  <2>2. /\ Out' = Out \ {p} /\ p \in Out
        /\ b => Out' \cap Graphs = (Out \cap Graphs) \ {p} /\ p \in Out \cap Graphs
        /\ ~b => Out' \cap Graphs = Out \cap Graphs
    BY <2>1 DEF Out, SameState
  <2>3. b \in BOOLEAN
    OBVIOUS
  <2> HIDE DEF b
  <2>4. Cardinality(Out') = o - 1 /\ o > 0
    BY <1>1, <2>2, OneLess
  <2>5. Cardinality(Out' \cap Graphs) = (IF b THEN g - 1 ELSE g) /\ (b => g > 0)
    <3>1. CASE b
      <4> DEFINE G == Out \cap Graphs
      <4>1. Out' \cap Graphs = G \ {p} /\ p \in G /\ IsFiniteSet(G) /\ g = Cardinality(G)
        BY <1>1, <2>2, <3>1
      <4> HIDE DEF G
      <4>2. g > 0 /\ Cardinality(Out' \cap Graphs) = g - 1
        BY <4>1, OneLess
      <4> QED
        BY <3>1, <4>1, <4>2
    <3>2. CASE ~b
      BY <1>1, <2>2, <3>2
    <3> QED
      BY <3>1, <3>2
  <2>6. Counts(Released(inflight, "product", b), filtered, a, s, o - 1, IF b THEN g - 1 ELSE g)
    BY <1>1, <1>2, <2>3, <2>4, <2>5, CountsReleased
  <2> QED
    BY <2>1, <2>4, <2>5, <2>6
<1>15. ASSUME NEW f \in Leaves, StartsLeaves(f) PROVE Goal
  <2> DEFINE b == listing[Entry].browser
             released == Released(inflight, "listing", b)
  <2>1. Entry \in Listings
    BY <1>15, ShopTypes DEF StartsLeaves, TypeOK
  <2>2. /\ Ends(Entry) /\ listing[Entry].state = "queued"
        /\ inflight' = Taken(released, "product", FALSE) /\ filtered' = filtered
        /\ product'[f].state = "queued"
        /\ \A p \in Pages \ {f} : SameState(p)
    BY <1>15 DEF StartsLeaves, EntryReleased, Ends
  <2>3. product[f].state = "new"
    BY <2>2 DEF LeafInv
  <2>4. Out' = Out \cup {f} /\ f \notin Out /\ Out' \cap Graphs = Out \cap Graphs
    BY <1>4, <2>2, <2>3 DEF Out, SameState
  <2>5. /\ Cardinality(Asked') = a - 1 /\ Cardinality(Shown') = IF b THEN s - 1 ELSE s
        /\ a > 0 /\ (b => s > 0) /\ b \in BOOLEAN
        /\ Cardinality(Asked') \in Nat /\ Cardinality(Shown') \in Nat
    <3>1. Ends(Entry)
      BY <2>2
    <3> HIDE DEF a, s, b
    <3>2. \A l \in Listings : Ends(l) =>
            /\ Cardinality(Asked') = a - 1
            /\ Cardinality(Shown') = IF listing[l].browser THEN s - 1 ELSE s
            /\ a > 0 /\ (listing[l].browser => s > 0) /\ listing[l].browser \in BOOLEAN
            /\ Cardinality(Asked') \in Nat /\ Cardinality(Shown') \in Nat
      BY <1>10
    <3> QED
      BY <2>1, <3>1, <3>2, Zenon DEF b
  <2>6. Counts(released, filtered, Cardinality(Asked'), Cardinality(Shown'), o, g)
    <3>1. Counts(released, filtered, a - 1, IF b THEN s - 1 ELSE s, o, g)
      <4> HIDE DEF b
      <4> QED
        BY <1>1, <1>2, <2>5, CountsReleased
    <3> HIDE DEF released, b
    <3> QED
      BY <2>5, <3>1
  <2>7. released \in Slots
    BY <1>1, <2>5, ReleasedIs
  <2>8. Counts(Taken(released, "product", FALSE), filtered, Cardinality(Asked'), Cardinality(Shown'),
               o + 1, g)
    <3> HIDE DEF released
    <3> QED
      BY <1>1, <2>5, <2>6, <2>7, CountsTaken
  <2>9. Cardinality(Out') = o + 1
    BY <1>1, <2>4, OneMore
  <2> QED
    BY <2>2, <2>4, <2>8, <2>9
<1>16. ASSUME NEW f \in Leaves, NEW h \in Leaves, MovesLeaf(f, h) PROVE Goal
  <2>1. /\ Asked' = Asked /\ Shown' = Shown
        /\ inflight' = inflight /\ filtered' = filtered
        /\ product[f].state \in {"internal", "reading"}
        /\ \A p \in Pages \ {f, h} : SameState(p)
        /\ h # f => product'[f].state = "done" /\ product'[h].state = "internal"
        /\ h = f => product'[f].state # "queued"
    BY <1>5, <1>16 DEF MovesLeaf, SameSlots
  <2>2. product[h].state # "queued"
    BY <2>1 DEF LeafInv, Active
  <2>3. Out' = Out
    BY <2>1, <2>2 DEF Out, SameState
  <2> QED
    BY <1>2, <2>1, <2>3
<1> QED
  BY <1>7, <1>8, <1>9, <1>11, <1>12, <1>13, <1>14, <1>15, <1>16 DEF Effects

-----------------------------------------------------------------------------
(* The invariant of every crawl, and what follows from it.                 *)

CrawlInv ==
    /\ TypeOK /\ LeafInv /\ GraphInv
    /\ RegistryInv /\ RequestedOnce
    /\ BudgetInv /\ SlotsAreHeld

LEMMA InitTypes == DiscoveryInit => TypeOK
<1> SUFFICES ASSUME DiscoveryInit PROVE TypeOK
  OBVIOUS
<1>1. /\ shop \in Shops /\ seeds = shop.seeds
      /\ listing = [l \in Listings |-> NewListing]
      /\ product = [p \in Pages |-> NewProduct]
      /\ queue = [q \in Queues |-> <<>>]
      /\ drain = [c \in Listings \cup Pages |-> Idle]
      /\ known = [urls |-> {}, ids |-> {}, pages |-> {}, signatures |-> {}]
      /\ inflight = [listing |-> 0, product |-> 0, browser |-> 0]
      /\ filtered = [listing |-> 0, product |-> 0, browser |-> 0]
      /\ failures = 0
      /\ leaf = [f \in Leaves |-> [offset |-> 0, until |-> 0]]
      /\ graph = [waiting |-> <<>>, expanded |-> {}, deep |-> {}]
      /\ fan = NoFan
  BY DEF DiscoveryInit, Init
<1>2. NewListing \in Listing
  BY DEF NewListing, Listing, ListingStates
<1>3. NewProduct \in Product
  BY DEF NewProduct, Product, ProductStates
<1>4. Idle \in Callback
  BY DEF Idle, Callback
<1>5. known \in Registry
  BY <1>1 DEF Registry
<1>6. graph \in Opening /\ fan \in Candidates
  BY <1>1 DEF Opening, Candidates, NoFan
<1>7. inflight \in Slots /\ filtered \in Slots
  BY <1>1 DEF Slots
<1>8. seeds \in Seq(Listings)
  BY <1>1, ShopTypes
<1>9. listing \in [Listings -> Listing] /\ product \in [Pages -> Product]
  BY <1>1, <1>2, <1>3
<1>10. drain \in [Listings \cup Pages -> Callback]
  BY <1>1, <1>4
<1>11. queue \in [Queues -> Seq(Urls)] /\ leaf \in [Leaves -> [offset : Nat, until : Nat]]
  BY <1>1
<1> QED
  BY <1>1, <1>5, <1>6, <1>7, <1>8, <1>9, <1>10, <1>11 DEF TypeOK

LEMMA InitInv == DiscoveryInit => CrawlInv
<1> SUFFICES ASSUME DiscoveryInit PROVE CrawlInv
  OBVIOUS
<1>1. TypeOK
  BY InitTypes
<1>2. /\ \A l \in Listings : listing[l].state = "new"
      /\ \A p \in Pages : product[p].state = "new"
      /\ known.urls = {} /\ known.ids = {}
      /\ inflight = [listing |-> 0, product |-> 0, browser |-> 0]
      /\ filtered = [listing |-> 0, product |-> 0, browser |-> 0]
      /\ \A f \in Leaves : leaf[f] = [offset |-> 0, until |-> 0]
  BY DEF DiscoveryInit, Init, NewListing, NewProduct
<1>3. /\ Pages = Urls \cup Leaves \cup Graphs
      /\ \A u \in Urls : Graph(u) \in Graphs
  BY PageKinds
<1>4. LeafInv
  <2>1. \A f \in Leaves : Len(LeafUrls[f]) \in Nat
    <3>1. LeafUrls \in [Leaves -> Seq(Urls)]
      BY DiscoveryAssumption DEF DiscoveryAssumption
    <3> QED
      BY <3>1
  <2> QED
    BY <1>2, <1>3, <2>1 DEF LeafInv, Active
<1>5. GraphInv /\ RegistryInv /\ RequestedOnce
  BY <1>2, <1>3 DEF GraphInv, RegistryInv, RequestedOnce
<1>6. BudgetInv
  BY <1>1, <1>2, Budgets DEF BudgetInv, TypeOK
<1>7. SlotsAreHeld
  <2>1. Asked = {} /\ Shown = {} /\ Out = {} /\ Out \cap Graphs = {}
    BY <1>2 DEF Asked, Shown, Out
  <2>2. Cardinality({}) = 0
    BY FS_EmptySet
  <2>3. Held
    BY <1>2, <2>1, <2>2 DEF Held, Counts
  <2> QED
    BY <1>1, <2>3, HeldSlots
<1> QED
  BY <1>1, <1>4, <1>5, <1>6, <1>7 DEF CrawlInv

LEMMA NextInv == CrawlInv /\ [DiscoveryNext]_discovery => CrawlInv'
<1> SUFFICES ASSUME CrawlInv, [DiscoveryNext]_discovery PROVE CrawlInv'
  OBVIOUS
<1>1. /\ TypeOK /\ LeafInv /\ GraphInv /\ RegistryInv /\ RequestedOnce /\ BudgetInv /\ SlotsAreHeld
  BY DEF CrawlInv
<1>2. TypeOK' /\ shop' = shop /\ Effects
  BY <1>1, NextTypes, NextShop, StepEffects
<1>3. RegistryInv' /\ RequestedOnce' /\ GraphInv' /\ BudgetInv'
  BY <1>1, <1>2, NextRegistry, NextOnce, NextGraph, NextBudget
<1>4. LeafInv'
  <2>1. Entry' = Entry
    BY <1>2 DEF Entry
  <2>2. /\ \A f \in Leaves : product'[f].state # "new" =>
             /\ shop.discovery = "leaves" /\ f \in ToSet(shop.leaves)
             /\ listing'[Entry].state \notin {"new", "queued"}
        /\ \A f, g \in Leaves :
             f # g /\ product'[f].state \in {"queued", "internal", "reading"} =>
               product'[g].state \in {"new", "done"}
    BY <1>1, <1>2, NextLeafStates
  <2>3. \A f \in Leaves : leaf'[f].offset <= leaf'[f].until /\ leaf'[f].until <= Len(LeafUrls[f])
    BY <1>1, NextLeafBounds
  <2> QED
    BY <1>2, <2>1, <2>2, <2>3 DEF LeafInv, Active
<1>5. SlotsAreHeld'
  <2>1. Held'
    BY <1>1, <1>2, HeldSlots, NextHeld
  <2>2. TypeOK' => (SlotsAreHeld' <=> Held')
    BY HeldSlots, PTL
  <2> QED
    BY <1>2, <2>1, <2>2
<1> QED
  BY <1>2, <1>3, <1>4, <1>5 DEF CrawlInv

(* CrawlInv is an invariant: the registry, the counters and the states of  *)
(* the requests belong together in every state of every crawl.             *)
THEOREM CrawlAlwaysInv == DiscoverySpec => []CrawlInv
<1> QED
  BY InitInv, NextInv, PTL DEF DiscoverySpec

(* The slots of the budget are held by the requests that are outstanding,  *)
(* and by what the dupefilter dropped (schedule_safe_request takes them,   *)
(* parse, the stores' own callbacks and errback_default give them back).   *)
THEOREM SlotsAlwaysHeld == DiscoverySpec => []SlotsAreHeld
<1>1. CrawlInv => SlotsAreHeld
  BY DEF CrawlInv
<1> QED
  BY <1>1, CrawlAlwaysInv, PTL

(* Of the URLs of one product at most one is ever requested                *)
(* (should_skip_product_url).                                              *)
THEOREM AlwaysRequestedOnce == DiscoverySpec => []RequestedOnce
<1>1. CrawlInv => RequestedOnce
  BY DEF CrawlInv
<1> QED
  BY <1>1, CrawlAlwaysInv, PTL

(* No more requests are outstanding than the budget of the store allows    *)
(* (decide_request_admission).                                             *)
THEOREM AlwaysWithinBudget == DiscoverySpec => []WithinBudget
<1>1. CrawlInv => WithinBudget
  <2> SUFFICES ASSUME CrawlInv PROVE WithinBudget
    OBVIOUS
  <2>1. TypeOK /\ BudgetInv /\ Held
    BY HeldSlots DEF CrawlInv
  <2>2. /\ Queued(listing) = Asked /\ Queued(product) = Out
        /\ Cardinality(Asked) \in Nat /\ Cardinality(Out) \in Nat
    BY <2>1, AskedAre, FS_CardinalityType
  <2>3. /\ inflight.listing = Cardinality(Asked) + filtered.listing
        /\ inflight.product = Cardinality(Out)
        /\ filtered.listing \in Nat
    BY <2>1 DEF Held, Counts, TypeOK, Slots
  <2>4. /\ inflight.listing <= shop.budget.listing /\ inflight.product <= shop.budget.product
        /\ inflight.listing + inflight.product <= shop.budget.total
        /\ shop.budget.listing \in Nat /\ shop.budget.product \in Nat /\ shop.budget.total \in Nat
    BY <2>1, Budgets DEF BudgetInv, TypeOK
  <2> QED
    BY <2>2, <2>3, <2>4 DEF WithinBudget
<1> QED
  BY <1>1, CrawlAlwaysInv, PTL
=============================================================================
