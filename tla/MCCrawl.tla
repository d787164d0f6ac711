------------------------------ MODULE MCCrawl ------------------------------
(* A shop for Crawl alone, which answers every page number with the same   *)
(* products.                                                               *)
EXTENDS Crawl

CONSTANTS a1, a2, b1, c1, phone, tv

SameListings == {a1, a2, b1, c1}
SameUrls == {phone, tv}
SamePath == [l \in SameListings |-> a1]
SameLinks == [l \in SameListings |-> <<phone, tv>>]
SameSubs == [l \in SameListings |-> <<>>]
SameNext == (a1 :> a2 @@ a2 :> b1 @@ b1 :> c1 @@ c1 :> None)
SameIds == [u \in SameUrls |-> u]
SameLimit == [q \in {"framework", "own"} |-> 1]
SameShops ==
    {[seeds |-> <<a1>>, drains |-> <<"framework">>, others |-> <<>>, errback |-> <<>>,
      failures |-> 1, numbered |-> TRUE, hydrates |-> FALSE, browsing |-> {},
      budget |-> [total |-> 3, listing |-> 2, product |-> 2, browser |-> 0]]}
=============================================================================
