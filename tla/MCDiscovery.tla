---------------------------- MODULE MCDiscovery ----------------------------
(***************************************************************************)
(* Small shops for Discovery, on one site.                                 *)
(*                                                                         *)
(* Categories: three seeds, one more than the listing budget.  a1 has an   *)
(* empty second page and links to the seed b1 as a subcategory, which may  *)
(* be before or after the seed was answered; b1 links to the seed c1.  c1  *)
(* is its own next page and shows a product on a host the policy refuses.  *)
(* The phone has two URLs with one source id, on a1 and on b1.             *)
(*                                                                         *)
(* Texnomart, Mediapark and Uzum start from their entry alone; the hybrid  *)
(* and mixed shops follow categories, too.  The leaf of MediaparkRefused   *)
(* holds the refused product.  In Uzum the browser page of tv shows two    *)
(* products more than the slots that are free may take; UzumPlain has no   *)
(* browser.                                                                *)
(***************************************************************************)
EXTENDS Discovery

CONSTANTS a1, a2, b1, c1, d1, home, start, phone, phoneAgain, tv, lamp, desk, elsewhere, x1, x2, x3

ShopListings == {a1, a2, b1, c1, d1, home, start}
ShopUrls == {phone, phoneAgain, tv, lamp, desk, elsewhere}
ShopLeafUrls ==
    (x1 :> <<tv, phone, lamp>> @@ x2 :> <<phoneAgain, tv>> @@ x3 :> <<tv, elsewhere, lamp>>)
ShopOthers == {x1, x2, x3} \cup ({"graph"} \X ShopUrls)
ShopPath == [l \in ShopListings |-> IF l = a2 THEN a1 ELSE l]
ShopLinks == (a1 :> <<tv, phone>> @@ a2 :> <<>> @@ b1 :> <<phoneAgain>>
              @@ c1 :> <<elsewhere>> @@ d1 :> <<phone>> @@ home :> <<phone, phoneAgain, tv>>
              @@ start :> <<tv>>)
ShopSubs == [l \in ShopListings |-> CASE l = a1 -> <<b1>> [] l = b1 -> <<c1>> [] OTHER -> <<>>]
ShopNext == [l \in ShopListings |-> CASE l = a1 -> a2 [] l = c1 -> c1 [] OTHER -> None]
ShopIds == [u \in ShopUrls |-> IF u = phoneAgain THEN phone ELSE u]
ShopRefused == {elsewhere}
ShopGraph == [u \in ShopUrls |-> CASE u = tv -> <<lamp, desk>> [] u = phone -> <<desk>> [] OTHER -> <<>>]
ShopLimit == [q \in {"framework", "own"} |-> 1]

Categories ==
    [discovery |-> "categories", seeds |-> <<a1, b1, c1>>, sitemap |-> <<>>, leaves |-> <<>>,
     drains |-> <<"framework">>, others |-> <<>>, errback |-> <<>>,
     failures |-> 1, numbered |-> TRUE, hydrates |-> FALSE, browsing |-> {"graph"} \X ShopUrls,
     budget |-> [total |-> 3, listing |-> 2, product |-> 2, browser |-> 0]]

Texnomart ==
    [Categories EXCEPT !.discovery = "sitemap", !.drains = <<"own", "framework">>,
                       !.errback = <<"own">>, !.seeds = <<home>>,
                       !.sitemap = <<tv, phone, phoneAgain, lamp, tv>>]
TexnomartHybrid ==
    [Texnomart EXCEPT !.seeds = <<home, b1>>]
Mediapark ==
    [Categories EXCEPT !.discovery = "leaves", !.seeds = <<home>>, !.leaves = <<x1, x2>>,
                       !.budget = [total |-> 3, listing |-> 1, product |-> 2, browser |-> 0]]
MediaparkHybrid ==
    [Mediapark EXCEPT !.seeds = <<start, home>>, !.leaves = <<x2, x1>>,
                      !.budget = [total |-> 4, listing |-> 2, product |-> 2, browser |-> 0]]
MediaparkRefused == [Mediapark EXCEPT !.leaves = <<x3>>]
Uzum ==
    [Categories EXCEPT !.discovery = "graph", !.seeds = <<home>>,
                       !.drains = <<"expand", "graph", "own", "framework">>,
                       !.others = <<"links", "graph", "own">>, !.hydrates = TRUE, !.numbered = FALSE,
                       !.budget = [total |-> 4, listing |-> 2, product |-> 2, browser |-> 1]]
UzumMixed == [Uzum EXCEPT !.seeds = <<start, d1>>, !.failures = 0]
UzumPlain == [Uzum EXCEPT !.budget.browser = 0]

ShopShops ==
    {Categories, Texnomart, TexnomartHybrid, Mediapark, MediaparkHybrid, MediaparkRefused,
     Uzum, UzumMixed, UzumPlain}
=============================================================================
