------------------------------ MODULE MCAccess ------------------------------
(* Small instances of Access. *)
EXTENDS Access, TLC

CONSTANTS page, next, item, other, p1, p2

(* Two seeds, the next page of one of them and a product of it. *)
MCRequests == {page, next, item, other}
MCParent == (page :> None @@ next :> page @@ item :> page @@ other :> None)
MCProducts == {item}
MCProxies == {p1, p2}

Answer(status, signs) == [status |-> status, signs |-> signs]
Ok == Answer(200, {})
Denied == Answer(403, {})
Unavailable == Answer(503, {})
Cloudflare == Answer(200, {"cloudflare"})
Shell == Answer(200, {"scripts"})
Tiny == Answer(200, {"tiny"})
Marker == Answer(200, {"challenge marker"})
Mobile == Answer(200, {"mobile"})
OffSite == Answer(200, {"mobile", "policy"})

AllSignals == {"captcha", "cloudflare_challenge", "access_denied", "js_shell",
               "empty_shell", "transport_like_error_page"}

(* Mediapark under the default settings. *)
Mediapark ==
    [name |-> "mediapark", mode |-> "browser_fallback", supportsBrowser |-> TRUE, fallbackBrowser |-> TRUE,
     fallbackProxy |-> TRUE, requiresProxy |-> FALSE, proxyEnabled |-> TRUE,
     banSignals |-> AllSignals, playwright |-> TRUE, cleans |-> {}, forcesBrowser |-> FALSE,
     profileControl |-> TRUE, browserPolicy |-> TRUE, pool |-> TRUE, hardened |-> FALSE,
     sticky |-> FALSE, hooks |-> FALSE, solver |-> FALSE, enforced |-> FALSE,
     crawl |-> {page, other}, answers |-> {Ok, Denied, Unavailable, Cloudflare, Tiny}]

(* The same spider with the browser policy off and the hardened pool. *)
Hardened == [Mediapark EXCEPT !.browserPolicy = FALSE, !.hardened = TRUE,
                               !.answers = {Ok, Denied, Shell}]

(* Texnomart with captcha hooks, a solver and sticky proxies. *)
Texnomart ==
    [Mediapark EXCEPT !.name = "texnomart", !.cleans = {"browser", "failures"}, !.hardened = TRUE, !.sticky = TRUE,
                      !.hooks = TRUE, !.solver = TRUE, !.crawl = {page, item},
                      !.answers = @ \cup {Marker, Mobile}]

Uzum == [Mediapark EXCEPT !.name = "uzum", !.fallbackProxy = FALSE, !.forcesBrowser = TRUE,
                          !.cleans = {"browser"}, !.enforced = TRUE, !.crawl = {page, next},
                          !.answers = {Ok, Answer(429, {}), Shell, Mobile, OffSite}]

Alifshop == [Mediapark EXCEPT !.name = "alifshop", !.mode = "http_only", !.supportsBrowser = FALSE,
                              !.fallbackBrowser = FALSE, !.playwright = FALSE,
                              !.crawl = {page, next, item}, !.answers = @ \cup {Mobile}]

MCStores == {Mediapark, Hardened, Texnomart, Uzum, Alifshop}
=============================================================================
