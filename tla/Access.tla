------------------------------- MODULE Access -------------------------------
(***************************************************************************)
(* How a page is fetched: the route of a request (plain, through a proxy,  *)
(* in a browser), the proxy pool and its cooldowns, and the downloader     *)
(* middlewares that look at every answer and may send the request again.   *)
(*                                                                         *)
(* Each middleware keeps its counter in the request's meta.  A request     *)
(* sent again takes the meta with it, and so do the requests the spider    *)
(* makes from the page: the next page and the products of a listing start  *)
(* with the counters, the signal and the proxy their listing ended with.   *)
(*                                                                         *)
(* Delays are left out: they say when a request is sent, not whether.      *)
(***************************************************************************)
EXTENDS Integers, FiniteSets

CONSTANTS
    Requests,      \* the requests of one store
    Parent,        \* the request whose page a request was found on, or None
    Products,      \* those for product pages; the others are listings
    None,          \* no parent, no proxy
    Proxies,       \* PROXY_LIST_PATH, usable or not
    FirstProxy,    \* the first line of it, taken when the policy is not hardened
    Rejected,      \* proxies validate_proxy_url refuses
    Stores,        \* the stores: profile, spider, settings, and the requests
                   \* and answers of the crawl
    MaxRetryTimes, \* MAX_RETRY_TIMES of ExponentialRetryMiddleware
    RetryTimes,    \* RETRY_TIMES of the spider
    MaxRounds,     \* rounds of the access middleware, 8
    MaxSolves,     \* SCRAPY_CAPTCHA_MAX_SOLVE_ATTEMPTS
    ShellAfter,    \* SCRAPY_ACCESS_SHELL_ESCALATE_AFTER
    BrowserAfter,  \* SCRAPY_BROWSER_FALLBACK_FAILURE_THRESHOLD
    ProxyAfter,    \* SCRAPY_PROXY_FALLBACK_FAILURE_THRESHOLD
    BanThreshold,  \* SCRAPY_PROXY_BAN_SCORE_THRESHOLD
    FailureLimit,  \* SCRAPY_PROXY_MAX_CONSECUTIVE_FAILURES
    StickyUses,    \* SCRAPY_PROXY_STICKY_REQUESTS_DEFAULT
    MaxPages,      \* the browser pages of the store's budget
    MaxProxied     \* its proxied requests

Modes == {"plain", "browser", "proxy"}

(* The profile of a store, its spider and the settings of its crawl, with  *)
(* the requests and the answers of the crawl.                              *)
StoreType ==
    [name : STRING,
     mode : {"http_only", "http_with_proxy", "browser_fallback", "browser_required"},
     supportsBrowser : BOOLEAN, fallbackBrowser : BOOLEAN, fallbackProxy : BOOLEAN,
     requiresProxy : BOOLEAN, proxyEnabled : BOOLEAN, banSignals : SUBSET STRING,
     playwright : BOOLEAN, cleans : SUBSET {"browser", "failures"}, forcesBrowser : BOOLEAN,
     profileControl : BOOLEAN, browserPolicy : BOOLEAN, pool : BOOLEAN, hardened : BOOLEAN,
     sticky : BOOLEAN, hooks : BOOLEAN, solver : BOOLEAN, enforced : BOOLEAN,
     crawl : SUBSET Requests, answers : SUBSET [status : Nat, signs : SUBSET STRING]]

(* A page is found on one that was requested before it. *)
ASSUME AccessAssumption ==
    /\ IsFiniteSet(Requests) /\ None \notin Requests \cup Proxies
    /\ Products \subseteq Requests
    /\ Stores \subseteq StoreType
    /\ Parent \in [Requests -> Requests \cup {None}]
    /\ \E rank \in [Requests -> 0..Cardinality(Requests)] :
         \A r \in Requests : Parent[r] # None => rank[Parent[r]] < rank[r]
    /\ FirstProxy \in Proxies /\ Rejected \subseteq Proxies
    /\ {MaxRetryTimes, RetryTimes, MaxRounds, MaxSolves, MaxPages, MaxProxied} \subseteq Nat
    /\ {ShellAfter, BrowserAfter, ProxyAfter, BanThreshold, FailureLimit, StickyUses}
         \subseteq Nat \ {0}

VARIABLES
    store,     \* the store that is crawled
    request,   \* each request: its state and its meta
    pool,      \* _PROXY_HEALTH
    lease,     \* _STICKY_LEASES, by the domain of the URL that asked
    tracker    \* the resource tracker's counters for browsers and proxies

vars == <<store, request, pool, lease, tracker>>

-----------------------------------------------------------------------------
(* What an answer shows.                                                   *)

(* detect_ban_signal: the first of the signs wins. *)
BanSignal(a) ==
    IF "mobile" \in a.signs THEN "mobile_redirect"
    ELSE IF a.status = 403 /\ "captcha" \in a.signs THEN "captcha"
    ELSE IF "cloudflare" \in a.signs /\ a.status \in {200, 403, 503} THEN "cloudflare_challenge"
    ELSE IF "captcha" \in a.signs THEN "captcha"
    ELSE IF a.status = 403 THEN "access_denied"
    ELSE IF \/ a.status \in {502, 503, 504}
            \/ a.status = 200 /\ "error text" \in a.signs THEN "transport_like_error_page"
    ELSE IF a.status = 200 /\ "scripts" \in a.signs THEN "js_shell"
    ELSE IF a.status = 200 /\ "tiny" \in a.signs THEN "empty_shell"
    ELSE "none"

(* CaptchaSignalDetector.detect and is_captcha_related. *)
HookSignal(a) ==
    IF BanSignal(a) # "none" THEN BanSignal(a)
    ELSE IF \/ "challenge redirect" \in a.signs
            \/ "challenge marker" \in a.signs /\ a.status \in {200, 403, 429, 503}
         THEN "captcha" ELSE "none"

CaptchaRelated(a) ==
    \/ HookSignal(a) \in {"captcha", "cloudflare_challenge"}
    \/ {"challenge redirect", "challenge marker", "captcha"} \cap a.signs # {}

Signal(a) == IF store.hooks THEN HookSignal(a) ELSE BanSignal(a)

(* ExplicitBackoffEngine.classify: a 403 is not worth another try. *)
SupportedStatus == {403, 408, 429, 500, 502, 503, 504}
RetryAllowed(status) == status \in SupportedStatus \ {403}

-----------------------------------------------------------------------------
(* The proxy pool.                                                         *)

BanLike == {"captcha", "access_denied", "transport_like_error_page",
            "cloudflare_challenge", "proxy_rejected"}

(* mark_proxy_result: health is kept by the hardened policy alone.  The    *)
(* ban score is not reset when a cooldown ends.                            *)
MarkSuccess(health, p) ==
    IF p = None \/ ~store.hardened THEN health
    ELSE [health EXCEPT ![p].ban = IF @ > 0 THEN @ - 1 ELSE 0, ![p].failures = 0]

MarkFailure(health, p, reason) ==
    LET ban == health[p].ban + (IF reason \in BanLike THEN 2 ELSE 1)
        failures == health[p].failures + 1
    IN IF p = None \/ ~store.hardened THEN health
       ELSE [health EXCEPT ![p] =
               [ban |-> ban, failures |-> failures,
                cooling |-> \/ health[p].cooling
                            \/ ban >= BanThreshold \/ failures >= FailureLimit]]

(* _extract_domain: the store has one.                                     *)
Domains == {"shop", "unknown-domain"}

Leased(d, free) == lease[d].proxy \in free /\ lease[d].left > 0

(* build_proxy_meta and the selectors under it: what they may choose from. *)
(* The ranking by health and the rotation counter pick one of these; which *)
(* one is left open.                                                       *)
Selectable(d, health) ==
    LET free == {p \in Proxies : ~health[p].cooling}
    IN IF ~store.hardened THEN {FirstProxy}
       ELSE IF store.sticky /\ Leased(d, free) THEN {lease[d].proxy}
       ELSE free

(* The leases after proxy p was chosen for domain d: one use less, or a    *)
(* new one.                                                                *)
LeaseAfter(d, p, free) ==
    IF ~(store.hardened /\ store.sticky) THEN lease
    ELSE [lease EXCEPT ![d] = IF Leased(d, free) THEN [@ EXCEPT !.left = @ - 1]
                              ELSE [proxy |-> p, left |-> StickyUses - 1]]

ProxyOffered == store.pool /\ store.proxyEnabled /\ (store.fallbackProxy \/ store.requiresProxy)

-----------------------------------------------------------------------------
(* The route of a request.                                                 *)

Escalating == store.profileControl /\ store.browserPolicy

(* should_escalate_to_browser *)
EscalateToBrowser(signal, count) ==
    /\ store.playwright /\ Escalating
    /\ store.mode \notin {"http_only", "browser_required"}
    /\ store.supportsBrowser /\ store.fallbackBrowser
    /\ \/ signal = "cloudflare_challenge" /\ count >= 1
       \/ signal \in {"js_shell", "empty_shell", "cloudflare_challenge"} /\ count >= ShellAfter
       \/ signal \in store.banSignals /\ count >= BrowserAfter

(* should_escalate_to_proxy *)
EscalateToProxy(signal, count) ==
    /\ ProxyOffered /\ store.mode # "http_only" /\ ~store.requiresProxy
    /\ \/ /\ signal \in {"access_denied", "transport_like_error_page", "empty_shell", "captcha"}
          /\ count >= ProxyAfter
       \/ store.mode = "http_with_proxy" /\ count >= 1

(* should_use_browser *)
UseBrowser(m) ==
    IF store.mode = "browser_required" \/ ~Escalating
    THEN store.playwright /\ store.mode = "browser_required"
    ELSE \/ m.forceBrowser /\ store.playwright /\ store.supportsBrowser
         \/ EscalateToBrowser(m.signal, m.prior)

(* should_use_proxy *)
UseProxy(m) ==
    /\ store.proxyEnabled /\ store.pool
    /\ IF m.forceProxy THEN store.fallbackProxy \/ store.requiresProxy
       ELSE \/ store.requiresProxy
            \/ store.mode = "http_with_proxy" /\ m.prior >= ProxyAfter

(* build_request_meta: the routes meta m may get, each with the pool and   *)
(* the lease after it.  A proxy that is refused is marked and not used.    *)
(* What the meta held before is overwritten, never taken out.  No proxy is *)
(* dropped for the sake of the target: where it is known,                  *)
(* schedule_safe_request has found it to be one of the store's.            *)
RoutesFrom(d, m, health, free) ==
    LET plain == [meta |-> [m EXCEPT !.mode = "plain"], pool |-> health, lease |-> lease]
    IN IF UseBrowser(m)
       THEN {[plain EXCEPT !.meta = [m EXCEPT !.mode = "browser", !.browser = TRUE]]}
       ELSE IF store.mode = "browser_required" \/ ~UseProxy(m) \/ ~ProxyOffered \/ free = {}
       THEN {plain}
       ELSE {IF p \in Rejected
             THEN [plain EXCEPT !.pool = MarkFailure(health, p, "proxy_rejected"),
                                !.lease = LeaseAfter(d, p, free)]
             ELSE [plain EXCEPT !.meta = [m EXCEPT !.mode = "proxy", !.proxy = p],
                                !.lease = LeaseAfter(d, p, free)] : p \in free}

Routes(d, m, health) == RoutesFrom(d, m, health, Selectable(d, health))

-----------------------------------------------------------------------------
(* Scheduling.                                                             *)

FreshMeta == [prior |-> 0, strikes |-> 0, round |-> 0, times |-> 0, solves |-> 0,
              mobile |-> FALSE, signal |-> "none", forceBrowser |-> FALSE,
              forceProxy |-> FALSE, mode |-> "plain", browser |-> FALSE,
              proxy |-> None, charged |-> "plain"]

Health == [ban |-> 0, failures |-> 0, cooling |-> FALSE]

Init ==
    /\ store \in Stores
    /\ request = [r \in Requests |-> [state |-> "new", again |-> 0, meta |-> FreshMeta]]
    /\ pool = [p \in Proxies |-> Health]
    /\ lease = [d \in Domains |-> [proxy |-> None, left |-> 0]]
    /\ tracker = [browser |-> 0, proxy |-> 0]

(* schedule_product_request: a product of some stores is cleaned of a part *)
(* of its listing's meta.  The counters are not among it.                  *)
Cleaned(m) ==
    [m EXCEPT !.forceBrowser = IF "browser" \in store.cleans THEN FALSE ELSE @,
              !.browser = IF "browser" \in store.cleans THEN FALSE ELSE @,
              !.forceProxy = IF "failures" \in store.cleans THEN FALSE ELSE @,
              !.prior = IF "failures" \in store.cleans THEN 0 ELSE @,
              !.signal = IF "failures" \in store.cleans THEN "none" ELSE @]

(* The meta the spider gives to a request: a seed's is new, a next page    *)
(* and a product have their listing's.  The mutant counts from zero again. *)
StartMetaAnew(r) == [FreshMeta EXCEPT !.forceBrowser = store.forcesBrowser /\ r \notin Products]
StartMeta(r) ==
    LET base == IF Parent[r] = None THEN FreshMeta
                ELSE IF r \in Products THEN Cleaned(request[Parent[r]].meta)
                ELSE request[Parent[r]].meta
    IN IF r \in Products THEN base
       ELSE [base EXCEPT !.forceBrowser = @ \/ store.forcesBrowser]

(* apply_governance_to_request_meta: a browser or a proxy over budget is   *)
(* taken away, and the request goes without.                               *)
Governed(m) ==
    IF m.mode = "browser" /\ tracker.browser >= MaxPages
    THEN [m EXCEPT !.mode = "plain", !.browser = FALSE]
    ELSE IF m.mode = "proxy" /\ tracker.proxy >= MaxProxied
    THEN [m EXCEPT !.mode = "plain", !.proxy = None]
    ELSE m

(* record_request_scheduled_governance: what is counted is noted in the    *)
(* meta, for the release.                                                  *)
Charge(mode) ==
    IF mode = "plain" THEN tracker ELSE [tracker EXCEPT ![mode] = @ + 1]

(* release_request_governance_counters, by what was charged.  The mutant   *)
(* releases what the request used last.                                    *)
ReleasedLast(m) ==
    IF m.mode = "plain" THEN tracker
    ELSE [tracker EXCEPT ![m.mode] = IF @ > 0 THEN @ - 1 ELSE 0]
Released(m) ==
    IF m.charged = "plain" THEN tracker
    ELSE [tracker EXCEPT ![m.charged] = IF @ > 0 THEN @ - 1 ELSE 0]

(* schedule_safe_request, for a seed or from the page of the parent. *)
Schedule(r) ==
    /\ request[r].state = "new" /\ r \in store.crawl
    /\ Parent[r] # None => request[Parent[r]].state = "parsed"
    /\ \E route \in Routes("shop", StartMeta(r), pool) :
         LET m == Governed(route.meta)
         IN /\ request' = [request EXCEPT ![r] =
                 [@ EXCEPT !.state = "sent", !.meta = [m EXCEPT !.charged = m.mode]]]
            /\ pool' = route.pool /\ lease' = route.lease
            /\ tracker' = Charge(m.mode)
    /\ UNCHANGED store

-----------------------------------------------------------------------------
(* The answers, in the order the middlewares see them.                     *)

(* How often the limits let one page be sent again, all together. *)
AllLimits == RetryTimes + MaxRounds + MaxSolves + 1

(* The request is sent again with meta m.  again is history; it starts     *)
(* over after one more than all the limits.                                *)
SendAgain(r, m) ==
    /\ request' = [request EXCEPT ![r] =
         [@ EXCEPT !.again = (request[r].again + 1) % (AllLimits + 2), !.meta = m]]
    /\ UNCHANGED <<store, tracker>>

(* get_retry_request of Scrapy, which both retry middlewares use: a retry  *)
(* of the access middleware counts as one of its own.  The mutant does not *)
(* count.                                                                  *)
RetriedUncounted(m) == m
Retried(m) == [m EXCEPT !.times = @ + 1]
CanRetry(m) == m.times + 1 <= RetryTimes

(* ExponentialRetryMiddleware.process_response *)
RetriesStatus(m, status) ==
    /\ status \in {429, 503, 520, 521, 522}
    /\ m.times < MaxRetryTimes
    /\ store.enforced /\ status \in SupportedStatus => RetryAllowed(status)
    /\ CanRetry(m)

RetryStatus(r, a) ==
    /\ RetriesStatus(request[r].meta, a.status)
    /\ SendAgain(r, Retried(request[r].meta))
    /\ UNCHANGED <<pool, lease>>

(* MobileRedirectMiddleware.process_response                               *)
ReplaysDesktop(m, a) == "mobile" \in a.signs /\ ~m.mobile /\ "policy" \notin a.signs

ReplayDesktop(r, a) ==
    /\ ~RetriesStatus(request[r].meta, a.status)
    /\ ReplaysDesktop(request[r].meta, a)
    /\ SendAgain(r, [request[r].meta EXCEPT !.mobile = TRUE])
    /\ UNCHANGED <<pool, lease>>

(* The answers the access middleware gets to see. *)
ReachesAccess(r, a) ==
    ~RetriesStatus(request[r].meta, a.status) /\ ~ReplaysDesktop(request[r].meta, a)

Marked(m, signal) ==
    IF signal \in {"none", "mobile_redirect"} THEN MarkSuccess(pool, m.proxy)
    ELSE MarkFailure(pool, m.proxy, signal)

(* _run_captcha_solver, with a solver that asks for the page again; the    *)
(* one the settings can choose never does.                                 *)
CanSolve(m, a) ==
    /\ store.hooks /\ store.solver /\ CaptchaRelated(a)
    /\ Signal(a) \notin {"none", "mobile_redirect"}
    /\ m.solves < MaxSolves

SolveCaptcha(r, a) ==
    LET m == request[r].meta
    IN /\ ReachesAccess(r, a) /\ CanSolve(m, a)
       /\ pool' = Marked(m, Signal(a))
       /\ SendAgain(r, [m EXCEPT !.solves = @ + 1])
       /\ UNCHANGED lease

(* What process_response of the access middleware decides, and the meta    *)
(* _retry_with_access starts from.  The mutant has one round too many.     *)
EscalationWithin(m, a, rounds) ==
    LET signal == Signal(a)
        shell == signal \in {"js_shell", "empty_shell"}
        strikes == m.strikes + (IF shell THEN 1 ELSE 0)
        later == [Retried(m) EXCEPT !.round = @ + 1, !.signal = signal]
        higher == [later EXCEPT !.prior = @ + 1]
    IN IF signal \in {"none", "mobile_redirect"} \/ m.round >= rounds THEN {}
       ELSE IF EscalateToBrowser(signal, IF shell THEN strikes ELSE m.prior + 1)
       THEN {[higher EXCEPT !.forceBrowser = TRUE, !.forceProxy = FALSE, !.strikes = 0]}
       ELSE IF EscalateToProxy(signal, m.prior + 1)
       THEN {[higher EXCEPT !.forceBrowser = FALSE, !.forceProxy = TRUE, !.strikes = strikes]}
       ELSE IF shell /\ strikes < ShellAfter
       THEN {[later EXCEPT !.forceBrowser = FALSE, !.forceProxy = FALSE, !.strikes = strikes]}
       ELSE {}
EscalationOneMore(m, a) == EscalationWithin(m, a, MaxRounds + 1)
Escalation(m, a) == EscalationWithin(m, a, MaxRounds)

(* _retry_with_access, which does not say what the URL is.  The proxy of   *)
(* the answer is marked before the next one is chosen; the mutant chooses  *)
(* first.                                                                  *)
EscalateChoosingFirst(r, a) ==
    LET m == request[r].meta
    IN /\ ReachesAccess(r, a) /\ ~CanSolve(m, a)
       /\ \E later \in Escalation(m, a) : \E route \in Routes("unknown-domain", later, pool) :
            /\ pool' = Marked(m, Signal(a)) /\ lease' = route.lease
            /\ SendAgain(r, route.meta)
Escalate(r, a) ==
    LET m == request[r].meta
        health == Marked(m, Signal(a))
    IN /\ ReachesAccess(r, a) /\ ~CanSolve(m, a)
       /\ \E later \in Escalation(m, a) : \E route \in Routes("unknown-domain", later, health) :
            /\ pool' = route.pool /\ lease' = route.lease
            /\ SendAgain(r, route.meta)

(* Scrapy's own RetryMiddleware, further out; it was not taken out of the  *)
(* settings, and shares retry_times.                                       *)
RetriesOutside(m, status) ==
    status \in {500, 502, 503, 504, 522, 524, 408, 429} /\ CanRetry(m)

PassedOn(r, a) ==
    ReachesAccess(r, a) /\ ~CanSolve(request[r].meta, a) /\ Escalation(request[r].meta, a) = {}

RetryOutside(r, a) ==
    /\ PassedOn(r, a)
    /\ RetriesOutside(request[r].meta, a.status)
    /\ pool' = Marked(request[r].meta, Signal(a))
    /\ SendAgain(r, Retried(request[r].meta))
    /\ UNCHANGED lease

(* The answer reaches parse, or the errback when its status is an error's. *)
Deliver(r, a) ==
    /\ PassedOn(r, a)
    /\ ~RetriesOutside(request[r].meta, a.status)
    /\ pool' = Marked(request[r].meta, Signal(a))
    /\ request' = [request EXCEPT ![r].state = IF a.status = 200 THEN "parsed" ELSE "failed"]
    /\ tracker' = Released(request[r].meta)
    /\ UNCHANGED <<store, lease>>

Respond(r) ==
    /\ request[r].state = "sent"
    /\ \E a \in store.answers :
         \/ RetryStatus(r, a) \/ ReplayDesktop(r, a) \/ SolveCaptcha(r, a)
         \/ Escalate(r, a) \/ RetryOutside(r, a) \/ Deliver(r, a)

(* No answer at all: the retry middlewares look at the exception, the      *)
(* access middleware does not, and the proxy is not marked.                *)
Disconnect(r) ==
    /\ request[r].state = "sent"
    /\ \/ /\ CanRetry(request[r].meta)
          /\ SendAgain(r, Retried(request[r].meta))
       \/ /\ ~CanRetry(request[r].meta)
          /\ request' = [request EXCEPT ![r].state = "failed"]
          /\ tracker' = Released(request[r].meta)
          /\ UNCHANGED store
    /\ UNCHANGED <<pool, lease>>

(* A cooldown ends; the scores stay. *)
CooldownEnds(p) ==
    /\ pool[p].cooling
    /\ pool' = [pool EXCEPT ![p].cooling = FALSE]
    /\ UNCHANGED <<store, request, lease, tracker>>

-----------------------------------------------------------------------------

RequestStep(r) == Schedule(r) \/ Respond(r) \/ Disconnect(r)

Next ==
    \/ \E r \in Requests : RequestStep(r)
    \/ \E p \in Proxies : CooldownEnds(p)

Spec == Init /\ [][Next]_vars

(* The engine sends what is scheduled, and every download ends: with an    *)
(* answer, or with its timeout.                                            *)
Fairness == \A r \in Requests : WF_vars(RequestStep(r))

FairSpec == Spec /\ Fairness

-----------------------------------------------------------------------------
(* Properties.                                                             *)

(* How often each page and those that led to it were sent again. *)
Repeats(again) ==
    LET total[r \in Requests] ==
          again[r] + (IF Parent[r] = None THEN 0 ELSE total[Parent[r]])
    IN total

(* However the answers alternate between the middlewares, each of which    *)
(* counts in a key of its own, a page is sent again no more often than     *)
(* their limits allow together; and the limits hold for a page together    *)
(* with the pages that led to it, because the meta is handed down          *)
(* (retry_middleware, mobile_redirect_middleware, ratelimit_middleware).   *)
RepeatsBounded ==
    \A r \in Requests : Repeats([q \in Requests |-> request[q].again])[r] <= AllLimits

(* The budget counts a browser page or a proxied request as long as the    *)
(* request that was charged for it is out, whatever route its repeats take *)
(* (record_request_scheduled_governance,                                   *)
(* release_request_governance_counters).                                   *)
TrackerMatches ==
    \A kind \in {"browser", "proxy"} :
        tracker[kind] = Cardinality({r \in Requests : /\ request[r].state = "sent"
                                                      /\ request[r].meta.charged = kind})

(* A request the access middleware sends again through a proxy gets one    *)
(* that is not cooling down and was not refused, though the answer it is   *)
(* about has just changed the pool (mark_proxy_result,                     *)
(* _select_proxy_by_policy).                                               *)
ProxyIsFree ==
    [][\A r \in Requests :
         /\ request'[r].meta.round # request[r].meta.round
         /\ request'[r].state = "sent" /\ request[r].state = "sent"
         /\ request'[r].meta.mode = "proxy"
         => /\ request'[r].meta.proxy \notin Rejected
            /\ ~pool'[request'[r].meta.proxy].cooling]_vars

(* Whatever the site answers, every page that was requested is parsed or   *)
(* given up in the end.                                                    *)
RequestsEnd ==
    \A r \in Requests : request[r].state = "sent" ~> request[r].state # "sent"
=============================================================================
