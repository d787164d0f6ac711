---------------------------- MODULE AccessProofs ----------------------------
(***************************************************************************)
(* The access layer under the operators' office, for any requests, stores, *)
(* answers, proxies and limits: repeats are bounded, the counters of the   *)
(* budget belong to requests that are out, and no request is sent again    *)
(* through a proxy that is cooling down.                                   *)
(***************************************************************************)
EXTENDS Operations, FiniteSetTheorems, WellFoundedInduction, TLAPS

Signals == {"mobile_redirect", "captcha", "cloudflare_challenge", "access_denied",
            "transport_like_error_page", "js_shell", "empty_shell", "none"}

Meta ==
    [prior : Nat, strikes : Nat, round : Nat, times : Nat, solves : Nat, mobile : BOOLEAN,
     signal : Signals, forceBrowser : BOOLEAN, forceProxy : BOOLEAN, mode : Modes,
     browser : BOOLEAN, proxy : Proxies \cup {None}, charged : Modes]

Request == [state : {"new", "sent", "parsed", "failed"}, again : 0..AllLimits + 1, meta : Meta]

ProxyHealth == [ban : Nat, failures : Nat, cooling : BOOLEAN]

TypeOK ==
    /\ store.crawl \in SUBSET Requests
    /\ store.crawl # {} => store.forcesBrowser \in BOOLEAN
    /\ request \in [Requests -> Request]
    /\ pool \in [Proxies -> ProxyHealth]
    /\ tracker \in [{"browser", "proxy"} -> Nat]

(* Repeats of a page, by the counters in its meta, and those of the pages  *)
(* that led to it, which the meta of its parent has.                       *)
Spent(m) == m.times + m.solves + (IF m.mobile THEN 1 ELSE 0)
WithinLimits(m) ==
    m.times <= RetryTimes + m.round /\ m.round <= MaxRounds /\ m.solves <= MaxSolves
Inherited(r) == IF Parent[r] = None THEN 0 ELSE Spent(request[Parent[r]].meta)

RepeatInv ==
    \A r \in Requests :
        /\ request[r].state = "new" => request[r].again = 0
        /\ request[r].state # "new" =>
             /\ WithinLimits(request[r].meta)
             /\ Parent[r] # None => request[Parent[r]].state = "parsed"
             /\ Spent(request[r].meta) = request[r].again + Inherited(r)

(* Before the launch nothing was asked for; a pool that is not hardened    *)
(* keeps no health.                                                        *)
Free(health) == \A p \in Proxies : ~health[p].cooling
PoolInv ==
    /\ office.open => store = NoStore /\ Free(pool) /\ \A r \in Requests : request[r].state = "new"
    /\ store.hardened \/ Free(pool)

AccessInv == TypeOK /\ RepeatInv /\ PoolInv /\ TrackerMatches

-----------------------------------------------------------------------------
(* The routes of a request.                                                *)

LEMMA Limits == /\ AllLimits \in Nat /\ AllLimits = RetryTimes + MaxRounds + MaxSolves + 1
                /\ RetryTimes \in Nat /\ MaxRounds \in Nat /\ MaxSolves \in Nat
  BY AccessAssumption DEF AccessAssumption, AllLimits

LEMMA FailureMarked ==
  ASSUME NEW health \in [Proxies -> ProxyHealth], NEW p \in Proxies \cup {None}, NEW reason
  PROVE  /\ MarkFailure(health, p, reason) \in [Proxies -> ProxyHealth]
         /\ ~store.hardened => MarkFailure(health, p, reason) = health
<1>1. CASE p = None \/ ~store.hardened
  BY <1>1 DEF MarkFailure
<1>2. CASE ~(p = None \/ ~store.hardened)
  <2> DEFINE ban == health[p].ban + (IF reason \in BanLike THEN 2 ELSE 1)
             failures == health[p].failures + 1
             after == [ban |-> ban, failures |-> failures,
                       cooling |-> \/ health[p].cooling
                                   \/ ban >= BanThreshold \/ failures >= FailureLimit]
  <2>1. MarkFailure(health, p, reason) = [health EXCEPT ![p] = after]
    BY <1>2 DEF MarkFailure
  <2>2. p \in Proxies
    BY <1>2
  <2>3. ban \in Nat /\ failures \in Nat
    BY <2>2 DEF ProxyHealth
  <2> HIDE DEF ban, failures
  <2>4. after \in ProxyHealth
    BY <2>3 DEF ProxyHealth
  <2> HIDE DEF after
  <2> QED
    BY <1>2, <2>1, <2>4
<1> QED
  BY <1>1, <1>2

LEMMA SuccessMarked ==
  ASSUME NEW health \in [Proxies -> ProxyHealth], NEW p \in Proxies \cup {None}
  PROVE  /\ MarkSuccess(health, p) \in [Proxies -> ProxyHealth]
         /\ ~store.hardened => MarkSuccess(health, p) = health
<1>1. CASE p = None \/ ~store.hardened
  BY <1>1 DEF MarkSuccess
<1>2. CASE ~(p = None \/ ~store.hardened)
  <2> DEFINE n == IF health[p].ban > 0 THEN health[p].ban - 1 ELSE 0
             after == [health[p] EXCEPT !.ban = n, !.failures = 0]
  <2>1. p \in Proxies /\ health[p] \in ProxyHealth
    BY <1>2
  <2>2. MarkSuccess(health, p) = [health EXCEPT ![p] = after]
    BY <1>2, <2>1 DEF MarkSuccess, ProxyHealth
  <2>3. n \in Nat
    BY <2>1 DEF ProxyHealth
  <2> HIDE DEF n
  <2>4. after \in ProxyHealth
    BY <2>1, <2>3 DEF ProxyHealth
  <2> HIDE DEF after
  <2> QED
    BY <1>2, <2>2, <2>4
<1> QED
  BY <1>1, <1>2

(* What an answer does to the pool. *)
LEMMA PoolMarked ==
  ASSUME TypeOK, PoolInv, NEW m \in Meta, NEW signal
  PROVE  /\ Marked(m, signal) \in [Proxies -> ProxyHealth]
         /\ store.hardened \/ Free(Marked(m, signal))
<1>1. pool \in [Proxies -> ProxyHealth] /\ m.proxy \in Proxies \cup {None}
  BY DEF TypeOK, Meta
<1>2. store.hardened \/ Free(pool)
  BY SMTT(30) DEF PoolInv
<1> QED
  BY <1>1, <1>2, FailureMarked, SuccessMarked DEF Marked

(* What the meta of a request keeps when its route is chosen. *)
SameCounters(m, n) ==
    /\ n.times = m.times /\ n.solves = m.solves /\ n.mobile = m.mobile /\ n.round = m.round
    /\ n.charged = m.charged

LEMMA RouteOf ==
  ASSUME NEW m \in Meta, NEW health \in [Proxies -> ProxyHealth], store.hardened \/ Free(health),
         NEW d, NEW route \in Routes(d, m, health)
  PROVE  /\ route.meta \in Meta /\ SameCounters(m, route.meta)
         /\ route.pool \in [Proxies -> ProxyHealth]
         /\ store.hardened \/ Free(route.pool)
         /\ route.meta.mode = "proxy" =>
              route.meta.proxy \in Proxies \ Rejected /\ ~route.pool[route.meta.proxy].cooling
<1> DEFINE free == Selectable(d, health)
           plain == [meta |-> [m EXCEPT !.mode = "plain"], pool |-> health, lease |-> lease]
<1>1. free \subseteq {p \in Proxies : ~health[p].cooling}
  BY AccessAssumption DEF AccessAssumption, Selectable, Leased, Free
<1>2. /\ plain.meta \in Meta /\ SameCounters(m, plain.meta) /\ plain.meta.mode = "plain"
      /\ plain.pool = health
  BY DEF Meta, Modes, SameCounters
<1>3. CASE route = plain
  BY <1>2, <1>3
<1>4. CASE route = [plain EXCEPT !.meta = [m EXCEPT !.mode = "browser", !.browser = TRUE]]
  BY <1>2, <1>4 DEF Meta, Modes, SameCounters
<1>5. ASSUME NEW p \in free, p \in Rejected,
             route = [plain EXCEPT !.pool = MarkFailure(health, p, "proxy_rejected"),
                                   !.lease = LeaseAfter(d, p, free)]
      PROVE  /\ route.meta = plain.meta /\ route.pool = MarkFailure(health, p, "proxy_rejected")
  BY <1>5
<1>6. ASSUME NEW p \in free, p \notin Rejected,
             route = [plain EXCEPT !.meta = [m EXCEPT !.mode = "proxy", !.proxy = p],
                                   !.lease = LeaseAfter(d, p, free)]
      PROVE  /\ route.meta = [m EXCEPT !.mode = "proxy", !.proxy = p] /\ route.pool = health
  BY <1>6
<1>7. \/ route = plain
      \/ route = [plain EXCEPT !.meta = [m EXCEPT !.mode = "browser", !.browser = TRUE]]
      \/ \E p \in free :
           \/ /\ p \in Rejected
              /\ route = [plain EXCEPT !.pool = MarkFailure(health, p, "proxy_rejected"),
                                       !.lease = LeaseAfter(d, p, free)]
           \/ /\ p \notin Rejected
              /\ route = [plain EXCEPT !.meta = [m EXCEPT !.mode = "proxy", !.proxy = p],
                                       !.lease = LeaseAfter(d, p, free)]
  BY DEF Routes, RoutesFrom
<1> HIDE DEF free
<1>8. ASSUME NEW p \in free, p \in Rejected,
             route = [plain EXCEPT !.pool = MarkFailure(health, p, "proxy_rejected"),
                                   !.lease = LeaseAfter(d, p, free)]
      PROVE  /\ route.meta \in Meta /\ SameCounters(m, route.meta) /\ route.meta.mode = "plain"
             /\ route.pool \in [Proxies -> ProxyHealth]
             /\ store.hardened \/ Free(route.pool)
  <2>1. p \in Proxies \cup {None} /\ route.meta = plain.meta
        /\ route.pool = MarkFailure(health, p, "proxy_rejected")
    BY <1>1, <1>5, <1>8
  <2>2. /\ MarkFailure(health, p, "proxy_rejected") \in [Proxies -> ProxyHealth]
        /\ ~store.hardened => MarkFailure(health, p, "proxy_rejected") = health
    BY <2>1, FailureMarked
  <2> QED
    BY <1>2, <2>1, <2>2
<1>9. ASSUME NEW p \in free, p \notin Rejected,
             route = [plain EXCEPT !.meta = [m EXCEPT !.mode = "proxy", !.proxy = p],
                                   !.lease = LeaseAfter(d, p, free)]
      PROVE  /\ route.meta \in Meta /\ SameCounters(m, route.meta)
             /\ route.meta.proxy \in Proxies \ Rejected
             /\ route.pool = health /\ ~health[route.meta.proxy].cooling
  BY <1>1, <1>6, <1>9 DEF Meta, Modes, SameCounters
<1> HIDE DEF plain
<1> QED
  BY <1>3, <1>4, <1>7, <1>8, <1>9

-----------------------------------------------------------------------------
(* What a step does to a request and to the counters.                      *)

LEMMA SignalOf == \A a : Signal(a) \in Signals
  BY DEF Signal, HookSignal, BanSignal, Signals

(* The meta of a request that is sent again: one of its counters has gone  *)
(* up, and the limits were looked at.                                      *)
OnceMore(m, n) ==
    /\ n \in Meta /\ n.charged = m.charged
    /\ Spent(n) = Spent(m) + 1
    /\ WithinLimits(m) => WithinLimits(n)

LEMMA RetriedOnce ==
  ASSUME NEW m \in Meta, CanRetry(m)
  PROVE  OnceMore(m, Retried(m)) /\ Retried(m).round = m.round
<1>1. /\ m.times \in Nat /\ m.round \in Nat /\ m.solves \in Nat /\ m.times + 1 <= RetryTimes
  BY DEF Meta, CanRetry
<1>2. Retried(m) \in Meta
  BY <1>1 DEF Retried, Meta
<1>3. /\ Retried(m).times = m.times + 1 /\ Retried(m).round = m.round /\ Retried(m).solves = m.solves
      /\ Retried(m).mobile = m.mobile /\ Retried(m).charged = m.charged
  BY DEF Retried, Meta
<1> QED
  BY <1>1, <1>2, <1>3, Limits DEF OnceMore, Spent, WithinLimits

LEMMA ReplayedOnce ==
  ASSUME NEW m \in Meta, ~m.mobile
  PROVE  OnceMore(m, [m EXCEPT !.mobile = TRUE])
<1> DEFINE n == [m EXCEPT !.mobile = TRUE]
<1>1. m.times \in Nat /\ m.round \in Nat /\ m.solves \in Nat
  BY DEF Meta
<1>2. n \in Meta
  BY DEF Meta
<1>3. n.times = m.times /\ n.round = m.round /\ n.solves = m.solves /\ n.mobile = TRUE /\ n.charged = m.charged
  BY DEF Meta
<1> HIDE DEF n
<1>4. OnceMore(m, n)
  BY <1>1, <1>2, <1>3 DEF OnceMore, Spent, WithinLimits
<1> QED
  BY <1>4 DEF n

LEMMA SolvedOnce ==
  ASSUME NEW m \in Meta, m.solves < MaxSolves
  PROVE  OnceMore(m, [m EXCEPT !.solves = @ + 1])
<1> DEFINE n == [m EXCEPT !.solves = m.solves + 1]
<1>1. m.times \in Nat /\ m.round \in Nat /\ m.solves \in Nat
  BY DEF Meta
<1>2. n \in Meta
  BY <1>1 DEF Meta
<1>3. /\ n.times = m.times /\ n.round = m.round /\ n.solves = m.solves + 1 /\ n.mobile = m.mobile
      /\ n.charged = m.charged
  BY DEF Meta
<1> HIDE DEF n
<1>4. OnceMore(m, n)
  BY <1>1, <1>2, <1>3, Limits DEF OnceMore, Spent, WithinLimits
<1> QED
  BY <1>4 DEF n

LEMMA RoundStarted ==
  \A n \in Meta, k \in Nat, s \in Signals : [n EXCEPT !.round = k, !.signal = s] \in Meta
  BY DEF Meta

LEMMA EscalatedOnce ==
  ASSUME NEW m \in Meta, NEW a, NEW later \in Escalation(m, a)
  PROVE  OnceMore(m, later) /\ later.round = m.round + 1
<1> DEFINE signal == Signal(a)
           shell == signal \in {"js_shell", "empty_shell"}
           strikes == m.strikes + (IF shell THEN 1 ELSE 0)
           next == [Retried(m) EXCEPT !.round = m.round + 1, !.signal = signal]
           higher == [next EXCEPT !.prior = m.prior + 1]
<1>1. /\ m.times \in Nat /\ m.round \in Nat /\ m.solves \in Nat /\ m.strikes \in Nat /\ m.prior \in Nat
      /\ signal \in Signals
  BY SignalOf DEF Meta
<1>7. /\ Retried(m) \in Meta /\ Retried(m).times = m.times + 1 /\ Retried(m).round = m.round
      /\ Retried(m).solves = m.solves /\ Retried(m).mobile = m.mobile
      /\ Retried(m).charged = m.charged /\ Retried(m).prior = m.prior
  BY <1>1 DEF Meta, Retried
<1> HIDE DEF signal
<1>2. /\ next \in Meta /\ next.times = m.times + 1 /\ next.round = m.round + 1
      /\ next.solves = m.solves /\ next.mobile = m.mobile /\ next.charged = m.charged
      /\ next.prior = m.prior
  <2>1. m.round + 1 \in Nat
    BY <1>1
  <2>2. next \in Meta
    BY <1>1, <1>7, <2>1, RoundStarted
  <2> QED
    BY <1>7, <2>2 DEF Meta
<1> HIDE DEF next
<1>3. /\ higher \in Meta /\ higher.times = m.times + 1 /\ higher.round = m.round + 1
      /\ higher.solves = m.solves /\ higher.mobile = m.mobile /\ higher.charged = m.charged
  BY <1>1, <1>2 DEF Meta
<1>4. strikes \in Nat
  BY <1>1
<1>5. /\ m.round < MaxRounds
      /\ \/ later = [higher EXCEPT !.forceBrowser = TRUE, !.forceProxy = FALSE, !.strikes = 0]
         \/ later = [higher EXCEPT !.forceBrowser = FALSE, !.forceProxy = TRUE, !.strikes = strikes]
         \/ later = [next EXCEPT !.forceBrowser = FALSE, !.forceProxy = FALSE, !.strikes = strikes]
  <2>1. next.prior = m.prior /\ Retried(m).round = m.round
    BY <1>2, <1>7
  <2>2. Escalation(m, a) = EscalationWithin(m, a, MaxRounds)
    BY DEF Escalation
  <2>3. m.round < MaxRounds
    BY <1>1, <2>2, Limits DEF EscalationWithin, signal
  <2> QED
    BY <2>1, <2>2, <2>3 DEF EscalationWithin, next, signal
<1> HIDE DEF higher, strikes, shell
<1>6. ASSUME NEW from \in Meta, NEW browser \in BOOLEAN, NEW proxy \in BOOLEAN, NEW n \in Nat,
             from.times = m.times + 1, from.round = m.round + 1, from.solves = m.solves,
             from.mobile = m.mobile, from.charged = m.charged,
             later = [from EXCEPT !.forceBrowser = browser, !.forceProxy = proxy, !.strikes = n]
      PROVE  OnceMore(m, later) /\ later.round = m.round + 1
  <2>1. later \in Meta
    BY <1>6 DEF Meta
  <2>2. /\ later.times = m.times + 1 /\ later.round = m.round + 1 /\ later.solves = m.solves
        /\ later.mobile = m.mobile /\ later.charged = m.charged
    BY <1>6 DEF Meta
  <2> QED
    BY <1>1, <1>5, <2>1, <2>2, Limits DEF OnceMore, Spent, WithinLimits
<1> QED
  BY <1>2, <1>3, <1>4, <1>5, <1>6

Scheduled(r, m) ==
    /\ request[r].state = "new"
    /\ request' = [request EXCEPT ![r] = [request[r] EXCEPT !.state = "sent", !.meta = m]]
    /\ tracker' = Charge(m.charged)
    /\ m \in Meta
    /\ Parent[r] = None => Spent(m) = 0 /\ WithinLimits(m)
    /\ Parent[r] # None =>
         LET n == request[Parent[r]].meta
         IN /\ request[Parent[r]].state = "parsed"
            /\ m.times = n.times /\ m.solves = n.solves /\ m.mobile = n.mobile /\ m.round = n.round

Repeated(r, m) ==
    /\ request[r].state = "sent"
    /\ request' = [request EXCEPT ![r] =
         [request[r] EXCEPT !.again = (request[r].again + 1) % (AllLimits + 2), !.meta = m]]
    /\ tracker' = tracker
    /\ OnceMore(request[r].meta, m)

Ended(r, state) ==
    /\ request[r].state = "sent" /\ state \in {"parsed", "failed"}
    /\ request' = [request EXCEPT ![r].state = state]
    /\ tracker' = Released(request[r].meta)

PoolGood ==
    /\ store' = store
    /\ pool' \in [Proxies -> ProxyHealth] /\ (store.hardened \/ Free(pool'))

LEMMA FreshCounters == FreshMeta \in Meta /\ Spent(FreshMeta) = 0 /\ WithinLimits(FreshMeta)
<1>1. FreshMeta \in Meta
  BY DEF FreshMeta, Meta, Signals, Modes
<1> QED
  BY <1>1, Limits DEF FreshMeta, Spent, WithinLimits

LEMMA CleanedCounters == \A m \in Meta : Cleaned(m) \in Meta /\ SameCounters(m, Cleaned(m))
<1> SUFFICES ASSUME NEW m \in Meta
             PROVE  Cleaned(m) \in Meta /\ SameCounters(m, Cleaned(m))
  OBVIOUS
<1> DEFINE b == IF "browser" \in store.cleans THEN FALSE ELSE m.forceBrowser
           c == IF "browser" \in store.cleans THEN FALSE ELSE m.browser
           d == IF "failures" \in store.cleans THEN FALSE ELSE m.forceProxy
           e == IF "failures" \in store.cleans THEN 0 ELSE m.prior
           f == IF "failures" \in store.cleans THEN "none" ELSE m.signal
           n == [m EXCEPT !.forceBrowser = b, !.browser = c, !.forceProxy = d, !.prior = e,
                          !.signal = f]
<1>1. Cleaned(m) = n
  BY DEF Cleaned, Meta
<1>2. b \in BOOLEAN /\ c \in BOOLEAN /\ d \in BOOLEAN /\ e \in Nat /\ f \in Signals
  BY DEF Meta, Signals
<1> HIDE DEF b, c, d, e, f
<1>3. n \in Meta
  BY <1>2 DEF Meta
<1>4. SameCounters(m, n)
  BY DEF SameCounters, Meta
<1> QED
  BY <1>1, <1>3, <1>4

(* What a request starts with: nothing, or the counters of its parent. *)
LEMMA Started ==
  ASSUME TypeOK, NEW r \in Requests, r \in store.crawl
  PROVE  /\ StartMeta(r) \in Meta
         /\ Parent[r] = None => Spent(StartMeta(r)) = 0 /\ WithinLimits(StartMeta(r))
         /\ Parent[r] # None => SameCounters(request[Parent[r]].meta, StartMeta(r))
<1> DEFINE base == IF Parent[r] = None THEN FreshMeta
                   ELSE IF r \in Products THEN Cleaned(request[Parent[r]].meta)
                   ELSE request[Parent[r]].meta
           n == [base EXCEPT !.forceBrowser = base.forceBrowser \/ store.forcesBrowser]
<1>1. Parent[r] # None => request[Parent[r]].meta \in Meta
  BY AccessAssumption DEF AccessAssumption, TypeOK, Request
<1>2. base \in Meta
  BY <1>1, FreshCounters, CleanedCounters
<1>3. Parent[r] = None => Spent(base) = 0 /\ WithinLimits(base)
  BY FreshCounters
<1>4. Parent[r] # None => SameCounters(request[Parent[r]].meta, base)
  BY <1>1, CleanedCounters DEF SameCounters
<1>5. StartMeta(r) = IF r \in Products THEN base ELSE n
  BY DEF StartMeta
<1> HIDE DEF base
<1>6. store.forcesBrowser \in BOOLEAN /\ base.forceBrowser \in BOOLEAN
  BY <1>2 DEF TypeOK, Meta
<1>7. n \in Meta /\ SameCounters(base, n)
  BY <1>2, <1>6 DEF Meta, SameCounters
<1> HIDE DEF n
<1>8. CASE r \in Products
  BY <1>2, <1>3, <1>4, <1>5, <1>8
<1>9. CASE r \notin Products
  <2>1. StartMeta(r) = n
    BY <1>5, <1>9
  <2> QED
    BY <1>3, <1>4, <1>7, <2>1 DEF SameCounters, Spent, WithinLimits
<1> QED
  BY <1>8, <1>9

LEMMA GovernedCounters == \A m \in Meta : Governed(m) \in Meta /\ SameCounters(m, Governed(m))
<1> SUFFICES ASSUME NEW m \in Meta
             PROVE  Governed(m) \in Meta /\ SameCounters(m, Governed(m))
  OBVIOUS
<1>1. CASE Governed(m) = m
  BY <1>1 DEF SameCounters
<1>2. CASE Governed(m) = [m EXCEPT !.mode = "plain", !.browser = FALSE]
  BY <1>2 DEF SameCounters, Meta, Modes
<1>3. CASE Governed(m) = [m EXCEPT !.mode = "plain", !.proxy = None]
  BY <1>3 DEF SameCounters, Meta, Modes
<1> QED
  BY <1>1, <1>2, <1>3, Zenon DEF Governed

LEMMA Schedules ==
  ASSUME TypeOK, PoolInv, NEW r \in Requests, Schedule(r)
  PROVE  PoolGood /\ \E m \in Meta : Scheduled(r, m)
<1>1. /\ request[r].state = "new" /\ r \in store.crawl /\ store' = store
      /\ Parent[r] # None => request[Parent[r]].state = "parsed"
  BY DEF Schedule
<1>2. PICK route \in Routes("shop", StartMeta(r), pool) :
        LET m == Governed(route.meta)
        IN /\ request' = [request EXCEPT ![r] =
                [@ EXCEPT !.state = "sent", !.meta = [m EXCEPT !.charged = m.mode]]]
           /\ pool' = route.pool /\ tracker' = Charge(m.mode)
  BY DEF Schedule
<1>3. /\ StartMeta(r) \in Meta
      /\ Parent[r] = None => Spent(StartMeta(r)) = 0 /\ WithinLimits(StartMeta(r))
      /\ Parent[r] # None => SameCounters(request[Parent[r]].meta, StartMeta(r))
  BY <1>1, Started
<1>4. /\ route.meta \in Meta /\ SameCounters(StartMeta(r), route.meta)
      /\ route.pool \in [Proxies -> ProxyHealth] /\ (store.hardened \/ Free(route.pool))
  BY <1>3, RouteOf DEF TypeOK, PoolInv
<1> DEFINE m == Governed(route.meta)
           n == [m EXCEPT !.charged = m.mode]
<1>5. m \in Meta /\ SameCounters(route.meta, m)
  BY <1>4, GovernedCounters
<1>6. request' = [request EXCEPT ![r] = [request[r] EXCEPT !.state = "sent", !.meta = n]]
  BY <1>1, <1>2
<1>7. tracker' = Charge(m.mode)
  BY <1>2
<1> HIDE DEF m
<1>8. n \in Meta /\ n.charged = m.mode /\ n.times = m.times /\ n.solves = m.solves
      /\ n.mobile = m.mobile /\ n.round = m.round
  BY <1>5 DEF Meta
<1> HIDE DEF n
<1>9. /\ n.times = StartMeta(r).times /\ n.solves = StartMeta(r).solves
      /\ n.mobile = StartMeta(r).mobile /\ n.round = StartMeta(r).round
  BY <1>4, <1>5, <1>8 DEF SameCounters
<1>10. Scheduled(r, n)
  <2>1. Parent[r] = None => Spent(n) = 0 /\ WithinLimits(n)
    BY <1>3, <1>9 DEF Spent, WithinLimits
  <2>2. Parent[r] # None =>
          LET p == request[Parent[r]].meta
          IN /\ request[Parent[r]].state = "parsed"
             /\ n.times = p.times /\ n.solves = p.solves /\ n.mobile = p.mobile /\ n.round = p.round
    BY <1>1, <1>3, <1>9 DEF SameCounters
  <2> QED
    BY <1>1, <1>6, <1>7, <1>8, <2>1, <2>2 DEF Scheduled
<1> QED
  BY <1>1, <1>2, <1>4, <1>8, <1>10 DEF PoolGood

(* An answer: the request goes out again, or it has ended.  One that goes  *)
(* out again in another round has a proxy that is free.                    *)
ProxyGood(m) == m.mode = "proxy" => m.proxy \notin Rejected /\ ~pool'[m.proxy].cooling
RepeatedFree(r, m) == Repeated(r, m) /\ (m.round # request[r].meta.round => ProxyGood(m))

LEMMA SentAgain ==
  ASSUME NEW r \in Requests, NEW m, request[r].state = "sent", SendAgain(r, m),
         OnceMore(request[r].meta, m)
  PROVE  Repeated(r, m) /\ store' = store
<1>1. request' = [request EXCEPT ![r] =
        [request[r] EXCEPT !.again = (request[r].again + 1) % (AllLimits + 2), !.meta = m]]
  BY DEF SendAgain
<1>2. tracker' = tracker /\ store' = store
  BY DEF SendAgain
<1> QED
  BY <1>1, <1>2 DEF Repeated

LEMMA Escalates ==
  ASSUME TypeOK, PoolInv, NEW r \in Requests, request[r].state = "sent", NEW a, Escalate(r, a)
  PROVE  PoolGood /\ \E m \in Meta : RepeatedFree(r, m)
<1> DEFINE m == request[r].meta
           health == Marked(m, Signal(a))
<1>1. m \in Meta
  BY DEF TypeOK, Request
<1>2. PICK later \in Escalation(m, a) : \E route \in Routes("unknown-domain", later, health) :
        pool' = route.pool /\ SendAgain(r, route.meta)
  BY DEF Escalate
<1>3. PICK route \in Routes("unknown-domain", later, health) : pool' = route.pool /\ SendAgain(r, route.meta)
  BY <1>2
<1>4. health \in [Proxies -> ProxyHealth] /\ (store.hardened \/ Free(health))
  BY <1>1, PoolMarked
<1> HIDE DEF m, health
<1>5. OnceMore(m, later) /\ later \in Meta
  BY <1>1, EscalatedOnce DEF OnceMore
<1>6. /\ route.meta \in Meta /\ SameCounters(later, route.meta)
      /\ route.pool \in [Proxies -> ProxyHealth] /\ (store.hardened \/ Free(route.pool))
      /\ route.meta.mode = "proxy" =>
           route.meta.proxy \in Proxies \ Rejected /\ ~route.pool[route.meta.proxy].cooling
  BY <1>4, <1>5, RouteOf
<1>7. OnceMore(m, route.meta)
  BY <1>5, <1>6 DEF OnceMore, SameCounters, Spent, WithinLimits
<1>8. Repeated(r, route.meta) /\ store' = store
  BY <1>3, <1>7, SentAgain DEF m
<1> QED
  BY <1>3, <1>6, <1>8 DEF PoolGood, RepeatedFree, ProxyGood

LEMMA Answered ==
  ASSUME TypeOK, PoolInv, NEW r \in Requests, Respond(r) \/ Disconnect(r)
  PROVE  /\ PoolGood
         /\ \/ \E m \in Meta : RepeatedFree(r, m)
            \/ \E state \in {"parsed", "failed"} : Ended(r, state)
<1> DEFINE m == request[r].meta
<1>1. m \in Meta /\ request[r].state = "sent"
  BY DEF TypeOK, Request, Respond, Disconnect
<1>2. /\ pool \in [Proxies -> ProxyHealth] /\ (store.hardened \/ Free(pool))
      /\ \A signal : /\ Marked(m, signal) \in [Proxies -> ProxyHealth]
                     /\ store.hardened \/ Free(Marked(m, signal))
  BY <1>1, PoolMarked DEF TypeOK, PoolInv
<1>3. ASSUME NEW n, OnceMore(m, n), n.round = m.round, SendAgain(r, n),
             NEW health \in [Proxies -> ProxyHealth], store.hardened \/ Free(health), pool' = health
      PROVE  PoolGood /\ \E k \in Meta : RepeatedFree(r, k)
  <2>1. Repeated(r, n) /\ store' = store
    BY <1>1, <1>3, SentAgain
  <2> QED
    BY <1>3, <2>1 DEF PoolGood, RepeatedFree, OnceMore
<1>4. ASSUME CanRetry(m), SendAgain(r, Retried(m)), NEW health \in [Proxies -> ProxyHealth],
             store.hardened \/ Free(health), pool' = health
      PROVE  PoolGood /\ \E k \in Meta : RepeatedFree(r, k)
  <2>1. OnceMore(m, Retried(m)) /\ Retried(m).round = m.round
    BY <1>1, <1>4, RetriedOnce
  <2> QED
    BY <1>3, <1>4, <2>1
<1>5. ASSUME NEW a \in store.answers, RetryStatus(r, a)
      PROVE  PoolGood /\ \E k \in Meta : RepeatedFree(r, k)
  <2>1. CanRetry(m) /\ SendAgain(r, Retried(m)) /\ pool' = pool
    BY <1>5 DEF RetryStatus, RetriesStatus
  <2> QED
    BY <1>2, <1>4, <2>1
<1>6. ASSUME NEW a \in store.answers, ReplayDesktop(r, a)
      PROVE  PoolGood /\ \E k \in Meta : RepeatedFree(r, k)
  <2>1. ~m.mobile /\ SendAgain(r, [m EXCEPT !.mobile = TRUE]) /\ pool' = pool
    BY <1>6 DEF ReplayDesktop, ReplaysDesktop
  <2>2. [m EXCEPT !.mobile = TRUE].round = m.round
    BY <1>1 DEF Meta
  <2>3. OnceMore(m, [m EXCEPT !.mobile = TRUE])
    BY <1>1, <2>1, ReplayedOnce
  <2> QED
    BY <1>2, <1>3, <2>1, <2>2, <2>3
<1>7. ASSUME NEW a \in store.answers, SolveCaptcha(r, a)
      PROVE  PoolGood /\ \E k \in Meta : RepeatedFree(r, k)
  <2>1. /\ m.solves < MaxSolves /\ SendAgain(r, [m EXCEPT !.solves = m.solves + 1])
        /\ pool' = Marked(m, Signal(a))
    BY <1>7 DEF SolveCaptcha, CanSolve
  <2>2. [m EXCEPT !.solves = m.solves + 1].round = m.round
    BY <1>1 DEF Meta
  <2>3. OnceMore(m, [m EXCEPT !.solves = m.solves + 1])
    BY <1>1, <2>1, SolvedOnce
  <2> QED
    BY <1>2, <1>3, <2>1, <2>2, <2>3
<1>8. ASSUME NEW a \in store.answers, Escalate(r, a)
      PROVE  PoolGood /\ \E k \in Meta : RepeatedFree(r, k)
  BY <1>1, <1>8, Escalates
<1>9. ASSUME NEW a \in store.answers, RetryOutside(r, a)
      PROVE  PoolGood /\ \E k \in Meta : RepeatedFree(r, k)
  <2>1. CanRetry(m) /\ SendAgain(r, Retried(m)) /\ pool' = Marked(m, Signal(a))
    BY <1>9 DEF RetryOutside, RetriesOutside
  <2> QED
    BY <1>2, <1>4, <2>1
<1>10. ASSUME NEW a \in store.answers, Deliver(r, a)
       PROVE  PoolGood /\ \E state \in {"parsed", "failed"} : Ended(r, state)
  <2>1. /\ pool' = Marked(m, Signal(a)) /\ tracker' = Released(m) /\ store' = store
        /\ request' = [request EXCEPT ![r].state = IF a.status = 200 THEN "parsed" ELSE "failed"]
    BY <1>10 DEF Deliver
  <2> QED
    BY <1>1, <1>2, <2>1 DEF PoolGood, Ended
<1>11. CASE Respond(r)
  BY <1>5, <1>6, <1>7, <1>8, <1>9, <1>10, <1>11 DEF Respond
<1>12. CASE Disconnect(r)
  <2>1. pool' = pool
    BY <1>12 DEF Disconnect
  <2>2. CASE CanRetry(m) /\ SendAgain(r, Retried(m))
    BY <1>2, <1>4, <2>1, <2>2
  <2>3. CASE /\ request' = [request EXCEPT ![r].state = "failed"]
             /\ tracker' = Released(m) /\ store' = store
    BY <1>1, <1>2, <2>1, <2>3 DEF PoolGood, Ended
  <2> QED
    BY <1>12, <2>2, <2>3 DEF Disconnect
<1> QED
  BY <1>11, <1>12
-----------------------------------------------------------------------------
(* The steps of the system, as far as the invariant tells them apart.      *)

Idle == UNCHANGED <<store, request, pool, tracker>> /\ (office'.open => office.open)
Launched ==
    /\ office'.open = FALSE /\ UNCHANGED <<request, pool, tracker>>
    /\ store'.crawl \in SUBSET Requests /\ store'.forcesBrowser \in BOOLEAN
    /\ office.open
RequestMoved(r) ==
    \/ \E m \in Meta : Scheduled(r, m) \/ RepeatedFree(r, m)
    \/ \E state \in {"parsed", "failed"} : Ended(r, state)
Crawled ==
    /\ ~office.open /\ office' = office /\ PoolGood
    /\ \/ UNCHANGED <<request, tracker>>
       \/ \E r \in Requests : RequestMoved(r)

LEMMA Launching == ASSUME NEW s \in Stores, office.open, Launch(s) PROVE Launched
<1>1. s \in StoreType
  BY AccessAssumption DEF AccessAssumption
<1>2. store' = Switched(office, s) /\ office' = [open |-> FALSE] /\ UNCHANGED <<request, pool, tracker>>
  BY DEF Launch
<1>3. s.crawl \in SUBSET Requests /\ s.forcesBrowser \in BOOLEAN
  BY <1>1 DEF StoreType
<1>4. Switched(office, s).crawl = s.crawl /\ Switched(office, s).forcesBrowser = s.forcesBrowser
  BY <1>1 DEF Switched, StoreType
<1> QED
  BY <1>2, <1>3, <1>4 DEF Launched

LEMMA Steps ==
  ASSUME TypeOK, PoolInv, [SystemNext]_sysvars
  PROVE  Idle \/ Launched \/ Crawled
<1>1. CASE office.open /\ Change
  <2>1. UNCHANGED vars
    BY <1>1 DEF Change, LoseFile, Withdraw, Tell, FailGate, Reshape, Count, Relist, Happens
  <2> QED
    BY <1>1, <2>1, SMTT(30) DEF vars, Idle
<1>2. CASE office.open /\ \E s \in Stores : Launch(s)
  BY <1>2, Launching
<1>3. CASE Crawl
  <2>1. office' = office /\ Next
    BY <1>3 DEF Crawl
  <2>2. ASSUME NEW p \in Proxies, CooldownEnds(p)
        PROVE  ~office.open /\ PoolGood /\ UNCHANGED <<request, tracker>>
    <3>1. /\ pool[p].cooling /\ pool' = [pool EXCEPT ![p] = [pool[p] EXCEPT !.cooling = FALSE]]
          /\ UNCHANGED <<store, request, tracker>>
      BY <2>2 DEF CooldownEnds
    <3>2. pool[p] \in ProxyHealth /\ store.hardened /\ ~office.open
      BY <3>1 DEF TypeOK, PoolInv, Free
    <3>3. [pool[p] EXCEPT !.cooling = FALSE] \in ProxyHealth
      BY <3>2 DEF ProxyHealth
    <3>4. pool' \in [Proxies -> ProxyHealth]
      BY <3>1, <3>3 DEF TypeOK
    <3> QED
      BY <3>1, <3>2, <3>4 DEF PoolGood
  <2>3. ASSUME NEW r \in Requests, RequestStep(r)
        PROVE  ~office.open /\ PoolGood /\ RequestMoved(r)
    <3>1. CASE Schedule(r)
      <4>1. ~office.open
        BY <3>1 DEF Schedule, PoolInv, NoStore
      <4> QED
        BY <3>1, <4>1, Schedules DEF RequestMoved
    <3>2. CASE Respond(r) \/ Disconnect(r)
      <4>1. ~office.open
        BY <3>2 DEF Respond, Disconnect, PoolInv
      <4> QED
        BY <3>2, <4>1, Answered DEF RequestMoved
    <3> QED
      BY <2>3, <3>1, <3>2 DEF RequestStep
  <2> QED
    BY <2>1, <2>2, <2>3 DEF Next, Crawled
<1>4. CASE UNCHANGED sysvars
  BY <1>4 DEF sysvars, vars, Idle
<1> QED
  BY <1>1, <1>2, <1>3, <1>4 DEF SystemNext
-----------------------------------------------------------------------------
(* What the forms of a step leave of the invariant.                        *)

LEMMA Spends ==
  ASSUME NEW m \in Meta
  PROVE  /\ Spent(m) \in Nat
         /\ WithinLimits(m) => Spent(m) <= AllLimits
<1>1. m.times \in Nat /\ m.round \in Nat /\ m.solves \in Nat
  BY DEF Meta
<1> QED
  BY <1>1, Limits DEF Spent, WithinLimits

LEMMA InheritedNat == ASSUME TypeOK, NEW r \in Requests PROVE Inherited(r) \in Nat
<1>1. Parent[r] # None => request[Parent[r]].meta \in Meta
  BY AccessAssumption DEF AccessAssumption, TypeOK, Request
<1> QED
  BY <1>1, Spends DEF Inherited

(* How request r may have moved, fields only. *)
Moved(r) ==
    /\ request'[r] \in Request /\ \A q \in Requests \ {r} : request'[q] = request[q]
    /\ request' \in [Requests -> Request]

LEMMA ScheduledFields ==
  ASSUME TypeOK, NEW r \in Requests, NEW m \in Meta, Scheduled(r, m)
  PROVE  /\ Moved(r) /\ request'[r].state = "sent" /\ request'[r].again = request[r].again
         /\ request'[r].meta = m
<1> DEFINE f == [request[r] EXCEPT !.state = "sent", !.meta = m]
<1>1. request[r] \in Request /\ request' = [request EXCEPT ![r] = f]
  BY DEF Scheduled, TypeOK
<1>2. f \in Request /\ f.state = "sent" /\ f.again = request[r].again /\ f.meta = m
  BY <1>1 DEF Request
<1> HIDE DEF f
<1> QED
  BY <1>1, <1>2 DEF Moved, TypeOK

LEMMA RepeatedFields ==
  ASSUME TypeOK, NEW r \in Requests, NEW m \in Meta, Repeated(r, m),
         request[r].again <= AllLimits
  PROVE  /\ Moved(r) /\ request'[r].state = "sent" /\ request'[r].again = request[r].again + 1
         /\ request'[r].meta = m
<1> DEFINE n == (request[r].again + 1) % (AllLimits + 2)
           f == [request[r] EXCEPT !.again = n, !.meta = m]
<1>1. request[r] \in Request /\ request' = [request EXCEPT ![r] = f] /\ request[r].state = "sent"
  BY DEF Repeated, TypeOK
<1>2. request[r].again \in Nat
  BY <1>1 DEF Request
<1>3. n = request[r].again + 1
  BY <1>2, Limits
<1>4. n \in 0..AllLimits + 1
  BY <1>2, <1>3, Limits
<1> HIDE DEF n
<1>5. f \in Request /\ f.state = "sent" /\ f.again = n /\ f.meta = m
  BY <1>1, <1>4 DEF Request
<1> HIDE DEF f
<1> QED
  BY <1>1, <1>3, <1>5 DEF Moved, TypeOK

LEMMA EndedFields ==
  ASSUME TypeOK, NEW r \in Requests, NEW state \in {"parsed", "failed"}, Ended(r, state)
  PROVE  /\ Moved(r) /\ request'[r].state = state /\ request'[r].again = request[r].again
         /\ request'[r].meta = request[r].meta
<1> DEFINE f == [request[r] EXCEPT !.state = state]
<1>1. request[r] \in Request /\ request' = [request EXCEPT ![r] = f]
  BY DEF Ended, TypeOK
<1>2. f \in Request /\ f.state = state /\ f.again = request[r].again /\ f.meta = request[r].meta
  BY <1>1 DEF Request
<1> HIDE DEF f
<1> QED
  BY <1>1, <1>2 DEF Moved, TypeOK

LEMMA AgainBounded ==
  ASSUME TypeOK, RepeatInv, NEW r \in Requests
  PROVE  request[r].again <= AllLimits
<1>1. request[r] \in Request
  BY DEF TypeOK
<1>2. CASE request[r].state = "new"
  BY <1>2, Limits DEF RepeatInv
<1>3. CASE request[r].state # "new"
  <2>1. /\ WithinLimits(request[r].meta)
        /\ Spent(request[r].meta) = request[r].again + Inherited(r)
    BY <1>3 DEF RepeatInv
  <2>2. Spent(request[r].meta) \in Nat /\ Spent(request[r].meta) <= AllLimits
    BY <1>1, <2>1, Spends DEF Request
  <2>3. request[r].again \in Nat
    BY <1>1 DEF Request
  <2> QED
    BY <2>1, <2>2, <2>3, InheritedNat, Limits
<1> QED
  BY <1>2, <1>3

(* A request that has not been parsed has no children that went out, so    *)
(* when it moves, what the others inherit stays.                           *)
LEMMA OthersKeep ==
  ASSUME RepeatInv, NEW r \in Requests, Moved(r), request[r].state # "parsed",
         NEW q \in Requests, request[q].state # "new"
  PROVE  Parent[q] # None =>
           /\ Parent[q] # r
           /\ request'[Parent[q]] = request[Parent[q]] /\ request[Parent[q]].state = "parsed"
<1>1. Parent[q] # None => Parent[q] \in Requests /\ request[Parent[q]].state = "parsed"
  BY AccessAssumption DEF AccessAssumption, RepeatInv
<1> QED
  BY <1>1 DEF Moved

LEMMA RepeatKept ==
  ASSUME TypeOK, RepeatInv, NEW r \in Requests, Moved(r), request[r].state # "parsed",
         request'[r].state # "new", WithinLimits(request'[r].meta),
         Parent[r] # None => request[Parent[r]].state = "parsed",
         Spent(request'[r].meta) = request'[r].again + Inherited(r)
  PROVE  RepeatInv'
<1> SUFFICES ASSUME NEW q \in Requests
             PROVE  /\ request'[q].state = "new" => request'[q].again = 0
                    /\ request'[q].state # "new" =>
                         /\ WithinLimits(request'[q].meta)
                         /\ Parent[q] # None => request'[Parent[q]].state = "parsed"
                         /\ Spent(request'[q].meta) = request'[q].again + Inherited(q)'
  BY DEF RepeatInv, WithinLimits, Spent
<1>1. CASE q = r
  <2>1. Parent[r] # None => Parent[r] \in Requests \ {r} /\ request'[Parent[r]] = request[Parent[r]]
    BY AccessAssumption DEF AccessAssumption, Moved
  <2>2. Inherited(r)' = Inherited(r)
    BY <2>1 DEF Inherited, Spent
  <2> QED
    BY <1>1, <2>1, <2>2
<1>2. CASE q # r
  <2>1. request'[q] = request[q]
    BY <1>2 DEF Moved
  <2>2. CASE request[q].state = "new"
    BY <2>1, <2>2 DEF RepeatInv
  <2>3. CASE request[q].state # "new"
    <3>1. Parent[q] # None =>
            request'[Parent[q]] = request[Parent[q]] /\ request[Parent[q]].state = "parsed"
      BY <2>3, OthersKeep
    <3>2. Inherited(q)' = Inherited(q)
      BY <3>1 DEF Inherited, Spent
    <3> QED
      BY <2>1, <2>3, <3>1, <3>2 DEF RepeatInv
  <2> QED
    BY <2>2, <2>3
<1> QED
  BY <1>1, <1>2

LEMMA MovedRepeats ==
  ASSUME TypeOK, RepeatInv, NEW r \in Requests, RequestMoved(r)
  PROVE  Moved(r) /\ RepeatInv'
<1>1. request[r] \in Request
  BY DEF TypeOK
<1>2. ASSUME NEW m \in Meta, Scheduled(r, m) PROVE Moved(r) /\ RepeatInv'
  <2>1. /\ Moved(r) /\ request'[r].state = "sent" /\ request'[r].again = request[r].again
        /\ request'[r].meta = m
    BY <1>2, ScheduledFields
  <2>2. request[r].state = "new" /\ request[r].again = 0
    BY <1>2 DEF Scheduled, RepeatInv
  <2>3. Parent[r] # None => Parent[r] \in Requests /\ request[Parent[r]].state = "parsed"
    BY <1>2, AccessAssumption DEF AccessAssumption, Scheduled
  <2>4. CASE Parent[r] = None
    <3>1. WithinLimits(m) /\ Spent(m) = 0 /\ Inherited(r) = 0
      BY <1>2, <2>4 DEF Scheduled, Inherited
    <3> QED
      BY <2>1, <2>2, <2>3, <3>1, RepeatKept
  <2>5. CASE Parent[r] # None
    <3> DEFINE n == request[Parent[r]].meta
    <3>1. m.times = n.times /\ m.solves = n.solves /\ m.mobile = n.mobile /\ m.round = n.round
      BY <1>2, <2>5 DEF Scheduled
    <3>2. WithinLimits(n) /\ n \in Meta
      BY <2>3, <2>5 DEF RepeatInv, TypeOK, Request
    <3>3. WithinLimits(m) /\ Spent(m) = Spent(n)
      BY <3>1, <3>2 DEF WithinLimits, Spent
    <3>4. Spent(m) = 0 + Inherited(r)
      BY <2>5, <3>2, <3>3, Spends DEF Inherited
    <3> QED
      BY <2>1, <2>2, <2>3, <3>3, <3>4, RepeatKept
  <2> QED
    BY <2>4, <2>5
<1>3. ASSUME NEW m \in Meta, Repeated(r, m) PROVE Moved(r) /\ RepeatInv'
  <2>1. /\ Moved(r) /\ request'[r].state = "sent" /\ request'[r].again = request[r].again + 1
        /\ request'[r].meta = m
    BY <1>3, RepeatedFields, AgainBounded
  <2>2. /\ request[r].state = "sent" /\ Spent(m) = Spent(request[r].meta) + 1
        /\ WithinLimits(request[r].meta) => WithinLimits(m)
    BY <1>3 DEF Repeated, OnceMore
  <2>3. /\ WithinLimits(request[r].meta)
        /\ Parent[r] # None => request[Parent[r]].state = "parsed"
        /\ Spent(request[r].meta) = request[r].again + Inherited(r)
    BY <2>2 DEF RepeatInv
  <2>4. request[r].again \in Nat /\ Inherited(r) \in Nat
    BY <1>1, InheritedNat DEF Request
  <2>5. Spent(m) = request'[r].again + Inherited(r)
    BY <2>1, <2>2, <2>3, <2>4
  <2> QED
    BY <2>1, <2>2, <2>3, <2>5, RepeatKept
<1>4. ASSUME NEW state \in {"parsed", "failed"}, Ended(r, state) PROVE Moved(r) /\ RepeatInv'
  <2>1. /\ Moved(r) /\ request'[r].state = state /\ request'[r].again = request[r].again
        /\ request'[r].meta = request[r].meta
    BY <1>4, EndedFields
  <2>2. request[r].state = "sent"
    BY <1>4 DEF Ended
  <2>3. /\ WithinLimits(request[r].meta)
        /\ Parent[r] # None => request[Parent[r]].state = "parsed"
        /\ Spent(request[r].meta) = request[r].again + Inherited(r)
    BY <2>2 DEF RepeatInv
  <2> QED
    BY <2>1, <2>2, <2>3, RepeatKept
<1> QED
  BY <1>2, <1>3, <1>4 DEF RequestMoved, RepeatedFree

(* The requests that a browser or a proxy was charged for. *)
Out(kind) == {r \in Requests : request[r].state = "sent" /\ request[r].meta.charged = kind}

LEMMA OutFinite == \A kind : IsFiniteSet(Out(kind)) /\ Cardinality(Out(kind)) \in Nat
  BY AccessAssumption, FS_Subset, FS_CardinalityType DEF AccessAssumption, Out

LEMMA MovedTracker ==
  ASSUME TypeOK, RepeatInv, TrackerMatches, NEW r \in Requests, RequestMoved(r)
  PROVE  tracker' \in [{"browser", "proxy"} -> Nat] /\ TrackerMatches'
<1> DEFINE Kinds == {"browser", "proxy"}
<1>1. request[r] \in Request /\ tracker \in [Kinds -> Nat]
      /\ \A kind \in Kinds : tracker[kind] = Cardinality(Out(kind))
  BY DEF TypeOK, TrackerMatches, Out
<1>2. ASSUME \A kind \in Kinds : tracker'[kind] = Cardinality(Out(kind)')
      PROVE  TrackerMatches'
  BY <1>2 DEF TrackerMatches, Out
<1>3. ASSUME NEW m \in Meta, Scheduled(r, m)
      PROVE  tracker' \in [Kinds -> Nat] /\ TrackerMatches'
  <2>1. /\ Moved(r) /\ request'[r].state = "sent" /\ request'[r].meta = m
        /\ request[r].state = "new"
    BY <1>3, ScheduledFields DEF Scheduled
  <2>2. \A kind : /\ Out(kind)' = IF m.charged = kind THEN Out(kind) \cup {r} ELSE Out(kind)
                  /\ r \notin Out(kind)
    BY <2>1 DEF Out, Moved
  <2>3. tracker' = Charge(m.charged) /\ m.charged \in {"plain", "browser", "proxy"}
    BY <1>3 DEF Scheduled, Meta, Modes
  <2>4. tracker' \in [Kinds -> Nat]
        /\ \A kind \in Kinds : tracker'[kind] = IF m.charged = kind THEN tracker[kind] + 1
                                                ELSE tracker[kind]
    BY <1>1, <2>3 DEF Charge
  <2>5. \A kind \in Kinds : Cardinality(Out(kind)') = IF m.charged = kind THEN tracker[kind] + 1
                                                      ELSE tracker[kind]
    BY <1>1, <2>2, OutFinite, FS_AddElement
  <2> QED
    BY <1>2, <2>4, <2>5
<1>4. ASSUME NEW m \in Meta, Repeated(r, m)
      PROVE  tracker' \in [Kinds -> Nat] /\ TrackerMatches'
  <2>1. /\ Moved(r) /\ request'[r].state = "sent" /\ request'[r].meta = m
        /\ request[r].state = "sent" /\ m.charged = request[r].meta.charged /\ tracker' = tracker
    BY <1>4, RepeatedFields, AgainBounded DEF Repeated, OnceMore
  <2>2. \A kind : Out(kind)' = Out(kind)
    BY <2>1 DEF Out, Moved
  <2> QED
    BY <1>1, <1>2, <2>1, <2>2
<1>5. ASSUME NEW state \in {"parsed", "failed"}, Ended(r, state)
      PROVE  tracker' \in [Kinds -> Nat] /\ TrackerMatches'
  <2> DEFINE m == request[r].meta
  <2>1. /\ Moved(r) /\ request'[r].state # "sent" /\ request[r].state = "sent"
        /\ tracker' = Released(m)
    BY <1>5, EndedFields DEF Ended
  <2>2. \A kind : /\ Out(kind)' = IF m.charged = kind THEN Out(kind) \ {r} ELSE Out(kind)
                  /\ m.charged = kind => r \in Out(kind)
    BY <2>1 DEF Out, Moved
  <2>3. m.charged \in {"plain", "browser", "proxy"}
    BY <1>1 DEF Request, Meta, Modes
  <2>4. \A kind \in Kinds : m.charged = kind => Cardinality(Out(kind) \ {r}) = tracker[kind] - 1
    BY <1>1, <2>2, OutFinite, FS_RemoveElement
  <2>5. \A kind \in Kinds : Cardinality(Out(kind) \ {r}) \in Nat
    BY OutFinite, FS_RemoveElement, FS_CardinalityType
  <2>6. \A kind \in Kinds : m.charged = kind => tracker[kind] > 0
    BY <1>1, <2>4, <2>5
  <2> HIDE DEF m
  <2>7. tracker' \in [Kinds -> Nat]
        /\ \A kind \in Kinds : tracker'[kind] = IF m.charged = kind THEN tracker[kind] - 1
                                                ELSE tracker[kind]
    BY <1>1, <2>1, <2>3, <2>6 DEF Released
  <2> QED
    BY <1>1, <1>2, <2>2, <2>4, <2>7
<1> QED
  BY <1>3, <1>4, <1>5 DEF RequestMoved, RepeatedFree
-----------------------------------------------------------------------------
(* The invariant, and what it gives.                                       *)

LEMMA InitAccess == SystemInit => AccessInv
<1> SUFFICES ASSUME SystemInit PROVE AccessInv
  OBVIOUS
<1>1. /\ store = NoStore /\ tracker = [browser |-> 0, proxy |-> 0]
      /\ request = [r \in Requests |-> [state |-> "new", again |-> 0, meta |-> FreshMeta]]
      /\ pool = [p \in Proxies |-> Health]
  BY DEF SystemInit
<1>2. [state |-> "new", again |-> 0, meta |-> FreshMeta] \in Request
  BY FreshCounters, Limits DEF Request
<1>3. Health \in ProxyHealth /\ ~Health.cooling
  BY DEF Health, ProxyHealth
<1>4. tracker \in [{"browser", "proxy"} -> Nat]
  BY <1>1
<1>5. TypeOK
  BY <1>1, <1>2, <1>3, <1>4 DEF TypeOK, NoStore
<1>6. \A r \in Requests : request[r].state = "new" /\ request[r].again = 0
  BY <1>1
<1>7. Free(pool)
  BY <1>1, <1>3 DEF Free
<1>8. TrackerMatches
  <2>1. \A kind : {r \in Requests : request[r].state = "sent" /\ request[r].meta.charged = kind} = {}
    BY <1>6
  <2>2. tracker["browser"] = 0 /\ tracker["proxy"] = 0
    BY <1>1
  <2> QED
    BY <2>1, <2>2, FS_EmptySet DEF TrackerMatches
<1> QED
  BY <1>1, <1>5, <1>6, <1>7, <1>8 DEF AccessInv, RepeatInv, PoolInv

LEMMA NextAccess == AccessInv /\ [SystemNext]_sysvars => AccessInv'
<1> SUFFICES ASSUME AccessInv, [SystemNext]_sysvars PROVE AccessInv'
  OBVIOUS
<1>1. TypeOK /\ RepeatInv /\ PoolInv /\ TrackerMatches
  BY DEF AccessInv
<1>2. ASSUME request' = request PROVE RepeatInv'
  BY <1>1, <1>2 DEF RepeatInv, WithinLimits, Spent, Inherited
<1>3. ASSUME request' = request, tracker' = tracker PROVE TrackerMatches'
  BY <1>1, <1>3 DEF TrackerMatches
<1>4. CASE Idle
  <2>1. UNCHANGED <<store, request, pool, tracker>> /\ (office'.open => office.open)
    BY <1>4 DEF Idle
  <2>2. TypeOK'
    BY <1>1, <2>1 DEF TypeOK
  <2>3. PoolInv'
    BY <1>1, <2>1 DEF PoolInv, Free
  <2> QED
    BY <1>2, <1>3, <2>1, <2>2, <2>3 DEF AccessInv
<1>5. CASE Launched
  <2>1. /\ office'.open = FALSE /\ UNCHANGED <<request, pool, tracker>>
        /\ store'.crawl \in SUBSET Requests /\ store'.forcesBrowser \in BOOLEAN
        /\ office.open
    BY <1>5 DEF Launched
  <2>2. TypeOK'
    BY <1>1, <2>1 DEF TypeOK
  <2>3. PoolInv'
    BY <1>1, <2>1 DEF PoolInv, Free
  <2> QED
    BY <1>2, <1>3, <2>1, <2>2, <2>3 DEF AccessInv
<1>6. CASE Crawled
  <2>1. /\ ~office'.open /\ store' = store /\ pool' \in [Proxies -> ProxyHealth]
        /\ store.hardened \/ Free(pool')
    BY <1>6 DEF Crawled, PoolGood
  <2>2. PoolInv'
    BY <2>1 DEF PoolInv, Free
  <2>3. ASSUME request' \in [Requests -> Request], tracker' \in [{"browser", "proxy"} -> Nat]
        PROVE  TypeOK'
    BY <1>1, <2>1, <2>3 DEF TypeOK
  <2>4. CASE UNCHANGED <<request, tracker>>
    BY <1>1, <1>2, <1>3, <2>2, <2>3, <2>4 DEF AccessInv, TypeOK
  <2>5. CASE \E r \in Requests : RequestMoved(r)
    <3>1. PICK r \in Requests : RequestMoved(r)
      BY <2>5
    <3>2. Moved(r) /\ RepeatInv'
      BY <1>1, <3>1, MovedRepeats
    <3>3. tracker' \in [{"browser", "proxy"} -> Nat] /\ TrackerMatches'
      BY <1>1, <3>1, MovedTracker
    <3> QED
      BY <2>2, <2>3, <3>2, <3>3 DEF Moved, AccessInv
  <2> QED
    BY <1>6, <2>4, <2>5 DEF Crawled
<1> QED
  BY <1>1, <1>4, <1>5, <1>6, Steps

LEMMA AlwaysAccess == SystemSpec => []AccessInv
<1>1. SystemInit => AccessInv
  BY InitAccess
<1>2. AccessInv /\ [SystemNext]_sysvars => AccessInv'
  BY NextAccess
<1> QED
  BY <1>1, <1>2, PTL DEF SystemSpec

(* Whatever the office decides and the site answers, the budget's counters *)
(* of browsers and proxies are those of the requests that are out.         *)
THEOREM TrackerAlwaysMatches == SystemSpec => []TrackerMatches
<1>1. AccessInv => TrackerMatches
  BY DEF AccessInv
<1> QED
  BY <1>1, AlwaysAccess, PTL

(* A request sent again in another round through a proxy has one that is   *)
(* free, whatever its answer did to the pool.                              *)
THEOREM ProxyAlwaysFree == SystemSpec => ProxyIsFree
<1> DEFINE Freed ==
      \A r \in Requests :
         /\ request'[r].meta.round # request[r].meta.round
         /\ request'[r].state = "sent" /\ request[r].state = "sent"
         /\ request'[r].meta.mode = "proxy"
         => /\ request'[r].meta.proxy \notin Rejected
            /\ ~pool'[request'[r].meta.proxy].cooling
<1>1. AccessInv /\ [SystemNext]_sysvars => [Freed]_vars
  <2> SUFFICES ASSUME AccessInv, [SystemNext]_sysvars, NEW q \in Requests,
                      request'[q].meta.round # request[q].meta.round,
                      request'[q].state = "sent", request[q].state = "sent",
                      request'[q].meta.mode = "proxy"
               PROVE  /\ request'[q].meta.proxy \notin Rejected
                      /\ ~pool'[request'[q].meta.proxy].cooling
    OBVIOUS
  <2>1. TypeOK /\ RepeatInv /\ PoolInv
    BY DEF AccessInv
  <2>2. PICK r \in Requests : RequestMoved(r)
    BY <2>1, Steps DEF Idle, Launched, Crawled
  <2>3. Moved(r)
    BY <2>1, <2>2, MovedRepeats
  <2>4. q = r
    BY <2>3 DEF Moved
  <2>5. PICK m \in Meta : RepeatedFree(r, m)
    <3>1. ASSUME NEW m \in Meta, Scheduled(r, m) PROVE FALSE
      BY <2>4, <3>1 DEF Scheduled
    <3>2. ASSUME NEW state \in {"parsed", "failed"}, Ended(r, state) PROVE FALSE
      BY <2>1, <2>4, <3>2, EndedFields
    <3> QED
      BY <2>2, <3>1, <3>2 DEF RequestMoved
  <2>6. request'[r].meta = m
    BY <2>1, <2>5, RepeatedFields, AgainBounded DEF RepeatedFree
  <2> QED
    BY <2>4, <2>5, <2>6 DEF RepeatedFree, ProxyGood
<1> QED
  BY <1>1, AlwaysAccess, PTL DEF SystemSpec, ProxyIsFree
-----------------------------------------------------------------------------
(* The sum over a page and those that led to it.  A page's rank is above   *)
(* its parent's: there is one such sum, and what a page has if its parent  *)
(* has it, every page has.                                                 *)

(* A nonempty set of natural numbers has a least element: there is no      *)
(* infinite descent from 0..n to 0..m among the finite sets.               *)
LEMMA LeastNumber == \A S \in SUBSET Nat : S # {} => \E m \in S : \A k \in S : m <= k
<1> SUFFICES ASSUME NEW S \in SUBSET Nat, S # {} PROVE \E m \in S : \A k \in S : m <= k
  OBVIOUS
<1> DEFINE R == StrictSubsetOrdering(Nat)
           F == FiniteSubsetsOf(Nat)
           T == {0..n : n \in S}
<1>1. T \subseteq F /\ T # {}
  <2>1. \A n \in Nat : 0..n \subseteq Nat /\ IsFiniteSet(0..n)
    BY FS_Interval
  <2> QED
    BY <2>1 DEF FiniteSubsetsOf
<1>2. PICK x \in T : \A y \in T : ~(<<y, x>> \in R)
  <2>1. IsWellFoundedOn(R, F)
    BY FS_StrictSubsetOrderingWellFounded
  <2> HIDE DEF R, F, T
  <2> QED
    BY <2>1, <1>1, WFMin
<1>3. PICK m \in S : x = 0..m
  BY <1>2
<1>4. ASSUME NEW k \in S, k < m PROVE FALSE
  <2>1. <<0..k, 0..m>> \in R
    <3>1. 0..k \subseteq 0..m /\ m \in 0..m /\ m \notin 0..k
      BY <1>4
    <3>2. 0..k \in SUBSET Nat /\ 0..m \in SUBSET Nat
      OBVIOUS
    <3> QED
      BY <3>1, <3>2 DEF StrictSubsetOrdering
  <2>2. 0..k \in T
    OBVIOUS
  <2> QED
    BY <2>1, <2>2, <1>2, <1>3
<1> QED
  BY <1>4

(* A set that has a request whenever it has its parent has every request. *)
LEMMA DownTheLine ==
  ASSUME NEW S \in SUBSET Requests,
         \A r \in Requests : (Parent[r] # None => Parent[r] \in S) => r \in S
  PROVE  S = Requests
<1>1. PICK rank \in [Requests -> 0..Cardinality(Requests)] :
        \A r \in Requests : Parent[r] # None => rank[Parent[r]] < rank[r]
  BY AccessAssumption DEF AccessAssumption
<1>2. \A r \in Requests : rank[r] \in Nat
  BY <1>1, AccessAssumption, FS_CardinalityType DEF AccessAssumption
<1> DEFINE Rest == {rank[r] : r \in Requests \ S}
<1> SUFFICES ASSUME Requests \ S # {} PROVE FALSE
  OBVIOUS
<1>3. Rest \in SUBSET Nat /\ Rest # {}
  BY <1>2
<1>4. PICK n \in Rest : \A k \in Rest : n <= k
  BY <1>3, LeastNumber
<1>5. PICK r \in Requests \ S : n = rank[r]
  BY <1>4
<1>6. ASSUME Parent[r] # None PROVE Parent[r] \in S
  <2>1. Parent[r] \in Requests /\ rank[Parent[r]] < rank[r]
    BY <1>1, <1>5, <1>6, AccessAssumption DEF AccessAssumption
  <2>2. rank[Parent[r]] \in Nat /\ rank[r] \in Nat
    BY <1>2, <1>5, <2>1
  <2>3. Parent[r] \notin S => rank[Parent[r]] \in Rest
    BY <2>1
  <2> QED
    BY <1>4, <1>5, <2>1, <2>2, <2>3
<1> QED
  BY <1>5, <1>6

(* Plus(again, f, r) is the sum at r, when f is the sum before it. *)
Plus(again, f, r) == again[r] + (IF Parent[r] = None THEN 0 ELSE f[Parent[r]])

LEMMA SumExists ==
  ASSUME NEW again \in [Requests -> Nat]
  PROVE  \E f \in [Requests -> Nat] : \A r \in Requests : f[r] = Plus(again, f, r)
<1>1. PICK rank \in [Requests -> 0..Cardinality(Requests)] :
        \A r \in Requests : Parent[r] # None => rank[Parent[r]] < rank[r]
  BY AccessAssumption DEF AccessAssumption
<1>2. /\ \A r \in Requests : rank[r] \in Nat /\ rank[r] <= Cardinality(Requests)
      /\ Cardinality(Requests) \in Nat
      /\ \A r \in Requests : Parent[r] # None => Parent[r] \in Requests
  BY <1>1, AccessAssumption, FS_CardinalityType DEF AccessAssumption
<1> DEFINE Below(n) == \E f \in [Requests -> Nat] :
                         \A r \in Requests : rank[r] < n => f[r] = Plus(again, f, r)
           Not == {n \in Nat : ~Below(n)}
<1>3. Below(0)
  <2>1. [r \in Requests |-> 0] \in [Requests -> Nat]
    OBVIOUS
  <2> QED
    BY <1>2, <2>1
<1>4. ASSUME NEW n \in Nat, Below(n) PROVE Below(n + 1)
  <2>1. PICK f \in [Requests -> Nat] :
          \A r \in Requests : rank[r] < n => f[r] = Plus(again, f, r)
    BY <1>4
  <2> DEFINE g == [r \in Requests |-> IF rank[r] = n THEN Plus(again, f, r) ELSE f[r]]
  <2>2. \A r \in Requests : Plus(again, f, r) \in Nat
    BY <1>2 DEF Plus
  <2>3. g \in [Requests -> Nat]
    BY <2>2
  <2>4. ASSUME NEW r \in Requests, rank[r] < n + 1 PROVE g[r] = Plus(again, g, r)
    <3>1. Parent[r] # None => Parent[r] \in Requests /\ rank[Parent[r]] < n
      BY <1>1, <1>2, <2>4
    <3>2. Parent[r] # None => g[Parent[r]] = f[Parent[r]]
      BY <1>2, <3>1
    <3>3. Plus(again, g, r) = Plus(again, f, r)
      BY <3>2 DEF Plus
    <3>4. rank[r] # n => rank[r] < n
      BY <1>2, <2>4
    <3> QED
      BY <2>1, <3>3, <3>4
  <2> QED
    BY <2>3, <2>4
<1> HIDE DEF Below
<1>5. \A n \in Nat : Below(n)
  <2> SUFFICES ASSUME Not # {} PROVE FALSE
    OBVIOUS
  <2>1. PICK n \in Not : \A k \in Not : n <= k
    BY LeastNumber
  <2>2. n # 0
    BY <1>3
  <2>3. n - 1 \in Nat /\ n - 1 \notin Not
    BY <2>1, <2>2
  <2>4. Below(n - 1)
    BY <2>3
  <2>5. Below(n - 1 + 1)
    BY <1>4, <2>3, <2>4
  <2>6. n - 1 + 1 = n
    BY <2>1
  <2> QED
    BY <2>5, <2>6
<1>6. Below(Cardinality(Requests) + 1)
  BY <1>2, <1>5
<1> QED
  BY <1>2, <1>6 DEF Below

LEMMA RepeatsIsSum ==
  ASSUME NEW again \in [Requests -> Nat]
  PROVE  \A r \in Requests : Repeats(again)[r] = Plus(again, Repeats(again), r)
<1> DEFINE Around(f) == [r \in Requests |->
                        again[r] + (IF Parent[r] = None THEN 0 ELSE f[Parent[r]])]
<1>1. PICK f \in [Requests -> Nat] : \A r \in Requests : f[r] = Plus(again, f, r)
  BY SumExists
<1>2. f = Around(f)
  BY <1>1 DEF Plus
<1>3. Repeats(again) = CHOOSE g : g = Around(g)
  BY DEF Repeats
<1> HIDE DEF Around
<1>4. Repeats(again) = Around(Repeats(again))
  BY <1>2, <1>3
<1> QED
  BY <1>4 DEF Around, Plus

LEMMA InvBoundsRepeats == TypeOK /\ RepeatInv => RepeatsBounded
<1> SUFFICES ASSUME TypeOK, RepeatInv PROVE RepeatsBounded
  OBVIOUS
<1> DEFINE again == [q \in Requests |-> request[q].again]
           total == Repeats(again)
           S == {r \in Requests : /\ total[r] \in Nat /\ total[r] <= AllLimits
                                  /\ request[r].state # "new" => total[r] = Spent(request[r].meta)}
<1>1. again \in [Requests -> Nat]
  BY Limits DEF TypeOK, Request
<1>2. \A r \in Requests : total[r] = Plus(again, total, r)
  BY <1>1, RepeatsIsSum
<1>3. \A r \in Requests : again[r] = request[r].again
  OBVIOUS
<1> HIDE DEF again, total
<1>4. ASSUME NEW r \in Requests, Parent[r] # None => Parent[r] \in S PROVE r \in S
  <2>1. total[r] = request[r].again + (IF Parent[r] = None THEN 0 ELSE total[Parent[r]])
    BY <1>2, <1>3 DEF Plus
  <2>2. CASE request[r].state = "new"
    <3>1. request[r].again = 0
      BY <2>2 DEF RepeatInv
    <3> QED
      BY <1>4, <2>1, <2>2, <3>1, Limits
  <2>3. CASE request[r].state # "new"
    <3>1. /\ WithinLimits(request[r].meta)
          /\ Parent[r] # None => request[Parent[r]].state = "parsed"
          /\ Spent(request[r].meta) = request[r].again + Inherited(r)
      BY <2>3 DEF RepeatInv
    <3>2. Inherited(r) = IF Parent[r] = None THEN 0 ELSE total[Parent[r]]
      BY <1>4, <3>1 DEF Inherited
    <3>3. total[r] = Spent(request[r].meta)
      BY <2>1, <3>1, <3>2
    <3>4. Spent(request[r].meta) \in Nat /\ Spent(request[r].meta) <= AllLimits
      BY <3>1, Spends DEF TypeOK, Request
    <3> QED
      BY <3>3, <3>4
  <2> QED
    BY <2>2, <2>3
<1>5. S = Requests
  <2>1. S \in SUBSET Requests
    OBVIOUS
  <2> HIDE DEF S
  <2> QED
    BY <1>4, <2>1, DownTheLine
<1> QED
  BY <1>5 DEF RepeatsBounded, again, total

(* A page is sent again, together with those that led to it, no more often *)
(* than the limits of the middlewares allow together.                      *)
THEOREM RepeatsAlwaysBounded == SystemSpec => []RepeatsBounded
<1>1. AccessInv => RepeatsBounded
  BY InvBoundsRepeats DEF AccessInv
<1> QED
  BY <1>1, AlwaysAccess, PTL
=============================================================================
