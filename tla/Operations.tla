----------------------------- MODULE Operations -----------------------------
(***************************************************************************)
(* From the release to the crawl.  The operators look at the readiness of  *)
(* the project, the gates, the contract, the counters of the last crawls   *)
(* and the stages of the stores; the code turns them into verdicts.  When  *)
(* they say so a crawl is launched, under the switches the rollout gives   *)
(* its store: from then on it is the crawl of Access.                      *)
(*                                                                         *)
(* Nothing in the code makes a launch wait for the verdicts: the operators *)
(* of the model do what the verdicts say.  A crawl reads its settings when *)
(* it starts, so what the operators look at is dropped then.               *)
(***************************************************************************)
EXTENDS Access, GoLive

CONSTANTS
    Policies,    \* settings: of monitoring (o), rollout (r) and going live (g)
    Files,       \* files of the checklist that may be lost
    Confirmed,   \* what the operators have confirmed
    Withdrawn,   \* of it, what may be withdrawn
    Bad,         \* bad news that may come in
    HandGates,   \* gates that may fail and are not computed
    Surface,     \* the surface whose contract is watched
    Baseline,    \* its payload in the last release
    Payloads,    \* the payloads it may become
    Shadow,      \* the registered renames
    Usual,       \* the counters of a crawl that went well
    Events,      \* what may be counted besides, of each store
    Lists,       \* the rollout lists each store may be put on
    Feature,     \* the registry's entry of each feature that switches a crawl
    Bucket,      \* the hash bucket of each store for each feature
    MaxChanges   \* how much may happen before the launch

StoreNames == {s.name : s \in Stores}

(* What the operators say when something went wrong. *)
BadNews ==
    {"incident", "security failed", "live drift", "drift suspected", "canary violation",
     "canary store scope"}

ASSUME OperationsAssumption ==
    /\ MaxChanges \in Nat /\ IsFiniteSet(StoreNames)
    /\ Usual \in [Counters -> Nat]
    /\ \A s \in StoreNames : Events[s] \subseteq [Counters -> Nat]
    /\ HandGates \subseteq TestGates \cup ReviewGates
    /\ Bad \subseteq BadNews /\ Withdrawn \cap BadNews = {}
    /\ \A p \in Policies :
         /\ \A m \in ToSet(Metrics) : p.o.slo[m] \in Nat
         /\ \A m \in {"malformed", "rejected", "reconciliation", "block"} : p.g.limit[m] \in Nat
         /\ p.g.maxCritical \in Nat /\ p.g.maxHigh \in Nat
    /\ \A f \in DOMAIN Feature : Feature[f].known => Feature[f].canary

VARIABLE
    office       \* what the operators look at

sysvars == <<vars, office>>

NoStore == [crawl |-> {}]

Open(policy, lists) ==
    [open |-> TRUE, policy |-> policy, gone |-> {}, passed |-> TestGates \cup ReviewGates,
     said |-> [confirmed |-> Confirmed, denied |-> {}], payload |-> Baseline,
     counts |-> [s \in StoreNames |-> Usual], lists |-> lists, changes |-> 0]

SystemInit ==
    /\ office \in {Open(p, [s \in StoreNames |-> {"canary"}]) : p \in Policies}
    /\ store = NoStore
    /\ request = [r \in Requests |-> [state |-> "new", again |-> 0, meta |-> FreshMeta]]
    /\ pool = [p \in Proxies |-> Health]
    /\ lease = [d \in Domains |-> [proxy |-> None, left |-> 0]]
    /\ tracker = [browser |-> 0, proxy |-> 0]

-----------------------------------------------------------------------------
(* The verdicts, on what an office w shows.                                *)

StoreVerdict(w, s) == StoreStatus(w.policy.o, w.counts[s])
RunVerdict(w) == RunStatus(w.policy.o, w.counts)

StagesOf(w) == [s \in StoreNames |-> StoreStage(w.policy.r.storePolicy, w.lists[s])]

PassedGates(w) ==
    w.passed \cup ReadinessFlags(w.gone, StoreNames)
             \cup ContractFlags(w.policy.r, Surface, Baseline, w.payload, Shadow)

ReleaseVerdict(w) == ReleaseAction(PassedGates(w), {})

LaunchVerdict(w) ==
    GoLiveDecision(w.policy.g, Report(w.gone, StoreNames), ReleaseVerdict(w), w.said,
                   w.policy.g.given, StagesOf(w))

OutcomeVerdict(w, s) ==
    LaunchOutcome(w.policy.g, w.counts[s], StoreVerdict(w, s).alerts, w.said)

-----------------------------------------------------------------------------
(* What happens before a launch.                                           *)

Happens(change) ==
    /\ office.changes < MaxChanges
    /\ office' = [change EXCEPT !.changes = @ + 1]
    /\ UNCHANGED vars

LoseFile(f) == f \notin office.gone /\ Happens([office EXCEPT !.gone = @ \cup {f}])

Withdraw(flag) ==
    /\ flag \in office.said.confirmed
    /\ Happens([office EXCEPT !.said = [confirmed |-> @.confirmed \ {flag},
                                        denied |-> @.denied \cup {flag}]])

Tell(news) ==
    /\ news \notin office.said.confirmed
    /\ Happens([office EXCEPT !.said.confirmed = @ \cup {news}])

FailGate(gate) ==
    gate \in office.passed /\ Happens([office EXCEPT !.passed = @ \ {gate}])

Reshape(payload) ==
    payload # office.payload /\ Happens([office EXCEPT !.payload = payload])

(* bump_counter, by what the spider and the pipelines report. *)
Count(s, event) ==
    Happens([office EXCEPT !.counts[s] = [k \in Counters |-> @[k] + event[k]]])

Relist(s, lists) ==
    lists # office.lists[s] /\ Happens([office EXCEPT !.lists[s] = lists])

-----------------------------------------------------------------------------
(* The launch.                                                             *)

(* is_feature_enabled as the crawl asks it: for the store, no entity and   *)
(* no status.                                                              *)
SwitchOn(w, feature, s) ==
    FeatureEnabled(w.policy.r, Feature[feature],
                   [named |-> TRUE, allowed |-> TRUE, lists |-> w.lists[s]], {},
                   Bucket[s][feature])

(* The switches of a store: its settings, where the rollout lets them.     *)
Switched(w, s) ==
    [s EXCEPT !.profileControl = SwitchOn(w, "profile control", s.name),
              !.browserPolicy = SwitchOn(w, "browser policy", s.name),
              !.hardened = @ /\ SwitchOn(w, "hardening", s.name),
              !.hooks = @ /\ SwitchOn(w, "captcha hooks", s.name),
              !.enforced = @ /\ SwitchOn(w, "enforcement", s.name)]

Launch(s) ==
    /\ LaunchVerdict(office) # "no_go"
    /\ CanStoreRun(office.policy.r, office.lists[s.name], StoreVerdict(office, s.name).status)
    /\ store' = Switched(office, s)
    /\ office' = [open |-> FALSE]
    /\ UNCHANGED <<request, pool, lease, tracker>>

Crawl == Next /\ UNCHANGED office

Change ==
    \/ \E f \in Files : LoseFile(f)
    \/ \E flag \in Withdrawn : Withdraw(flag)
    \/ \E news \in Bad : Tell(news)
    \/ \E gate \in HandGates : FailGate(gate)
    \/ \E payload \in Payloads : Reshape(payload)
    \/ \E s \in StoreNames : \/ \E event \in Events[s] : Count(s, event)
                             \/ \E lists \in Lists[s] : Relist(s, lists)

SystemNext ==
    \/ office.open /\ (Change \/ \E s \in Stores : Launch(s))
    \/ Crawl

SystemSpec ==
    SystemInit /\ [][SystemNext]_sysvars
               /\ \A r \in Requests : WF_sysvars(RequestStep(r) /\ UNCHANGED office)

-----------------------------------------------------------------------------
(* Properties.                                                             *)

(* What is wrong with the payload of an office, in the eyes of both of its *)
(* judges, and what is new in it.                                          *)
Damage(w) ==
    LET kept == DOMAIN Baseline \cap DOMAIN w.payload
    IN [lost |-> DOMAIN Baseline \ DOMAIN w.payload,
        drifted |-> {p \in kept : Drifted(Baseline, w.payload, p)},
        retyped |-> {p \in kept : ~TypeKept(Baseline[p], w.payload[p])}]

New(w) == DOMAIN w.payload \ DOMAIN Baseline

Bridged(w) == {b \in Shadow : b[1] \in Damage(w).lost /\ b[2] \in New(w)}

(* A rate is no better in d than in c.  A failure of one kind may improve  *)
(* the rate of another, for there is more to divide by.                    *)
NoBetter(c, d, m) ==
    LET was == Observed(c)[m]
        is == Observed(d)[m]
    IN IF m \in {"parse", "apply", "items"} THEN is.part * was.whole <= was.part * is.whole
       ELSE was.part * is.whole <= is.part * was.whole

(* Nor is any of the rates; a number of items that is too low is no higher. *)
NoneBetter(o, c, d) ==
    \A m \in ToSet(Metrics) : (m = "items" => Breached(o, c, m)) => NoBetter(c, d, m)

(* From office w to office v something got worse and nothing better: the   *)
(* stores are on the same lists, no rate is better, of a store or of all   *)
(* of them, and the payload is no closer to the baseline than it was.      *)
(* Every other change is for the worse.                                    *)
Worse(w, v) ==
    /\ w.open /\ v.open
    /\ w.lists = v.lists /\ New(w) = New(v) /\ Bridged(w) = Bridged(v)
    /\ Damage(w).lost \subseteq Damage(v).lost
    /\ Damage(w).drifted \subseteq Damage(v).drifted
    /\ Damage(w).retyped \subseteq Damage(v).retyped
    /\ w.counts # v.counts =>
         /\ \A s \in StoreNames : NoneBetter(w.policy.o, w.counts[s], v.counts[s])
         /\ NoneBetter(w.policy.o, Merged(w.counts), Merged(v.counts))

PlaceIn(order, x) == CHOOSE i \in DOMAIN order : order[i] = x

(* The verdicts as numbers: the worse, the larger. *)
Verdicts(w) ==
    LET run == RunVerdict(w)
    IN [release |-> PlaceIn(<<"release", "release_with_caution", "block_release">>,
                            ReleaseVerdict(w)),
        launch |-> PlaceIn(<<"go", "go_with_constraints", "no_go">>, LaunchVerdict(w)),
        health |-> StatusRank[run.status],
        store |-> [s \in StoreNames |-> StatusRank[run.stores[s].status]],
        outcome |-> [s \in StoreNames |->
                       PlaceIn(<<"successful", "stabilizing", "degraded", "rolled_back">>,
                               OutcomeVerdict(w, s))]]

(* What the verdicts permit: phases to be entered and left, stores to run  *)
(* and features to be on for a store in its state of health.               *)
Permitted(w) ==
    LET report == Report(w.gone, StoreNames)
        r == w.policy.r
        status(s) == StoreVerdict(w, s).status
    IN {<<"enter", p>> : p \in {q \in DOMAIN PhaseRank : CanEnterPhase(report, q)}}
       \cup {<<"leave", p>> : p \in {q \in DOMAIN PhaseRank : CanExitPhase(report, q)}}
       \cup {<<"run", s>> : s \in {t \in StoreNames : CanStoreRun(r, w.lists[t], status(t))}}
       \cup {<<"promote", s>> : s \in {t \in StoreNames : CanPromote(r, {status(t)})}}
       \cup {f \in (DOMAIN Feature) \X StoreNames :
               FeatureEnabled(r, Feature[f[1]],
                              [named |-> TRUE, allowed |-> TRUE, lists |-> w.lists[f[2]]],
                              {status(f[2])}, Bucket[f[2]][f[1]])}

(* The blockers of the roadmap that stand for a gap or an entry of the     *)
(* checklist: the three seeded ones only stand there while there are none, *)
(* and go with the first file that is lost.                                *)
GapBlockers(gone) == {c \in Blockers(Roadmap(gone, StoreNames)) : c[1] # "seed"}

(* When something gets worse and nothing better, no verdict improves, the  *)
(* roadmap loses no blocker that stands for a gap or an entry of the       *)
(* checklist and nothing is permitted that was not: neither of the ways a  *)
(* file, a counter, a gate or a word of the operators goes through several *)
(* tables and thresholds turns a loss into a gain (readiness_policy,       *)
(* phase_policy, contract_evolution, dashboard_status, go_live_policy,     *)
(* stabilization_plan).  There are two exceptions more.  Unless each       *)
(* critical alert counts against the launch, an alert that turns from high *)
(* to critical leaves the budget of the high ones, and the outcome         *)
(* improves.  With the guard on and blockFailing off, a degraded store     *)
(* loses its sensitive features and a failing one gets them back.          *)
WorseNeverHelps ==
    [][Worse(office, office') =>
         LET before == Verdicts(office)
             after == Verdicts(office')
             r == office.policy.r
             g == office.policy.g
         IN /\ before.release <= after.release
            /\ before.launch <= after.launch
            /\ before.health <= after.health
            /\ \A s \in StoreNames :
                 /\ before.store[s] <= after.store[s]
                 /\ g.blockOnCritical /\ g.maxCritical = 0
                      => before.outcome[s] <= after.outcome[s]
            /\ GapBlockers(office.gone) \subseteq GapBlockers(office'.gone)
            /\ (r.guard => r.blockFailing) => Permitted(office') \subseteq Permitted(office)
      ]_sysvars

(* A store that is failing is acted on wherever its status is looked at,   *)
(* though the status comes from the thresholds, the alerts judge by the    *)
(* distance from them, and the advice, the triage and the stabilization    *)
(* look at one or the other (dashboard_status, rollback_advisor,           *)
(* store_control, triage_engine, stabilization_plan).                      *)
FailingIsActedOn ==
    office.open =>
      LET o == office.policy.o
          r == office.policy.r
          g == office.policy.g
          run == RunVerdict(office)
      IN \A s \in {t \in StoreNames : run.stores[t].status = "failing"} :
           LET st == run.stores[s]
           IN /\ run.status = "failing" /\ SuggestRunAction(o, run) # "continue"
              /\ SuggestStoreAction(o, st) # "continue"
              /\ r.adviseRollback => StoreRollback(r, st) # "none"
              /\ r.blockFailing => ~CanStoreRun(r, office.lists[s], st.status)
              /\ o.triage /\ (o.disableStore => o.adviseDisable) =>
                   /\ Triage(o, st).severity = "critical"
                   /\ Triage(o, st).action # "continue"
                   /\ RunTriage(o, run) # "continue"
              /\ g.blockOnCritical /\ g.maxCritical = 0 =>
                   OutcomeVerdict(office, s) # "successful"

(* A launch under GO_LIVE_CANARY_ONLY_FIRST, with the rollout summary at   *)
(* hand and nobody's word in its place, is one of canary stores, and the   *)
(* crawl gets no switch outside the canary's buckets (go_live_policy,      *)
(* exit_criteria_registry, rollout_policy_engine).                         *)
LaunchIsCanary ==
    [][/\ office.open /\ ~office'.open /\ office.policy.g.canaryOnly /\ office.policy.g.given
       /\ {"canary scope", "canary violation"}
            \cap (office.said.confirmed \cup office.said.denied) = {}
       => /\ \A s \in StoreNames : StagesOf(office)[s] = "canary"
          /\ office.policy.r.flags /\ office.policy.r.canaryRollout
               /\ office.policy.r.hashBased
             => \A switch \in DOMAIN Feature :
                  SwitchOn(office, switch, store'.name)
                    => Bucket[store'.name][switch] < office.policy.r.canaryPercentage]_sysvars
=============================================================================
