------------------------------- MODULE GoLive -------------------------------
(***************************************************************************)
(* Whether a launch may begin, from the exit criteria and the cutover      *)
(* checklist, and how it went, from the rollback triggers and the          *)
(* stabilization checkpoints.                                              *)
(*                                                                         *)
(* g is the record of the settings.  said holds what the operators         *)
(* confirmed and what they denied; stages maps the enabled stores to their *)
(* stages in the rollout summary, given says whether there is one.         *)
(***************************************************************************)
EXTENDS Readiness, Monitoring, Release

(* _bool and _b: what nobody spoke about has its default. *)
Said(said, flag, default) == flag \in said.confirmed \/ (default /\ flag \notin said.denied)

-----------------------------------------------------------------------------
(* May the launch begin.                                                   *)

(* _merge_status_with_rollout, under GO_LIVE_CANARY_ONLY_FIRST: the stores *)
(* must be on the canary stage; a disabled one is not.                     *)
AllOnCanary(stages) == \A s \in DOMAIN stages : stages[s] = "canary"

CanaryViolation(g, said, given, stages) ==
    IF "canary violation" \in said.confirmed \cup said.denied \/ ~given \/ DOMAIN stages = {}
    THEN "canary violation" \in said.confirmed
    ELSE \E s \in DOMAIN stages : stages[s] \in {"partial", "full"}

(* The scope is taken from the summary unless somebody spoke about it.     *)
CanaryScope(g, said, given, stages) ==
    IF "canary scope" \in said.confirmed \cup said.denied \/ ~given \/ DOMAIN stages = {}
    THEN "canary scope" \in said.confirmed
    ELSE AllOnCanary(stages)

(* evaluate_exit_criteria: those that are not met.  The mutant believes    *)
(* the operators about the scope and does not look at the summary.         *)
FailedCriteriaOfScope(g, report, release, said, canary) ==
    LET ready(items) == \A i \in items : report.status[i] = "ready"
        criteria ==
          [readiness |-> /\ report.overall # "blocked" /\ report.blocking = 0
                         /\ g.requireReady => report.overall = "ready",
           release_gates |-> g.requireGates => release # "block_release",
           payload_lifecycle |-> ready({"payload_contract", "lifecycle_tests"}),
           security |-> g.requireSecurity => ready(Checklist["security"]),
           observability |-> g.requireObservability
                               => ready(Checklist["observability"]) /\ g.export,
           rollout_policy |-> g.requireRollout
                                => \/ ready({"rollout_policy"})
                                   \/ Said(said, "rollout policy", FALSE),
           acceptance |-> Said(said, "store acceptance", TRUE),
           playbooks |-> g.requirePlaybooks => report.documented,
           trials |-> \A f \in {"dry run", "smoke", "contract checks"} : Said(said, f, FALSE),
           canary |-> g.canaryOnly => canary]
    IN {c \in DOMAIN criteria : ~criteria[c]}
FailedCriteriaAsSaid(g, report, release, said, given, stages) ==
    FailedCriteriaOfScope(g, report, release, said, Said(said, "canary scope", TRUE))
FailedCriteria(g, report, release, said, given, stages) ==
    FailedCriteriaOfScope(g, report, release, said,
        CanaryScope(g, said, given, stages) /\ ~CanaryViolation(g, said, given, stages))

(* build_cutover_checklist and evaluate_cutover_checklist: the blocking    *)
(* items that are open.  The anti-ban items block while one of the         *)
(* anti-ban settings is on.                                                *)
OpenCutoverItems(g, report, said, given, stages) ==
    LET canary == IF g.canaryOnly /\ given /\ DOMAIN stages # {}
                  THEN AllOnCanary(stages) \/ Said(said, "canary exception", FALSE)
                  ELSE CanaryScope(g, said, given, stages)
        done ==
          [production_config |-> Said(said, "production config", FALSE),
           parser_key |-> Said(said, "parser key", FALSE),
           rollout_scope |-> Said(said, "rollout scope", given),
           enabled_stores |-> Said(said, "enabled stores", DOMAIN stages # {}),
           canary_stage |-> g.canaryOnly => canary,
           export |-> Said(said, "export", g.export),
           trials |-> Said(said, "dry run", FALSE) /\ Said(said, "smoke", FALSE),
           report_reviewed |-> Said(said, "report reviewed", FALSE),
           antiban_preflight |-> g.antiban =>
               \A f \in {"plan reviewed", "local", "staging"} : Said(said, f, FALSE),
           antiban_drill |-> g.antiban => Said(said, "rollback drill", FALSE)]
    IN IF g.checklist THEN {i \in DOMAIN done : ~done[i]} ELSE {}

(* assess_go_live and decide_go_live *)
GoLiveDecision(g, report, release, said, given, stages) ==
    IF \/ ~g.policy
       \/ FailedCriteria(g, report, release, said, given, stages) # {}
       \/ OpenCutoverItems(g, report, said, given, stages) # {}
    THEN "no_go"
    ELSE IF report.overall = "partial" THEN "go_with_constraints" ELSE "go"

-----------------------------------------------------------------------------
(* How it went.                                                            *)

AlertCount(alerts, severity) == Cardinality({i \in DOMAIN alerts : alerts[i].severity = severity})

(* evaluate_rollback_triggers, on the rates of counters c.  The block      *)
(* pages count on canary stores alone.                                     *)
Triggers(g, c, alerts, said) ==
    LET rate == Observed(c)
        fires == [transport_apply |-> \/ AlertCount(alerts, "critical") >= 3
                                      \/ "incident" \in said.confirmed,
                  malformed |-> Over(rate["malformed"], g.limit.malformed),
                  rejected |-> Over(rate["rejected"], g.limit.rejected),
                  reconciliation |-> Over(rate["reconciliation"], g.limit.reconciliation),
                  block_page |-> /\ Over(rate["block"], g.limit.block)
                                 /\ "canary store scope" \in said.confirmed,
                  security |-> "security failed" \in said.confirmed,
                  contract_drift |-> "live drift" \in said.confirmed]
    IN IF g.triggers THEN {t \in DOMAIN fires : fires[t]} ELSE {}

CriticalTriggers == {"transport_apply", "block_page", "security", "contract_drift"}

(* evaluate_stabilization: the windows that fail. *)
FailedCheckpoints(g, c, alerts, said) ==
    LET rate == Observed(c)
        fails == [first_hours |-> \/ /\ g.blockOnCritical
                                     /\ AlertCount(alerts, "critical") > g.maxCritical
                                  \/ AlertCount(alerts, "high") > g.maxHigh
                                  \/ Under(rate["apply"], 85),
                  first_day |-> \/ Over(rate["rejected"], g.limit.rejected)
                                \/ Over(rate["reconciliation"], g.limit.reconciliation),
                  three_days |-> \/ Over(rate["malformed"], g.limit.malformed)
                                 \/ "drift suspected" \in said.confirmed]
    IN {w \in DOMAIN fails : fails[w]}

(* summarize_stabilization_state *)
LaunchOutcome(g, c, alerts, said) ==
    LET fired == Triggers(g, c, alerts, said)
    IN CASE fired \cap CriticalTriggers # {} -> "rolled_back"
         [] fired # {} /\ fired \cap CriticalTriggers = {} -> "degraded"
         [] /\ fired = {} /\ g.checkpoints
            /\ FailedCheckpoints(g, c, alerts, said) = {} -> "successful"
         [] OTHER -> "stabilizing"
=============================================================================
