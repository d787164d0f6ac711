---------------------------- MODULE Readiness ----------------------------
(***************************************************************************)
(* Production readiness: the checklist, whose items are judged by the      *)
(* files that exist, the gaps, the overall status, the gates of the phases *)
(* and the roadmap that closes the gaps.                                   *)
(*                                                                         *)
(* gone is the set of files that do not exist, stores the enabled stores.  *)
(***************************************************************************)
EXTENDS Integers, FiniteSets

(* get_default_readiness_checklist.  Every item is required.               *)
Checklist ==
    [crawl |-> {"traversal_framework", "duplicate_protection", "pagination_safety",
                "store_acceptance"},
     normalization |-> {"hybrid_payload", "typed_mapping", "confidence_suppression",
                        "low_coverage_detection"},
     crm_integration |-> {"transport", "auth", "payload_contract"},
     lifecycle |-> {"product_found_default", "fallback_policy", "lifecycle_tests"},
     batch_apply |-> {"partial_success", "retryable", "duplicate_skip"},
     replay_reconciliation |-> {"idempotency_key", "replay_safe_product_found",
                                "reconciliation"},
     observability |-> {"structured_traces", "batch_traces", "etl_export",
                        "failure_classification"},
     supportability |-> {"triage_summary", "runbooks", "operator_diagnostics"},
     security |-> {"redaction", "outbound_guards", "replay_abuse"},
     performance |-> {"stage_timings", "bottleneck", "resource_budgets", "cost_efficiency"},
     release_governance |-> {"contract_gates", "rollout_policy", "compatibility"},
     documentation |-> {"index", "onboarding", "store_playbooks", "ownership_map"}]

Items == UNION {Checklist[d] : d \in DOMAIN Checklist}
DomainOf(item) == CHOOSE d \in DOMAIN Checklist : item \in Checklist[d]

(* The items whose risk_if_missing is critical; the others' is high.       *)
CriticalRisk ==
    {"transport", "auth", "payload_contract", "partial_success", "idempotency_key",
     "redaction", "outbound_guards", "contract_gates"}

(* _ITEM_PATHS_READY: most items stand for a file of their own; the        *)
(* playbook of a store is the file named after it.                         *)
FilesOf(item, stores) ==
    CASE item \in {"duplicate_protection", "partial_success", "duplicate_skip"} ->
           {"sync_pipeline.py"}
      [] item \in {"transport", "retryable"} -> {"crm_http.py"}
      [] item = "pagination_safety" -> {"settings.py"}
      [] item = "replay_abuse" -> {"data_governance_logger.py", "settings.py"}
      [] item = "runbooks" -> {"support_triage.md", "runbook_registry.py"}
      [] item = "store_playbooks" -> stores
      [] OTHER -> {item}

(* _status_from_paths and _store_playbook_status *)
ItemStatus(item, gone, stores) ==
    LET files == FilesOf(item, stores)
    IN CASE files \cap gone = {} -> "ready"
         [] files # {} /\ files \subseteq gone -> "not_started"
         [] OTHER -> "partial"

-----------------------------------------------------------------------------
(* Gaps.                                                                   *)

Guarded == {"security", "crm_integration"}

(* The blocking flag of assess_readiness_gaps. *)
GapBlocks(item, status) ==
    \/ DomainOf(item) \in Guarded \/ item = "store_playbooks"
    \/ status = "not_started" /\ item \in CriticalRisk

GapSeverity(item, status) ==
    IF item \in CriticalRisk \/ (status = "not_started" /\ DomainOf(item) \in Guarded)
    THEN "critical" ELSE "high"

(* assess_readiness_gaps.  The mutant forgets what was not started.        *)
GapsOf(items, gone, stores) ==
    {[item |-> i, domain |-> DomainOf(i),
      severity |-> GapSeverity(i, ItemStatus(i, gone, stores)),
      blocking |-> GapBlocks(i, ItemStatus(i, gone, stores))] : i \in items}
GapsBegun(gone, stores) ==
    GapsOf({i \in Items : ItemStatus(i, gone, stores) = "partial"}, gone, stores)
Gaps(gone, stores) ==
    GapsOf({i \in Items : ItemStatus(i, gone, stores) # "ready"}, gone, stores)

(* compute_overall_readiness_status *)
Overall(gone, stores) ==
    IF \E g \in Gaps(gone, stores) : g.blocking THEN "blocked"
    ELSE IF Gaps(gone, stores) = {} THEN "ready"
    ELSE IF \A i \in Items : ItemStatus(i, gone, stores) = "not_started" THEN "not_started"
    ELSE "partial"

(* recommend_readiness_action *)
ReadinessAction(overall) ==
    CASE overall = "blocked" -> "fix_blockers"
      [] overall = "ready" -> "prepare_go_live"
      [] overall = "partial" -> "continue_build"
      [] OTHER -> "not_ready"

(* build_production_readiness_report *)
Report(gone, stores) ==
    LET gaps == Gaps(gone, stores)
        overall == Overall(gone, stores)
    IN [overall |-> overall, action |-> ReadinessAction(overall),
        blocking |-> Cardinality({g \in gaps : g.blocking}),
        critical |-> Cardinality({g \in gaps : g.severity = "critical"}),
        documented |-> ItemStatus("store_playbooks", gone, stores) = "ready",
        status |-> [i \in Items |-> ItemStatus(i, gone, stores)]]

(* compute_readiness_gate_flags: the release gates that hold. *)
ReadinessFlags(gone, stores) ==
    LET report == Report(gone, stores)
    IN {"report available"}
       \cup (IF report.blocking = 0 THEN {"no blocking gap", "domains not blocked"} ELSE {})
       \cup (IF report.documented THEN {"stores have evidence"} ELSE {})
       \cup (IF \A i \in {"redaction", "outbound_guards", "transport", "auth",
                          "payload_contract", "contract_gates"} : report.status[i] = "ready"
             THEN {"critical evidence"} ELSE {})

-----------------------------------------------------------------------------
(* Phases.                                                                 *)

(* _domain_worst_status: the worst of what was begun; an item that was not *)
(* started counts for less than one that is ready.                         *)
DomainStatus(report, d) ==
    LET found == {report.status[i] : i \in Checklist[d]}
    IN IF "partial" \in found THEN "partial"
       ELSE IF "ready" \in found THEN "ready" ELSE "not_started"

CanEnterPhase(report, phase) ==
    CASE phase = "foundation" -> TRUE
      [] phase = "go_live_baseline" ->
           /\ report.blocking = 0
           /\ \A d \in Guarded \cup {"crawl"} : DomainStatus(report, d) # "not_started"
      [] phase = "post_launch_hardening" ->
           report.blocking = 0 /\ report.overall \in {"ready", "partial"}
      [] phase = "scale_maturity" -> report.blocking = 0 /\ report.overall = "ready"

CanExitPhase(report, phase) ==
    CASE phase = "foundation" ->
           /\ report.blocking = 0
           /\ \A d \in Guarded \cup {"crawl"} : DomainStatus(report, d) = "ready"
      [] phase = "go_live_baseline" ->
           /\ report.overall = "ready"
           /\ \A d \in {"lifecycle", "batch_apply", "replay_reconciliation", "observability",
                        "release_governance", "documentation"} :
                DomainStatus(report, d) = "ready"
      [] phase = "post_launch_hardening" ->
           /\ report.overall = "ready"
           /\ \A d \in {"performance", "supportability"} :
                DomainStatus(report, d) # "not_started"
      [] phase = "scale_maturity" -> report.overall = "ready" /\ report.critical = 0

-----------------------------------------------------------------------------
(* The roadmap.                                                            *)

PhaseRank == [foundation |-> 0, go_live_baseline |-> 1, post_launch_hardening |-> 2,
              scale_maturity |-> 3]

(* assign_priority_for_gap *)
Priority(g) ==
    CASE g.blocking /\ g.severity = "critical" -> 0
      [] g.blocking # (g.severity = "critical") -> 1
      [] OTHER -> 2

(* assign_phase_for_gap, for severities of high and critical. *)
PhaseOf(g) ==
    CASE g.domain \in Guarded /\ (g.blocking \/ g.severity = "critical") -> "foundation"
      [] g.domain = "crawl" /\ g.blocking -> "foundation"
      [] g.domain \notin Guarded \cup {"crawl"} /\ g.blocking -> "go_live_baseline"
      [] OTHER -> "post_launch_hardening"

(* _domain_to_workstream *)
Workstream(domain) ==
    CASE domain = "batch_apply" -> "crm_integration"
      [] domain = "replay_reconciliation" -> "lifecycle"
      [] domain = "supportability" -> "support"
      [] OTHER -> domain

(* _default_seed_items: the skeleton shown while there are no gaps, each   *)
(* item waiting for the one before it; those of p0 and p1 block.           *)
Seeds ==
    LET seed(name, workstream, phase, priority, after) ==
          [code |-> <<"seed", name>>, workstream |-> workstream, phase |-> phase,
           priority |-> priority, blocking |-> priority < 2, after |-> after]
    IN {seed("security", "security", "foundation", 0, {}),
        seed("crm_transport", "crm_integration", "foundation", 0, {<<"seed", "security">>}),
        seed("observability", "observability", "go_live_baseline", 1,
             {<<"seed", "crm_transport">>}),
        seed("cost_tuning", "performance", "post_launch_hardening", 2,
             {<<"seed", "observability">>})}

(* build_default_roadmap_from_gaps: an item for the gap and another one    *)
(* for the entry of the checklist, which judges blocking for itself.       *)
(* after are the items it depends on by name.                              *)
Roadmap(gone, stores) ==
    LET gaps == Gaps(gone, stores)
        entries == {[g EXCEPT !.severity = IF g.item \in CriticalRisk THEN "critical" ELSE "high",
                              !.blocking = \/ g.item \in CriticalRisk
                                           \/ g.domain \in Guarded] : g \in gaps}
        made(from, set) ==
            {[code |-> <<from, g.item>>, workstream |-> Workstream(g.domain),
              phase |-> PhaseOf(g), priority |-> Priority(g), blocking |-> g.blocking,
              after |-> {}] : g \in set}
        items == made("gap", gaps) \cup made("checklist", entries)
    IN IF items = {} THEN Seeds ELSE items

(* build_roadmap_dependencies, as pairs of items. *)
Dependencies(items) ==
    LET at(w, p) == {i \in items : i.workstream = w /\ i.phase = p}
        foundation == {i \in items : i.phase = "foundation"}
        watched == at("observability", "go_live_baseline")
    IN (at("security", "foundation") \cup at("crawl", "foundation"))
         \X at("crm_integration", "foundation")
       \cup foundation \X watched
       \cup watched \X at("release_governance", "go_live_baseline")
       \cup at("crm_integration", "foundation") \X at("lifecycle", "go_live_baseline")
       \cup at("documentation", "go_live_baseline") \X at("support", "go_live_baseline")
       \cup {e \in items \X items : e[1].code \in e[2].after}

(* infer_critical_path: how many items the longest chain holds; chains is  *)
(* the set of those that end with an item.                                 *)
CriticalPath(items) ==
    LET edges == Dependencies(items)
        depth[i \in items] ==
            LET before == {depth[e[1]] : e \in {d \in edges : d[2] = i}}
            IN 1 + (IF before = {} THEN 0 ELSE CHOOSE n \in before : \A m \in before : m <= n)
    IN {i \in items : \A j \in items : depth[j] <= depth[i]}

(* rank_roadmap_items, as the order of two items. *)
RankedBefore(a, b) ==
    \/ a.blocking /\ ~b.blocking
    \/ a.blocking = b.blocking /\ a.priority < b.priority
    \/ /\ a.blocking = b.blocking /\ a.priority = b.priority
       /\ PhaseRank[a.phase] < PhaseRank[b.phase]

(* split_go_live_vs_post_launch, and the blockers of the roadmap. *)
GoLiveItems(items) == {i \in items : i.blocking \/ PhaseRank[i.phase] <= 1}
Blockers(items) == {i.code : i \in {j \in items : j.blocking}}
=============================================================================
