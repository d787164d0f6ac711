------------------------------ MODULE Release ------------------------------
(***************************************************************************)
(* What a release is judged by: the contract of the payloads against the   *)
(* baseline, the gates, and the advice to roll a feature or a store back.  *)
(*                                                                         *)
(* A payload is a function from the paths of its fields to their types; a  *)
(* field inside another one has the path of that one as its beginning.     *)
(***************************************************************************)
EXTENDS Rollout, FiniteSets, Sequences

-----------------------------------------------------------------------------
(* The contract.                                                           *)

Leaf(path) == path[Len(path)]

(* _REQUIRED_FIELDS, _QUALITY_ID_KEYS and _ETL_BREAKING_IF_REMOVED: the    *)
(* fields whose removal breaks a surface.                                  *)
Indispensable(surface) ==
    CASE surface = "crm_payload" ->
           {"schema_version", "entity_key", "payload_hash", "source_name", "source_url",
            "event_id", "request_idempotency_key", "replay_mode", "crm_listing_id",
            "crm_product_id", "source_id", "external_ids"}
      [] surface = "lifecycle_event" ->
           {"event_type", "payload_hash", "event_id", "sent_at", "entity_key",
            "request_idempotency_key", "replay_mode", "crm_listing_id", "crm_product_id",
            "source_id", "external_ids"}
      [] surface = "etl_status" ->
           {"schema", "run_id", "current_status", "counters_summary", "errors_by_domain"}
      [] OTHER -> {"ok"}

(* is_breaking_field_change, between types; an object also breaks when its *)
(* fields are others, or one of them breaks.                               *)
TypeBreaks(a, b) == a # b /\ {a, b} # {"int", "float"}

Within(payload, path) ==
    {p \in DOMAIN payload : Len(p) > Len(path) /\ SubSeq(p, 1, Len(path)) = path}

Drifted(base, current, path) ==
    \/ TypeBreaks(base[path], current[path])
    \/ /\ base[path] = "object" /\ current[path] = "object"
       /\ \/ Within(base, path) # Within(current, path)
          \/ \E p \in Within(base, path) : TypeBreaks(base[p], current[p])

(* classify_contract_change, with _collapse_shadow_renames: shadow holds   *)
(* the registered pairs of a legacy name and its replacement.              *)
ContractChanges(surface, base, current, shadow) ==
    LET removed == DOMAIN base \ DOMAIN current
        added == DOMAIN current \ DOMAIN base
        bridged == {s \in shadow : s[1] \in removed /\ s[2] \in added}
        lost == removed \ {s[1] : s \in bridged}
        new == added \ {s[2] : s \in bridged}
        change(name, paths, level) == {[name |-> name, path |-> p, level |-> level] : p \in paths}
        vital(paths) == {p \in paths : Leaf(p) \in Indispensable(surface)}
    IN change("removed", vital(lost), "breaking")
       \cup change("removed", lost \ vital(lost), "conditional")
       \cup change("added", new, "compatible")
       \cup change("drift", {p \in DOMAIN base \cap DOMAIN current : Drifted(base, current, p)},
                   "breaking")
       \cup change("bridged", {s[1] : s \in bridged}, "conditional")
       \cup (* _suspected_rename_without_shadow *)
            (IF /\ surface = "crm_payload" /\ bridged = {}
                /\ \E p \in lost : Len(p) = 1
                /\ \E p \in new : Len(p) = 1
             THEN change("renamed", {p \in lost : Len(p) = 1}, "breaking") ELSE {})

LevelRank == [compatible |-> 0, conditional |-> 1, breaking |-> 2]

(* _aggregate_level *)
CompatibilityLevel(changes) ==
    LET levels == {c.level : c \in changes} \cup {"compatible"}
    IN CHOOSE l \in levels : \A k \in levels : LevelRank[k] <= LevelRank[l]

(* check_surface_compatibility; r.allowBreaking is                         *)
(* ALLOW_BREAKING_CHANGES_WITHOUT_GATE.                                    *)
Compatible(r, changes) == CompatibilityLevel(changes) # "breaking" \/ r.allowBreaking

(* is_additive_field_change *)
IsAdditive(base, current) ==
    /\ DOMAIN base \subseteq DOMAIN current /\ DOMAIN current # DOMAIN base
    /\ \A p \in DOMAIN base : ~Drifted(base, current, p)

(* _compare_shapes of payload_compatibility: a second opinion, which asks  *)
(* only that what was there is there, and keeps its type.                  *)
TypeKept(a, b) ==
    CASE a = "null" -> TRUE
      [] a = "float" -> b \in {"float", "int", "flag"}
      [] OTHER -> a = b

ShapeKept(base, current) ==
    \A p \in DOMAIN base : p \in DOMAIN current /\ TypeKept(base[p], current[p])

(* build_migration_plan and build_migration_readiness_report *)
Migration(r, changes) ==
    LET level == CompatibilityLevel(changes)
    IN [dual |-> level # "compatible", rollback |-> TRUE,
        recommendation |-> CASE ~Compatible(r, changes) -> "block_release"
                             [] Compatible(r, changes) /\ level = "compatible" -> "ship"
                             [] OTHER -> "staged_rollout"]

(* apply_shadow_fields: the legacy names get the values of the new ones.   *)
WithShadows(payload, shadow) ==
    LET missing == {s \in shadow : s[2] \in DOMAIN payload /\ s[1] \notin DOMAIN payload}
    IN [p \in DOMAIN payload \cup {s[1] : s \in missing} |->
          IF p \in DOMAIN payload THEN payload[p]
          ELSE payload[(CHOOSE s \in missing : s[1] = p)[2]]]

-----------------------------------------------------------------------------
(* The gates.                                                              *)

(* evaluate_release_gates: every gate is critical or high, and one nobody  *)
(* reported on has failed.                                                 *)
ReadinessGates == {"no blocking gap", "domains not blocked", "report available",
                   "stores have evidence", "critical evidence"}
ContractGates == {"payload compatibility", "core surfaces", "no unplanned breaking",
                  "migration readiness", "deprecation removal", "dual shape plan"}
TestGates == {"unit tests", "contract tests", "store acceptance", "lifecycle replay",
              "malformed responses", "mapping coverage", "golden parse"}
ReviewGates == {"cost and performance", "store efficiency", "dependencies", "anti-patterns",
                "lint report", "core imports", "required docs", "playbooks", "support docs",
                "docs coverage", "knowledge continuity"}
Gates == ReadinessGates \cup ContractGates \cup TestGates \cup ReviewGates

(* The job that runs the checks reports on the gates of the contract.      *)
ContractFlags(r, surface, base, current, shadow) ==
    LET changes == ContractChanges(surface, base, current, shadow)
    IN {"deprecation removal"}
       \cup (IF ShapeKept(base, current) THEN {"payload compatibility"} ELSE {})
       \cup (IF Compatible(r, changes) THEN {"core surfaces", "no unplanned breaking"} ELSE {})
       \cup (IF Migration(r, changes).recommendation # "block_release"
             THEN {"migration readiness"} ELSE {})
       \cup (IF Migration(r, changes).dual => r.dualPlanned THEN {"dual shape plan"} ELSE {})

(* build_release_readiness_summary: the gates that failed, and the checks  *)
(* by their category.                                                      *)
CriticalFailures(passed, failedChecks) ==
    Cardinality(Gates \ passed)
      + Cardinality(failedChecks \cap {"unit", "contract", "acceptance", "compatibility",
                                       "regression"})

(* decide_release_action *)
ReleaseAction(passed, failedChecks) ==
    CASE CriticalFailures(passed, failedChecks) > 0 -> "block_release"
      [] CriticalFailures(passed, failedChecks) = 0 /\ failedChecks # {} -> "release_with_caution"
      [] OTHER -> "release"

-----------------------------------------------------------------------------
(* Rolling back.                                                           *)

(* decide_feature_rollback: a failing store is left to the store's own     *)
(* advice.  Of the domains the registry names only these are ever an       *)
(* alert's.                                                                *)
FeatureRollback(r, feature, st) ==
    LET hints == CASE feature = "replay_reconciliation" -> {"reconciliation", "crm_apply"}
                   [] feature = "crm_http_transport" -> {"crm_apply"}
                   [] OTHER -> {}
    IN /\ r.adviseRollback /\ st.status # "failing"
       /\ \E i \in DOMAIN st.alerts :
            st.alerts[i].severity = "critical" /\ st.alerts[i].domain \in hints

(* decide_store_rollback, for the alerts of that store. *)
StoreRollback(r, st) ==
    LET critical == {i \in DOMAIN st.alerts : st.alerts[i].severity = "critical"}
        transport == {i \in critical : st.alerts[i].domain = "delivery_transport"}
    IN CASE ~r.adviseRollback -> "none"
         [] r.adviseRollback /\ Cardinality(transport) >= 2 -> "global"
         [] /\ r.adviseRollback /\ Cardinality(transport) < 2
            /\ critical # {} \/ st.status = "failing" -> "store"
         [] OTHER -> "none"

(* can_store_run *)
CanStoreRun(r, lists, status) ==
    /\ StoreStage(r.storePolicy, lists) # "disabled"
    /\ ~(status = "failing" /\ r.blockFailing)
=============================================================================
