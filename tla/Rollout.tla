------------------------------ MODULE Rollout ------------------------------
(***************************************************************************)
(* Feature flags: whether a feature is on for a store and an entity, from  *)
(* the stage of the feature, the stage of the store, the health of the     *)
(* store and of the run, and the entity's hash bucket.                     *)
(***************************************************************************)
EXTENDS Integers

Stages == {"disabled", "canary", "partial", "full"}

(* _STAGE_RANK *)
Rank(stage) == CASE stage = "disabled" -> 0
                 [] stage = "canary" -> 1
                 [] stage = "partial" -> 2
                 [] OTHER -> 3

(* _narrow: a store never widens a feature. *)
WidestOf(a, b) == IF Rank(a) <= Rank(b) THEN b ELSE a
Narrow(a, b) == IF Rank(a) <= Rank(b) THEN a ELSE b

(* get_store_rollout_state: lists is how the ROLLOUT_*_STORES lists and the *)
(* policy's own switches see the store.  A store that is on several lists   *)
(* has the narrowest of them.                                               *)
StoreStage(policy, lists) ==
    IF ~policy THEN "full"
    ELSE IF "disabled" \in lists THEN "disabled"
    ELSE IF "canary" \in lists THEN "canary"
    ELSE IF "partial" \in lists THEN "partial"
    ELSE "full"

(* should_block_rollout_due_to_health; r is the policy's settings. *)
BlockedByHealth(r, health) ==
    r.guard /\ r.blockFailing /\ "failing" \in health

(* can_enable_feature_based_on_status.  The sensitive features are the     *)
(* delta events, the reconciliation and the escalation to a browser.       *)
AllowedByStatus(r, sensitive, health) ==
    \/ ~r.guard
    \/ /\ ~BlockedByHealth(r, health)
       /\ ~("degraded" \in health /\ sensitive /\ ~r.degradedCanary)

(* can_promote_stage *)
CanPromote(r, health) == r.guard => {"failing", "degraded"} \cap health = {}

(* The stage a feature has for a store before the bucket is looked at.     *)
(* f: the registry's entry, known, enabled, stage, allowed, sensitive and  *)
(* canary; at: the store, named, allowed and the lists it is on; health:   *)
(* the statuses given, none by most callers.                               *)
EffectiveStage(r, f, at, health) ==
    LET known == IF f.known THEN f.stage ELSE r.defaultStage
        on    == IF f.known THEN f.enabled ELSE r.defaultStage # "disabled"
        store == IF at.named THEN StoreStage(r.storePolicy, at.lists) ELSE "full"
        open  == ~(f.known /\ f.restricted /\ at.named /\ ~at.allowed)
        wide  == Narrow(known, store)
        stage == IF BlockedByHealth(r, health) /\ wide \in {"full", "partial"}
                 THEN "canary" ELSE wide
    IN IF on /\ store # "disabled" /\ open /\ AllowedByStatus(r, f.sensitive, health)
       THEN stage ELSE "disabled"

(* The percentage of buckets a stage below full lets in. *)
Percentage(r, f, stage) ==
    IF ~r.canaryRollout \/ (f.known /\ ~f.canary) \/ ~r.hashBased THEN 100
    ELSE IF stage = "canary" THEN r.canaryPercentage ELSE r.partialPercentage

(* decide_feature_rollout and is_feature_enabled; bucket is the hash of    *)
(* store, entity and feature in 0..99 (select_canary_bucket).              *)
FeatureEnabled(r, f, at, health, bucket) ==
    \/ ~r.flags
    \/ LET stage == EffectiveStage(r, f, at, health)
       IN \/ stage = "full"
          \/ stage \in {"canary", "partial"} /\ bucket < Percentage(r, f, stage)
=============================================================================
