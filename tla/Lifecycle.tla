----------------------------- MODULE Lifecycle -----------------------------
(***************************************************************************)
(* Which event the parser sends to the CRM for a snapshot of a product,    *)
(* and what it makes of the CRM's answer.  s is the settings: deltas, the  *)
(* set of delta types the flags ask for; runtimeDeltas; allowed, the set   *)
(* of delta types allowed with runtime ids; rollout, whether the feature   *)
(* lifecycle_delta_events is on; safeDeltas; mode; scope; markIgnored;     *)
(* onMissing and onAmbiguous.  ids is the subset of {"listing", "product"} *)
(* of the CRM's ids the run knows for the entity.                          *)
(***************************************************************************)
EXTENDS Naturals

Deltas == {"price_changed", "out_of_stock", "characteristic_added"}

(* _compute_change_hint.  It never says spec_update. *)
ChangeHint(snapshot) ==
    CASE snapshot.stock = "out" -> "stock_update"
      [] snapshot.stock # "out" /\ snapshot.priced -> "price_update"
      [] OTHER -> "none"

(* _infer_requested_event_type *)
Inferred(s, hint) ==
    CASE hint = "price_update" /\ "price_changed" \in s.deltas -> "price_changed"
      [] hint = "stock_update" /\ "out_of_stock" \in s.deltas -> "out_of_stock"
      [] hint = "spec_update" /\ "characteristic_added" \in s.deltas -> "characteristic_added"
      [] OTHER -> "product_found"

(* The id of the CRM that a delta is about. *)
RequiredId(type) == IF type = "characteristic_added" THEN "product" ELSE "listing"

(* The mutant allows a delta whatever the run knows of the entity. *)
CanEmitWithoutIds(s, type, ids, spec) ==
    \/ type = "product_found"
    \/ /\ s.runtimeDeltas /\ type \in s.allowed
       /\ type = "characteristic_added" => spec

(* can_emit_event *)
CanEmit(s, type, ids, spec) ==
    \/ type = "product_found"
    \/ /\ s.runtimeDeltas /\ type \in s.allowed
       /\ RequiredId(type) \in ids
       /\ type = "characteristic_added" => spec

(* choose_lifecycle_event_type: what cannot be emitted is a product_found. *)
ChosenType(s, snapshot, ids, requested) ==
    LET type == IF requested = "none" THEN Inferred(s, ChangeHint(snapshot)) ELSE requested
    IN IF s.rollout /\ CanEmit(s, type, ids, snapshot.spec) THEN type ELSE "product_found"

(* is_replay_safe_event_type *)
ReplaySafe(s, type) == type = "product_found" \/ s.safeDeltas

(* choose_replay_mode *)
ReplayMode(s, type, ids) ==
    IF ~ReplaySafe(s, type) /\ s.mode = "delta_if_possible" /\ "listing" \notin ids
    THEN "snapshot_upsert" ELSE s.mode

(* should_downgrade_delta_event_to_product_found *)
Downgraded(s, type, ids) ==
    /\ type # "product_found" /\ "listing" \notin ids
    /\ ~ReplaySafe(s, type) \/ ReplayMode(s, type, ids) = "reconcile_only"

(* build_request_idempotency_key: never the event's own id. *)
IdempotencyKey(s, entity, payload, type) ==
    IF s.scope = "entity_only" THEN <<entity, type>> ELSE <<entity, payload, type>>

(* build_lifecycle_event and parser_sync_event_from_lifecycle. *)
EventFor(s, snapshot, ids, requested) ==
    LET chosen == ChosenType(s, snapshot, ids, requested)
        type   == IF Downgraded(s, chosen, ids) THEN "product_found" ELSE chosen
    IN [snapshot |-> snapshot, type |-> type,
        key |-> IdempotencyKey(s, snapshot.entity, snapshot.payload, type)]

-----------------------------------------------------------------------------

(* What the parser keeps of an answer about one event: whether it counts   *)
(* as applied, whether it may be sent again, the ids and what to reconcile. *)
Failure(retryable) ==
    [success |-> FALSE, retryable |-> retryable, ids |-> {}, signal |-> "none"]

(* An http status class without a usable row, 429 and 5xx being busy *)
(* (is_retryable_http_status).                                       *)
StatusResult(status) == Failure(status = "busy")

(* The mutant takes a row that says neither for a success. *)
LaxRowResult(s, type, row) ==
    [success |-> row.verdict \notin {"retry"}, retryable |-> row.verdict = "retry",
     ids |-> row.ids, signal |-> "none"]

(* _row_to_apply_result: row is a row of a 2xx answer, verdict says ok,     *)
(* retry, refused or absent, action is the CRM's.                           *)
RowResult(s, type, row) ==
    LET success == row.verdict = "ok" /\ (row.action = "ignored" => s.markIgnored)
        signal  == CASE ~success -> "none"
                     [] success /\ type = "product_found" /\ row.ids = {} /\ s.onMissing
                          -> "missing_ids"
                     [] success /\ row.action = "needs_review" /\ s.onAmbiguous
                        /\ ~(type = "product_found" /\ row.ids = {} /\ s.onMissing)
                          -> "ambiguous_action"
                     [] OTHER -> "none"
    IN [success |-> success, retryable |-> row.verdict = "retry",
        ids |-> row.ids, signal |-> signal]

(* reconcile_missing_ids and reconcile_after_ambiguous_response: the ids of *)
(* the answer, which an ambiguous one does not lend, then those of the run; *)
(* none when nothing resolves it.                                           *)
ReconciledIds(s, result, known) ==
    IF result.signal = "missing_ids" /\ result.ids # {} THEN result.ids
    ELSE IF s.runtimeIds THEN known ELSE {}
=============================================================================
