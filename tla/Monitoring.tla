---------------------------- MODULE Monitoring ----------------------------
(***************************************************************************)
(* What the counters of a crawl say about its health: the thresholds that  *)
(* are breached, the alerts, the status of each store and of the run, the  *)
(* actions suggested to the operator and the triage.                       *)
(*                                                                         *)
(* A rate is a pair of counters, part and whole; a threshold is a          *)
(* percentage.  o is the record of the settings, c a map of counters.      *)
(***************************************************************************)
EXTENDS Integers, FiniteSets, Sequences, SequencesExt

Counters ==
    {"yielded", "parse failed", "product pages", "crawl failures", "listings", "blocks",
     "categories", "empty categories", "normalized", "low coverage", "items", "applied",
     "rejected", "retryable", "batches", "malformed", "reconciled", "unreconciled",
     "duplicates"}

NoCounts == [k \in Counters |-> 0]

(* The metrics, in the order they are evaluated and their alerts listed. *)
Metrics == <<"parse", "apply", "block", "zero results", "coverage", "rejected",
             "retryable", "malformed", "reconciliation", "duplicate", "items">>

-----------------------------------------------------------------------------
(* Thresholds.                                                             *)

Over(rate, percent) == 100 * rate.part > percent * rate.whole
Under(rate, percent) == 100 * rate.part < percent * rate.whole

(* compute_rate, and what stands for a rate nothing was counted of. *)
Rate(part, whole, otherwise) ==
    IF whole > 0 THEN [part |-> part, whole |-> whole] ELSE [part |-> otherwise, whole |-> 1]

(* _evaluate_rates_from_counters: a store that parsed nothing at all has a *)
(* parse rate of 0, one that delivered nothing applied all of it.          *)
Observed(c) ==
    [m \in ToSet(Metrics) |->
        CASE m = "parse" ->
               IF c["yielded"] + c["parse failed"] > 0
               THEN Rate(c["yielded"], c["yielded"] + c["parse failed"], 0)
               ELSE Rate(c["product pages"], c["product pages"] + c["crawl failures"], 0)
          [] m = "apply" -> Rate(c["applied"], c["items"], 1)
          [] m = "block" -> Rate(c["blocks"], c["listings"], 0)
          [] m = "zero results" -> Rate(c["empty categories"], c["categories"], 0)
          [] m = "coverage" -> Rate(c["low coverage"], c["normalized"], 0)
          [] m \in {"rejected", "retryable"} -> Rate(c[m], c["items"], 0)
          [] m = "malformed" -> Rate(c["malformed"], c["batches"], 0)
          [] m = "reconciliation" -> Rate(c["unreconciled"], c["reconciled"], 0)
          [] m = "duplicate" -> Rate(c["duplicates"], c["items"], 0)
          [] m = "items" -> [part |-> c["items"], whole |-> 1]]

(* _decision *)
Breached(o, c, m) ==
    CASE m \in {"parse", "apply"} -> Under(Observed(c)[m], o.slo[m])
      [] m = "items" -> c["items"] < o.slo[m]
      [] OTHER -> Over(Observed(c)[m], o.slo[m])

(* The severity a threshold has of itself. *)
BaseSeverity(c, m) ==
    CASE m \in {"block", "malformed", "reconciliation"} -> "critical"
      [] m \in {"parse", "apply", "rejected"} -> "high"
      [] m = "duplicate" \/ (m = "items" /\ c["items"] = 0) -> "info"
      [] OTHER -> "warning"

(* decide_status_from_thresholds looks at these, not at the alerts'. *)
StatusOf(o, c) ==
    LET found == {BaseSeverity(c, m) : m \in {n \in ToSet(Metrics) : Breached(o, c, n)}}
    IN IF "critical" \in found THEN "failing"
       ELSE IF {"high", "warning"} \cap found # {} THEN "degraded"
       ELSE "healthy"

StatusRank == [healthy |-> 0, degraded |-> 1, failing |-> 2]

(* worst_service_status and _worst_status *)
WorstStatus(a, b) == IF StatusRank[a] >= StatusRank[b] THEN a ELSE b

-----------------------------------------------------------------------------
(* Alerts.                                                                 *)

(* classify_alert_domain *)
Domain(m) ==
    CASE m \in {"block", "zero results"} -> "store_access"
      [] m = "parse" -> "crawl_quality"
      [] m = "coverage" -> "normalization_quality"
      [] m \in {"apply", "rejected", "retryable"} -> "crm_apply"
      [] m = "malformed" -> "delivery_transport"
      [] m = "reconciliation" -> "reconciliation"
      [] OTHER -> "internal"

SeverityRank == [info |-> 0, warning |-> 1, high |-> 2, critical |-> 3]

WorstSeverity(a, b) == IF SeverityRank[a] >= SeverityRank[b] THEN a ELSE b

(* decide_alert_severity: how far the rate is beyond its threshold. *)
Distance(o, c, m) ==
    LET rate == Observed(c)[m]
        limit == o.slo[m]
    IN CASE m \in {"block", "malformed", "reconciliation"} ->
              IF Over(rate, limit + 15) \/ Over(rate, 3 * limit) THEN "critical"
              ELSE IF Over(rate, limit + 5) THEN "high" ELSE "warning"
         [] m \in {"coverage", "duplicate"} ->
              IF m = "duplicate" /\ Over(rate, 85) THEN "high"
              ELSE IF Over(rate, limit + 25) THEN "warning" ELSE "info"
         [] m \in {"parse", "apply"} ->
              IF Under(rate, limit - 15) THEN "critical"
              ELSE IF Under(rate, limit - 8) THEN "high" ELSE "warning"
         [] m = "rejected" -> IF Over(rate, limit + 20) THEN "critical"
                              ELSE IF Over(rate, limit + 8) THEN "high" ELSE "warning"
         [] m = "retryable" -> IF Over(rate, limit + 15) THEN "high" ELSE "warning"
         [] m = "zero results" -> IF Over(rate, limit + 25) THEN "high" ELSE "warning"
         [] m = "items" -> "warning"

(* build_alerts_from_thresholds: an alert stands at the position of its    *)
(* metric.                                                                 *)
Alerts(o, c) ==
    [i \in {j \in DOMAIN Metrics : Breached(o, c, Metrics[j])} |->
        [domain |-> Domain(Metrics[i]), metric |-> Metrics[i],
         severity |-> WorstSeverity(Distance(o, c, Metrics[i]), BaseSeverity(c, Metrics[i]))]]

HasAlert(alerts, domains, severities) ==
    \E i \in DOMAIN alerts : alerts[i].domain \in domains /\ alerts[i].severity \in severities

(* build_store_operational_status *)
StoreStatus(o, c) == [status |-> StatusOf(o, c), alerts |-> Alerts(o, c)]

(* The counters of all stores together; counts is the map of counters of   *)
(* each store.                                                             *)
Merged(counts) ==
    [k \in Counters |-> MapThenSumSet(LAMBDA s : counts[s][k], DOMAIN counts)]

(* build_run_operational_status.  Two stores under the same stress raise   *)
(* an alert for the run.                                                   *)
RunStatus(o, counts) ==
    LET status == [s \in DOMAIN counts |-> StoreStatus(o, counts[s])]
        stressed(d) == {s \in DOMAIN counts : HasAlert(status[s].alerts, {d}, {"high", "critical"})}
        shared == {d \in {"delivery_transport", "crm_apply"} : Cardinality(stressed(d)) >= 2}
        all == {StatusOf(o, Merged(counts))} \cup {status[s].status : s \in DOMAIN counts}
                 \cup (IF shared = {} THEN {} ELSE {"degraded"})
    IN [status |-> CHOOSE x \in all : \A y \in all : StatusRank[x] >= StatusRank[y],
        stores |-> status, global |-> shared]

-----------------------------------------------------------------------------
(* The health of the parser, by signs of its own.                          *)

Sum(conditions) == Cardinality({i \in DOMAIN conditions : conditions[i]})

(* compute_parser_health; t counts the recent traces by kind. *)
ParserHealth(c, t) ==
    LET failing == t.critical >= 1 \/ t.malformed >= 2 \/ c["unreconciled"] >= 3
                     \/ (t.transport >= 5 /\ c["rejected"] >= 5)
        degraded == Sum(<<t.error >= 5 \/ c["retryable"] >= 10,
                          c["blocks"] >= 3 \/ c["crawl failures"] >= 20,
                          c["low coverage"] >= 15, c["duplicates"] >= 50,
                          t.retries >= 15, t.unresolved >= 3>>) + t.blocked
    IN IF failing THEN "failing" ELSE IF degraded >= 2 THEN "degraded" ELSE "healthy"

(* build_health_snapshot: one process, one map of counters, taken for each *)
(* of its stores.                                                          *)
Snapshot(o, c, t, stores) ==
    WorstStatus(ParserHealth(c, t), RunStatus(o, [s \in stores |-> c]).status)

-----------------------------------------------------------------------------
(* What the operator is advised to do.                                     *)

Foremost(list) == list[CHOOSE i \in DOMAIN list : \A j \in DOMAIN list : i <= j]

Choose(seq) ==
    LET count(x) == Cardinality({i \in DOMAIN seq : seq[i] = x})
    IN seq[CHOOSE i \in DOMAIN seq : \A j \in DOMAIN seq :
             \/ count(seq[j]) < count(seq[i])
             \/ count(seq[j]) = count(seq[i]) /\ (seq[j] = seq[i] \/ i < j)]

DomainsOf(alerts, severities) ==
    [i \in {j \in DOMAIN alerts : alerts[j].severity \in severities} |-> alerts[i].domain]

(* classify_store_incident *)
StoreIncident(st) ==
    LET critical == DomainsOf(st.alerts, {"critical"})
        high == DomainsOf(st.alerts, {"high"})
    IN IF st.status = "healthy" THEN "none"
       ELSE IF DOMAIN critical # {} THEN Foremost(critical)
       ELSE IF DOMAIN high # {} THEN Choose(high)
       ELSE Choose(DomainsOf(st.alerts, {"warning", "info"}))

(* should_disable_store, off by default *)
ShouldDisable(o, st) ==
    o.disableStore /\ HasAlert(st.alerts, {Domain(m) : m \in ToSet(Metrics)}, {"critical"})

(* should_fail_run, off by default; an alert of the run is never critical. *)
ShouldFailRun(o, run) ==
    /\ o.failRun /\ run.status = "failing"
    /\ Cardinality({s \in DOMAIN run.stores :
                      \E i \in DOMAIN run.stores[s].alerts :
                         run.stores[s].alerts[i].severity = "critical"}) >= 2

(* suggest_store_action.  The mutant leaves a store alone that fails and   *)
(* is not to be disabled.                                                  *)
SuggestStoreActionUndecided(o, st) ==
    CASE ShouldDisable(o, st) -> "disable_store"
      [] st.status = "degraded" /\ ~ShouldDisable(o, st) -> "degrade"
      [] OTHER -> "continue"
SuggestStoreAction(o, st) ==
    CASE st.status = "healthy" -> "continue"
      [] st.status = "failing" /\ ShouldDisable(o, st) -> "disable_store"
      [] OTHER -> "degrade"

(* suggest_run_action *)
SuggestRunAction(o, run) ==
    CASE ShouldFailRun(o, run) -> "fail_run"
      [] run.status = "healthy" -> "continue"
      [] OTHER -> "degrade"

(* _severity_from_store *)
TriageSeverity(st) ==
    LET severities == {st.alerts[i].severity : i \in DOMAIN st.alerts}
    IN IF st.status = "failing" THEN "critical"
       ELSE IF st.status = "degraded" THEN "high"
       ELSE IF "critical" \in severities THEN "critical"
       ELSE IF "high" \in severities THEN "high" ELSE "warning"

(* _store_to_runbook *)
Runbook(o, suggested, domain) ==
    IF domain = "reconciliation" THEN "replay_product_found"
    ELSE IF domain = "delivery_transport" THEN "retry_batch_once"
    ELSE IF suggested = "disable_store" /\ o.adviseDisable THEN "disable_store_temporarily"
    ELSE IF suggested = "degrade" THEN "investigate_manually" ELSE "continue"

(* build_triage_summary_for_store *)
Triage(o, st) ==
    LET domain == IF StoreIncident(st) # "none" THEN StoreIncident(st)
                  ELSE IF DOMAIN st.alerts # {} THEN Foremost(st.alerts).domain ELSE "internal"
    IN IF ~o.triage
       THEN [domain |-> "internal", severity |-> "info", action |-> "continue"]
       ELSE [domain |-> domain, severity |-> TriageSeverity(st),
             action |-> IF domain = "crm_apply" /\ st.status = "failing"
                        THEN "downgrade_to_product_found"
                        ELSE Runbook(o, SuggestStoreAction(o, st), domain)]

(* classify_run_incident; of domains as frequent any may come first. *)
RunIncident(run) ==
    LET names == SetToSeq({s \in DOMAIN run.stores : run.stores[s].status # "healthy"})
    IN IF "delivery_transport" \in run.global THEN "delivery_transport"
       ELSE IF run.global # {} THEN "crm_apply"
       ELSE IF names = <<>> THEN "internal"
       ELSE Choose([i \in DOMAIN names |-> StoreIncident(run.stores[names[i]])])

(* build_triage_summary_for_run, and _run_to_runbook *)
RunTriage(o, run) ==
    LET suggested == SuggestRunAction(o, run)
    IN CASE ~o.triage \/ suggested = "continue" -> "continue"
         [] o.triage /\ suggested = "fail_run" -> "fail_run"
         [] o.triage /\ suggested = "degrade" /\ RunIncident(run) = "delivery_transport"
              -> "retry_batch_once"
         [] OTHER -> "investigate_manually"
=============================================================================
