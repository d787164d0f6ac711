-------------------------- MODULE OperationsProofs --------------------------
(***************************************************************************)
(* The verdicts of the operators' office, for any settings, stores, files, *)
(* counters and payloads: a store that fails is acted on, what gets worse  *)
(* never improves a verdict, and a launch for canaries is one of canaries. *)
(***************************************************************************)
EXTENDS AccessProofs

-----------------------------------------------------------------------------
(* Rates.                                                                  *)

Names == {"parse", "apply", "block", "zero results", "coverage", "rejected",
          "retryable", "malformed", "reconciliation", "duplicate", "items"}

(* The metrics by name and by position. *)
LEMMA MetricNames ==
    /\ DOMAIN Metrics = 1..11
    /\ \A i \in DOMAIN Metrics : Metrics[i] \in Names
    /\ \A m \in Names : \E i \in DOMAIN Metrics : Metrics[i] = m
    /\ ToSet(Metrics) = Names
<1>1. DOMAIN Metrics = 1..11
  BY DEF Metrics
<1>3. /\ Metrics[1] = "parse" /\ Metrics[2] = "apply" /\ Metrics[3] = "block"
      /\ Metrics[4] = "zero results" /\ Metrics[5] = "coverage" /\ Metrics[6] = "rejected"
      /\ Metrics[7] = "retryable" /\ Metrics[8] = "malformed"
      /\ Metrics[9] = "reconciliation" /\ Metrics[10] = "duplicate" /\ Metrics[11] = "items"
  BY DEF Metrics
<1>2. \A i \in 1..11 : Metrics[i] \in Names
  <2>1. \A i \in 1..11 : i \in {1, 2, 3, 4, 5, 6, 7, 8, 9, 10, 11}
    OBVIOUS
  <2> QED
    BY <1>3, <2>1, Zenon DEF Names
<1>4. \A m \in Names : \E i \in DOMAIN Metrics : Metrics[i] = m
  <2>1. \A i \in 1..11 : i \in DOMAIN Metrics
    BY <1>1
  <2>2. /\ 1 \in 1..11 /\ 2 \in 1..11 /\ 3 \in 1..11 /\ 4 \in 1..11 /\ 5 \in 1..11 /\ 6 \in 1..11
        /\ 7 \in 1..11 /\ 8 \in 1..11 /\ 9 \in 1..11 /\ 10 \in 1..11 /\ 11 \in 1..11
    OBVIOUS
  <2> QED
    BY <1>3, <2>1, <2>2, Zenon DEF Names
<1> QED
  BY <1>1, <1>2, <1>4 DEF ToSet

Rates == [part : Nat, whole : Nat \ {0}]

(* A rate has something to divide by. *)
LEMMA RatesAreRates ==
    ASSUME NEW c \in [Counters -> Nat], NEW m \in Names
    PROVE  Observed(c)[m] \in Rates
<1>1. \A k \in Counters : c[k] \in Nat
  OBVIOUS
<1>2. ASSUME NEW a \in Nat, NEW b \in Nat, NEW d \in Nat PROVE Rate(a, b, d) \in Rates
  BY DEF Rate, Rates
<1>3. \A x \in Nat : [part |-> x, whole |-> 1] \in Rates
  BY DEF Rates
<1>4. \A k \in {"yielded", "parse failed", "product pages", "crawl failures", "listings", "blocks",
                 "categories", "empty categories", "normalized", "low coverage", "items", "applied",
                 "rejected", "retryable", "batches", "malformed", "reconciled", "unreconciled",
                 "duplicates"} : c[k] \in Nat
  BY <1>1 DEF Counters
<1>5. \A a, b \in Nat : a + b \in Nat
  OBVIOUS
<1>6. /\ c["yielded"] + c["parse failed"] \in Nat
      /\ c["product pages"] + c["crawl failures"] \in Nat
  BY <1>4, <1>5
<1>7. Observed(c)[m] =
         CASE m = "parse" ->
               IF c["yielded"] + c["parse failed"] > 0
               THEN Rate(c["yielded"], c["yielded"] + c["parse failed"], 0)
               ELSE Rate(c["product pages"], c["product pages"] + c["crawl failures"], 0)
          [] m = "apply" -> Rate(c["applied"], c["items"], 1)
          [] m = "block" -> Rate(c["blocks"], c["listings"], 0)
          [] m = "zero results" -> Rate(c["empty categories"], c["categories"], 0)
          [] m = "coverage" -> Rate(c["low coverage"], c["normalized"], 0)
          [] m \in {"rejected", "retryable"} -> Rate(c[m], c["items"], 0)
          [] m = "malformed" -> Rate(c["malformed"], c["batches"], 0)
          [] m = "reconciliation" -> Rate(c["unreconciled"], c["reconciled"], 0)
          [] m = "duplicate" -> Rate(c["duplicates"], c["items"], 0)
          [] m = "items" -> [part |-> c["items"], whole |-> 1]
  BY MetricNames, Zenon DEF Observed
<1>8. CASE m = "parse"
  <2>1. Observed(c)[m] =
          IF c["yielded"] + c["parse failed"] > 0
          THEN Rate(c["yielded"], c["yielded"] + c["parse failed"], 0)
          ELSE Rate(c["product pages"], c["product pages"] + c["crawl failures"], 0)
    BY <1>7, <1>8
  <2>2. c["yielded"] \in Nat /\ c["product pages"] \in Nat
    BY <1>4
  <2> QED
    BY <1>2, <1>6, <2>1, <2>2
<1>9. CASE m = "apply"
  <2>1. Observed(c)[m] = Rate(c["applied"], c["items"], 1)
    BY <1>7, <1>9
  <2>2. c["applied"] \in Nat /\ c["items"] \in Nat
    BY <1>4
  <2> QED
    BY <1>2, <2>1, <2>2
<1>10. CASE m = "block"
  <2>1. Observed(c)[m] = Rate(c["blocks"], c["listings"], 0)
    BY <1>7, <1>10
  <2>2. c["blocks"] \in Nat /\ c["listings"] \in Nat
    BY <1>4
  <2> QED
    BY <1>2, <2>1, <2>2
<1>11. CASE m = "zero results"
  <2>1. Observed(c)[m] = Rate(c["empty categories"], c["categories"], 0)
    BY <1>7, <1>11
  <2>2. c["empty categories"] \in Nat /\ c["categories"] \in Nat
    BY <1>4
  <2> QED
    BY <1>2, <2>1, <2>2
<1>12. CASE m = "coverage"
  <2>1. Observed(c)[m] = Rate(c["low coverage"], c["normalized"], 0)
    BY <1>7, <1>12
  <2>2. c["low coverage"] \in Nat /\ c["normalized"] \in Nat
    BY <1>4
  <2> QED
    BY <1>2, <2>1, <2>2
<1>13. CASE m = "rejected"
  <2>1. Observed(c)[m] = Rate(c["rejected"], c["items"], 0)
    BY <1>7, <1>13
  <2>2. c["rejected"] \in Nat /\ c["items"] \in Nat
    BY <1>4
  <2> QED
    BY <1>2, <2>1, <2>2
<1>14. CASE m = "retryable"
  <2>1. Observed(c)[m] = Rate(c["retryable"], c["items"], 0)
    BY <1>7, <1>14
  <2>2. c["retryable"] \in Nat /\ c["items"] \in Nat
    BY <1>4
  <2> QED
    BY <1>2, <2>1, <2>2
<1>15. CASE m = "malformed"
  <2>1. Observed(c)[m] = Rate(c["malformed"], c["batches"], 0)
    BY <1>7, <1>15
  <2>2. c["malformed"] \in Nat /\ c["batches"] \in Nat
    BY <1>4
  <2> QED
    BY <1>2, <2>1, <2>2
<1>16. CASE m = "reconciliation"
  <2>1. Observed(c)[m] = Rate(c["unreconciled"], c["reconciled"], 0)
    BY <1>7, <1>16
  <2>2. c["unreconciled"] \in Nat /\ c["reconciled"] \in Nat
    BY <1>4
  <2> QED
    BY <1>2, <2>1, <2>2
<1>17. CASE m = "duplicate"
  <2>1. Observed(c)[m] = Rate(c["duplicates"], c["items"], 0)
    BY <1>7, <1>17
  <2>2. c["duplicates"] \in Nat /\ c["items"] \in Nat
    BY <1>4
  <2> QED
    BY <1>2, <2>1, <2>2
<1>18. CASE m = "items"
  <2>1. Observed(c)[m] = [part |-> c["items"], whole |-> 1]
    BY <1>7, <1>18
  <2> QED
    BY <1>3, <1>4, <2>1
<1> QED
  BY <1>8, <1>9, <1>10, <1>11, <1>12, <1>13, <1>14, <1>15, <1>16, <1>17, <1>18 DEF Names

(* What is beyond a percentage stays so when the rate grows. *)
LEMMA OverGrows ==
    ASSUME NEW a \in Rates, NEW b \in Rates, NEW p \in Int,
           a.part * b.whole <= b.part * a.whole, Over(a, p)
    PROVE  Over(b, p)
<1> DEFINE A == a.part
           B == b.part
           X == a.whole
           Y == b.whole
<1>1. A \in Nat /\ B \in Nat /\ X \in Nat /\ Y \in Nat /\ X > 0 /\ Y > 0
  BY DEF Rates
<1>2. 100 * A > p * X /\ A * Y <= B * X
  BY DEF Over
<1> SUFFICES ASSUME 100 * B <= p * Y PROVE FALSE
  BY <1>1 DEF Over
<1> HIDE DEF A, B, X, Y
<1>3. (100 * A) * Y > (p * X) * Y
  BY <1>1, <1>2
<1>4. (100 * B) * X <= (p * Y) * X
  BY <1>1
<1> QED
  BY <1>1, <1>2, <1>3, <1>4

(* And what is under one stays so when it sinks. *)
LEMMA UnderSinks ==
    ASSUME NEW a \in Rates, NEW b \in Rates, NEW p \in Int,
           b.part * a.whole <= a.part * b.whole, Under(a, p)
    PROVE  Under(b, p)
<1> DEFINE A == a.part
           B == b.part
           X == a.whole
           Y == b.whole
<1>1. A \in Nat /\ B \in Nat /\ X \in Nat /\ Y \in Nat /\ X > 0 /\ Y > 0
  BY DEF Rates
<1>2. 100 * A < p * X /\ B * X <= A * Y
  BY DEF Under
<1> SUFFICES ASSUME 100 * B >= p * Y PROVE FALSE
  BY <1>1 DEF Under
<1> HIDE DEF A, B, X, Y
<1>3. (100 * A) * Y < (p * X) * Y
  BY <1>1, <1>2
<1>4. (100 * B) * X >= (p * Y) * X
  BY <1>1
<1> QED
  BY <1>1, <1>2, <1>3, <1>4

-----------------------------------------------------------------------------
(* Alerts.                                                                 *)

Severities == {"info", "warning", "high", "critical"}

LEMMA DistanceType ==
    ASSUME NEW o, NEW c, NEW m \in Names
    PROVE  Distance(o, c, m) \in Severities
<1> DEFINE rate == Observed(c)[m]
           limit == o.slo[m]
<1>1. CASE m \in {"block", "malformed", "reconciliation"}
  BY <1>1 DEF Distance, Severities
<1>2. CASE m \in {"coverage", "duplicate"}
  BY <1>2 DEF Distance, Severities
<1>3. CASE m \in {"parse", "apply"}
  BY <1>3 DEF Distance, Severities
<1>4. CASE m = "rejected"
  BY <1>4 DEF Distance, Severities
<1>5. CASE m = "retryable"
  BY <1>5 DEF Distance, Severities
<1>6. CASE m = "zero results"
  BY <1>6 DEF Distance, Severities
<1>7. CASE m = "items"
  BY <1>7 DEF Distance, Severities
<1> QED
  BY <1>1, <1>2, <1>3, <1>4, <1>5, <1>6, <1>7 DEF Names

LEMMA BaseSeverityType ==
    ASSUME NEW c, NEW m \in Names
    PROVE  BaseSeverity(c, m) \in Severities
BY DEF BaseSeverity, Severities

LEMMA WorstSeverityIsWorst ==
    ASSUME NEW a \in Severities, NEW b \in Severities
    PROVE  /\ WorstSeverity(a, b) \in Severities
           /\ SeverityRank[WorstSeverity(a, b)] >= SeverityRank[a]
           /\ SeverityRank[WorstSeverity(a, b)] >= SeverityRank[b]
           /\ WorstSeverity(a, b) \in {a, b}
           /\ b = "critical" => WorstSeverity(a, b) = "critical"
BY DEF WorstSeverity, SeverityRank, Severities

(* What stands in the list of the alerts. *)
LEMMA AlertAt ==
    ASSUME NEW o, NEW c
    PROVE  /\ DOMAIN Alerts(o, c) = {i \in 1..11 : Breached(o, c, Metrics[i])}
           /\ IsFiniteSet(DOMAIN Alerts(o, c))
           /\ \A i \in DOMAIN Alerts(o, c) :
                LET m == Metrics[i]
                IN /\ m \in Names
                   /\ Alerts(o, c)[i].metric = m /\ Alerts(o, c)[i].domain = Domain(m)
                   /\ Alerts(o, c)[i].severity
                        = WorstSeverity(Distance(o, c, m), BaseSeverity(c, m))
                   /\ Alerts(o, c)[i].severity \in Severities
<1>1. DOMAIN Alerts(o, c) = {i \in 1..11 : Breached(o, c, Metrics[i])}
  BY MetricNames DEF Alerts
<1>2. IsFiniteSet(DOMAIN Alerts(o, c))
  <2>1. IsFiniteSet(1..11)
    <3>1. 1 \in Int /\ 11 \in Int
      OBVIOUS
    <3> QED
      BY <3>1, FS_Interval, Zenon
  <2>2. DOMAIN Alerts(o, c) \subseteq 1..11
    BY <1>1
  <2> QED
    BY <2>1, <2>2, FS_Subset
<1>3. ASSUME NEW i \in DOMAIN Alerts(o, c)
      PROVE  LET m == Metrics[i]
             IN /\ m \in Names
                /\ Alerts(o, c)[i].metric = m /\ Alerts(o, c)[i].domain = Domain(m)
                /\ Alerts(o, c)[i].severity
                     = WorstSeverity(Distance(o, c, m), BaseSeverity(c, m))
                /\ Alerts(o, c)[i].severity \in Severities
  <2>1. i \in DOMAIN Metrics /\ Metrics[i] \in Names /\ Breached(o, c, Metrics[i])
    BY <1>1, MetricNames
  <2>2. Alerts(o, c)[i] =
          [domain |-> Domain(Metrics[i]), metric |-> Metrics[i],
           severity |-> WorstSeverity(Distance(o, c, Metrics[i]), BaseSeverity(c, Metrics[i]))]
    BY <2>1 DEF Alerts
  <2> QED
    BY <2>1, <2>2, DistanceType, BaseSeverityType, WorstSeverityIsWorst
<1> QED
  BY <1>1, <1>2, <1>3

LEMMA FiniteAlerts ==
    ASSUME NEW o, NEW c, NEW S \in SUBSET DOMAIN Alerts(o, c)
    PROVE  /\ IsFiniteSet(S) /\ Cardinality(S) \in Nat
           /\ S # {} => Cardinality(S) > 0
<1>1. IsFiniteSet(S)
  BY AlertAt, FS_Subset
<1>2. Cardinality(S) \in Nat /\ (Cardinality(S) = 0 <=> S = {})
  BY <1>1, FS_CardinalityType, FS_EmptySet
<1> QED
  BY <1>1, <1>2

-----------------------------------------------------------------------------
(* Status.                                                                 *)

Statuses == {"healthy", "degraded", "failing"}

LEMMA StatusType == \A o, c : StatusOf(o, c) \in Statuses
  BY DEF StatusOf, Statuses

(* A store that fails has a critical alert. *)
LEMMA FailingIsCritical ==
    ASSUME NEW o, NEW c, StatusOf(o, c) = "failing"
    PROVE  \E i \in DOMAIN Alerts(o, c) : Alerts(o, c)[i].severity = "critical"
<1>1. PICK m \in ToSet(Metrics) : Breached(o, c, m) /\ BaseSeverity(c, m) = "critical"
  BY DEF StatusOf
<1>2. PICK i \in DOMAIN Metrics : Metrics[i] = m
  BY <1>1, MetricNames
<1>3. i \in DOMAIN Alerts(o, c)
  BY <1>1, <1>2, AlertAt, MetricNames, ZenonT(60)
<1>4. Alerts(o, c)[i].severity = "critical"
  <2>1. m \in Names
    BY <1>2, MetricNames
  <2>2. /\ Distance(o, c, m) \in Severities /\ BaseSeverity(c, m) \in Severities
        /\ BaseSeverity(c, m) = "critical"
    BY <1>1, <2>1, DistanceType, BaseSeverityType
  <2>3. WorstSeverity(Distance(o, c, m), BaseSeverity(c, m)) = "critical"
    BY <2>2, WorstSeverityIsWorst
  <2> QED
    BY <1>2, <1>3, <2>3, AlertAt, ZenonT(60)
<1> QED
  BY <1>3, <1>4

(* The status of the run is the worst of several. *)
LEMMA WorstExists ==
    ASSUME NEW all \in SUBSET Statuses, all # {},
           NEW x, x = CHOOSE y \in all : \A z \in all : StatusRank[y] >= StatusRank[z]
    PROVE  x \in all /\ \A z \in all : StatusRank[x] >= StatusRank[z]
<1>1. \E y \in all : \A z \in all : StatusRank[y] >= StatusRank[z]
  <2>1. CASE "failing" \in all
    BY <2>1 DEF Statuses, StatusRank
  <2>2. CASE "failing" \notin all /\ "degraded" \in all
    BY <2>2 DEF Statuses, StatusRank
  <2>3. CASE all = {"healthy"}
    BY <2>3 DEF Statuses, StatusRank
  <2> QED
    BY <2>1, <2>2, <2>3 DEF Statuses
<1> QED
  BY <1>1

(* What the status of a run is the worst of. *)
Considered(o, counts) ==
    {StatusOf(o, Merged(counts))} \cup {StatusOf(o, counts[s]) : s \in DOMAIN counts}
      \cup (IF RunStatus(o, counts).global = {} THEN {} ELSE {"degraded"})

LEMMA RunStatusIs ==
    ASSUME NEW o, NEW counts
    PROVE  /\ RunStatus(o, counts).status \in Considered(o, counts)
           /\ Considered(o, counts) \in SUBSET Statuses
           /\ \A x \in Considered(o, counts) :
                StatusRank[RunStatus(o, counts).status] >= StatusRank[x]
           /\ RunStatus(o, counts).stores
                = [s \in DOMAIN counts |-> StoreStatus(o, counts[s])]
<1> DEFINE run == RunStatus(o, counts)
           status == [s \in DOMAIN counts |-> StoreStatus(o, counts[s])]
           stressed(d) == {s \in DOMAIN counts : HasAlert(status[s].alerts, {d}, {"high", "critical"})}
           shared == {d \in {"delivery_transport", "crm_apply"} : Cardinality(stressed(d)) >= 2}
           all == {StatusOf(o, Merged(counts))} \cup {status[s].status : s \in DOMAIN counts}
                    \cup (IF shared = {} THEN {} ELSE {"degraded"})
           worst == CHOOSE x \in all : \A y \in all : StatusRank[x] >= StatusRank[y]
<1>1. run = [status |-> worst, stores |-> status, global |-> shared]
  BY Zenon DEF RunStatus
<1>2. run.status = worst /\ run.stores = status /\ run.global = shared
  <2> HIDE DEF worst, status, shared, run
  <2> QED
    BY <1>1
<1>3. {status[s].status : s \in DOMAIN counts} = {StatusOf(o, counts[s]) : s \in DOMAIN counts}
  BY DEF StoreStatus
<1>4. all = Considered(o, counts)
  <2> HIDE DEF shared, status
  <2> QED
    BY <1>2, <1>3 DEF Considered
<1>5. all \in SUBSET Statuses /\ all # {}
  <2>1. {StatusOf(o, counts[s]) : s \in DOMAIN counts} \in SUBSET Statuses
    BY StatusType
  <2> HIDE DEF shared, status
  <2> QED
    BY <1>3, <2>1, StatusType DEF Statuses
<1>6. worst \in all /\ \A y \in all : StatusRank[worst] >= StatusRank[y]
  <2> HIDE DEF all
  <2> QED
    BY <1>5, WorstExists
<1> QED
  BY <1>2, <1>4, <1>5, <1>6

-----------------------------------------------------------------------------
(* The office.                                                             *)

OnLists == {{"canary"}} \cup UNION {Lists[s] : s \in StoreNames}

Offices ==
    [open : {TRUE}, policy : Policies, gone : SUBSET Files,
     passed : SUBSET (TestGates \cup ReviewGates),
     said : [confirmed : SUBSET (Confirmed \cup Bad), denied : SUBSET Withdrawn],
     payload : {Baseline} \cup Payloads, counts : [StoreNames -> [Counters -> Nat]],
     lists : [StoreNames -> OnLists], changes : Nat]

Closed == [open |-> FALSE]

OfficeInv == office \in Offices \/ office = Closed

LEMMA OfficeOpens == SystemInit => office \in Offices
<1> SUFFICES ASSUME SystemInit PROVE office \in Offices
  OBVIOUS
<1>1. PICK p \in Policies : office = Open(p, [s \in StoreNames |-> {"canary"}])
  BY DEF SystemInit
<1>2. [s \in StoreNames |-> Usual] \in [StoreNames -> [Counters -> Nat]]
  BY OperationsAssumption DEF OperationsAssumption
<1>3. [s \in StoreNames |-> {"canary"}] \in [StoreNames -> OnLists]
  BY DEF OnLists
<1>4. [confirmed |-> Confirmed, denied |-> {}]
        \in [confirmed : SUBSET (Confirmed \cup Bad), denied : SUBSET Withdrawn]
  OBVIOUS
<1> HIDE DEF StoreNames, OnLists, TestGates, ReviewGates
<1> QED
  BY <1>1, <1>2, <1>3, <1>4 DEF Open, Offices

LEMMA ChangeKeepsOffice ==
    ASSUME office \in Offices, Change
    PROVE  office' \in Offices /\ office'.open
<1>1. ASSUME NEW change \in Offices, Happens(change) PROVE office' \in Offices /\ office'.open
  <2>1. office' = [change EXCEPT !.changes = @ + 1]
    BY <1>1 DEF Happens
  <2>2. change.changes \in Nat
    BY DEF Offices
  <2>3. ASSUME NEW n \in Nat PROVE [change EXCEPT !.changes = n] \in Offices
    BY DEF Offices
  <2>4. office' = [change EXCEPT !.changes = change.changes + 1]
    BY <2>1
  <2>5. office' \in Offices
    BY <2>2, <2>3, <2>4
  <2>6. office'.open = TRUE
    BY <2>5 DEF Offices
  <2> QED
    BY <2>5, <2>6
<1>2. ASSUME NEW f \in Files, LoseFile(f) PROVE office' \in Offices /\ office'.open
  <2>1. [office EXCEPT !.gone = @ \cup {f}] \in Offices
    BY DEF Offices
  <2> QED
    BY <1>1, <1>2, <2>1 DEF LoseFile
<1>3. ASSUME NEW flag \in Withdrawn, Withdraw(flag) PROVE office' \in Offices /\ office'.open
  <2>1. [office EXCEPT !.said = [confirmed |-> @.confirmed \ {flag},
                                 denied |-> @.denied \cup {flag}]] \in Offices
    BY DEF Offices
  <2> QED
    BY <1>1, <1>3, <2>1 DEF Withdraw
<1>4. ASSUME NEW news \in Bad, Tell(news) PROVE office' \in Offices /\ office'.open
  <2>1. [office EXCEPT !.said.confirmed = @ \cup {news}] \in Offices
    BY DEF Offices
  <2> QED
    BY <1>1, <1>4, <2>1 DEF Tell
<1>5. ASSUME NEW gate \in HandGates, FailGate(gate) PROVE office' \in Offices /\ office'.open
  <2>1. [office EXCEPT !.passed = @ \ {gate}] \in Offices
    BY DEF Offices
  <2> QED
    BY <1>1, <1>5, <2>1 DEF FailGate
<1>6. ASSUME NEW payload \in Payloads, Reshape(payload)
      PROVE  office' \in Offices /\ office'.open
  <2>1. [office EXCEPT !.payload = payload] \in Offices
    BY DEF Offices
  <2> QED
    BY <1>1, <1>6, <2>1 DEF Reshape
<1>7. ASSUME NEW s \in StoreNames, NEW event \in Events[s], Count(s, event)
      PROVE  office' \in Offices /\ office'.open
  <2>1. event \in [Counters -> Nat]
    BY OperationsAssumption DEF OperationsAssumption
  <2> DEFINE more == [k \in Counters |-> office.counts[s][k] + event[k]]
             counts == [office.counts EXCEPT ![s] = more]
  <2>2. office.counts \in [StoreNames -> [Counters -> Nat]]
    BY DEF Offices
  <2>3. office.counts[s] \in [Counters -> Nat]
    BY <2>2
  <2>4. more \in [Counters -> Nat]
    BY <2>1, <2>3
  <2>5. counts \in [StoreNames -> [Counters -> Nat]]
    <3> HIDE DEF more
    <3> QED
      BY <2>2, <2>4
  <2>6. [office EXCEPT !.counts[s] = [k \in Counters |-> @[k] + event[k]]]
          = [office EXCEPT !.counts = counts]
    BY DEF Offices
  <2>7. [office EXCEPT !.counts = counts] \in Offices
    <3> HIDE DEF counts
    <3> QED
      BY <2>5 DEF Offices
  <2> QED
    BY <1>1, <1>7, <2>6, <2>7 DEF Count
<1>8. ASSUME NEW s \in StoreNames, NEW lists \in Lists[s], Relist(s, lists)
      PROVE  office' \in Offices /\ office'.open
  <2>1. lists \in OnLists
    BY DEF OnLists
  <2>2. [office EXCEPT !.lists[s] = lists] \in Offices
    BY <2>1 DEF Offices
  <2> QED
    BY <1>1, <1>8, <2>2 DEF Relist
<1> QED
  BY <1>2, <1>3, <1>4, <1>5, <1>6, <1>7, <1>8 DEF Change

LEMMA StepKeepsOffice ==
    ASSUME OfficeInv, [SystemNext]_sysvars
    PROVE  OfficeInv'
<1>1. CASE office.open /\ Change
  BY <1>1, ChangeKeepsOffice DEF OfficeInv, Closed
<1>2. ASSUME NEW s \in Stores, Launch(s) PROVE OfficeInv'
  BY <1>2 DEF OfficeInv, Closed, Launch
<1>3. CASE Crawl
  BY <1>3 DEF OfficeInv, Crawl
<1>4. CASE UNCHANGED sysvars
  BY <1>4 DEF OfficeInv, sysvars
<1> QED
  BY <1>1, <1>2, <1>3, <1>4 DEF SystemNext

LEMMA OfficeAlways == SystemSpec => []OfficeInv
<1>1. SystemInit => OfficeInv
  BY OfficeOpens DEF OfficeInv
<1>2. OfficeInv /\ [SystemNext]_sysvars => OfficeInv'
  BY StepKeepsOffice
<1> QED
  BY <1>1, <1>2, PTL DEF SystemSpec

-----------------------------------------------------------------------------
(* A store that is failing is acted on.                                    *)

LEMMA FailingStore ==
    ASSUME NEW w \in Offices, NEW s \in StoreNames,
           RunVerdict(w).stores[s].status = "failing"
    PROVE  /\ RunVerdict(w).stores[s] = StoreVerdict(w, s)
           /\ StoreVerdict(w, s).status = "failing"
           /\ StoreVerdict(w, s).alerts = Alerts(w.policy.o, w.counts[s])
           /\ StatusOf(w.policy.o, w.counts[s]) = "failing"
           /\ RunVerdict(w).status = "failing"
<1> DEFINE o == w.policy.o
           counts == w.counts
           run == RunStatus(o, counts)
<1>1. DOMAIN counts = StoreNames
  BY DEF Offices
<1>0. /\ run.status \in Considered(o, counts)
      /\ Considered(o, counts) \in SUBSET Statuses
      /\ \A x \in Considered(o, counts) : StatusRank[run.status] >= StatusRank[x]
      /\ run.stores = [t \in DOMAIN counts |-> StoreStatus(o, counts[t])]
  <2>1. \A a, b :
          /\ RunStatus(a, b).status \in Considered(a, b)
          /\ Considered(a, b) \in SUBSET Statuses
          /\ \A x \in Considered(a, b) :
               StatusRank[RunStatus(a, b).status] >= StatusRank[x]
          /\ RunStatus(a, b).stores = [t \in DOMAIN b |-> StoreStatus(a, b[t])]
    BY RunStatusIs
  <2> HIDE DEF o, counts
  <2> QED
    BY <2>1
<1>2. run.stores[s] = StoreStatus(o, counts[s])
  <2> HIDE DEF run, counts
  <2> QED
    BY <1>0, <1>1
<1>3. /\ StoreStatus(o, counts[s]).status = StatusOf(o, counts[s])
      /\ StoreStatus(o, counts[s]).alerts = Alerts(o, counts[s])
  BY DEF StoreStatus
<1>4. StatusOf(o, counts[s]) = "failing"
  BY <1>2, <1>3 DEF RunVerdict
<1>5. "failing" \in Considered(o, counts)
  BY <1>1, <1>4 DEF Considered
<1>6. run.status \in Statuses /\ StatusRank[run.status] >= StatusRank["failing"]
  <2> HIDE DEF run, counts
  <2> QED
    BY <1>0, <1>5
<1>7. run.status = "failing"
  <2> HIDE DEF run
  <2> QED
    BY <1>6 DEF Statuses, StatusRank
<1> QED
  BY <1>2, <1>3, <1>4, <1>7 DEF RunVerdict, StoreVerdict

LEMMA FailingIsTriaged ==
    ASSUME NEW o, NEW st, st.status = "failing", o.triage, o.disableStore => o.adviseDisable
    PROVE  Triage(o, st).severity = "critical" /\ Triage(o, st).action # "continue"
<1> DEFINE suggested == SuggestStoreAction(o, st)
           domain == IF StoreIncident(st) # "none" THEN StoreIncident(st)
                     ELSE IF DOMAIN st.alerts # {} THEN Foremost(st.alerts).domain ELSE "internal"
           action == IF domain = "crm_apply" /\ st.status = "failing"
                     THEN "downgrade_to_product_found" ELSE Runbook(o, suggested, domain)
<1>1. Triage(o, st) = [domain |-> domain, severity |-> TriageSeverity(st), action |-> action]
  BY DEF Triage
<1>2. TriageSeverity(st) = "critical"
  BY DEF TriageSeverity
<1>3. /\ suggested \in {"disable_store", "degrade"}
      /\ suggested = "disable_store" => o.adviseDisable
  <2>1. CASE ShouldDisable(o, st)
    BY <2>1 DEF SuggestStoreAction, ShouldDisable
  <2>2. CASE ~ShouldDisable(o, st)
    BY <2>2 DEF SuggestStoreAction
  <2> QED
    BY <2>1, <2>2
<1>4. Runbook(o, suggested, domain) # "continue"
  <2> HIDE DEF suggested, domain
  <2> QED
    BY <1>3 DEF Runbook
<1>5. action # "continue"
  <2> HIDE DEF suggested, domain
  <2> QED
    BY <1>4
<1> HIDE DEF domain, action
<1> QED
  BY <1>1, <1>2, <1>5

LEMMA FailingIsNoSuccess ==
    ASSUME NEW g, NEW o, NEW c, NEW said, StatusOf(o, c) = "failing",
           g.blockOnCritical, g.maxCritical = 0
    PROVE  LaunchOutcome(g, c, Alerts(o, c), said) # "successful"
<1> DEFINE alerts == Alerts(o, c)
           critical == {i \in DOMAIN alerts : alerts[i].severity = "critical"}
<1>1. critical # {}
  BY FailingIsCritical
<1>2. AlertCount(alerts, "critical") > 0
  BY <1>1, FiniteAlerts DEF AlertCount
<1>3. "first_hours" \in FailedCheckpoints(g, c, alerts, said)
  <2> HIDE DEF alerts
  <2> QED
    BY <1>2 DEF FailedCheckpoints
<1> HIDE DEF alerts
<1> DEFINE fired == Triggers(g, c, alerts, said)
<1>4. fired # {} \/ fired = {}
  OBVIOUS
<1>5. LaunchOutcome(g, c, alerts, said) =
        CASE fired \cap CriticalTriggers # {} -> "rolled_back"
          [] fired # {} /\ fired \cap CriticalTriggers = {} -> "degraded"
          [] /\ fired = {} /\ g.checkpoints
             /\ FailedCheckpoints(g, c, alerts, said) = {} -> "successful"
          [] OTHER -> "stabilizing"
  BY DEF LaunchOutcome
<1> HIDE DEF fired
<1> QED
  BY <1>3, <1>5 DEF alerts

LEMMA OfficeActsOnFailing == OfficeInv => FailingIsActedOn
<1> SUFFICES ASSUME office \in Offices PROVE FailingIsActedOn
  BY DEF OfficeInv, Closed, FailingIsActedOn
<1> DEFINE o == office.policy.o
           r == office.policy.r
           g == office.policy.g
           run == RunVerdict(office)
<1> SUFFICES ASSUME NEW s \in StoreNames, run.stores[s].status = "failing"
             PROVE  LET st == run.stores[s]
                    IN /\ run.status = "failing" /\ SuggestRunAction(o, run) # "continue"
                       /\ SuggestStoreAction(o, st) # "continue"
                       /\ r.adviseRollback => StoreRollback(r, st) # "none"
                       /\ r.blockFailing => ~CanStoreRun(r, office.lists[s], st.status)
                       /\ o.triage /\ (o.disableStore => o.adviseDisable) =>
                            /\ Triage(o, st).severity = "critical"
                            /\ Triage(o, st).action # "continue"
                            /\ RunTriage(o, run) # "continue"
                       /\ g.blockOnCritical /\ g.maxCritical = 0 =>
                            OutcomeVerdict(office, s) # "successful"
  BY DEF FailingIsActedOn
<1> DEFINE st == run.stores[s]
           c == office.counts[s]
<1>1. /\ st = StoreVerdict(office, s) /\ st.status = "failing" /\ st.alerts = Alerts(o, c)
      /\ StatusOf(o, c) = "failing" /\ run.status = "failing"
  BY FailingStore
<1>2. OutcomeVerdict(office, s) = LaunchOutcome(g, c, Alerts(o, c), office.said)
  BY <1>1 DEF OutcomeVerdict
<1> HIDE DEF run, st, c, o, r, g
<1>3. SuggestRunAction(o, run) \in {"fail_run", "degrade"}
  BY <1>1 DEF SuggestRunAction
<1>4. SuggestStoreAction(o, st) # "continue"
  <2>1. CASE ShouldDisable(o, st)
    BY <1>1, <2>1 DEF SuggestStoreAction
  <2>2. CASE ~ShouldDisable(o, st)
    BY <1>1, <2>2 DEF SuggestStoreAction
  <2> QED
    BY <2>1, <2>2
<1>5. ASSUME r.adviseRollback PROVE StoreRollback(r, st) # "none"
  <2> DEFINE critical == {i \in DOMAIN st.alerts : st.alerts[i].severity = "critical"}
             transport == {i \in critical : st.alerts[i].domain = "delivery_transport"}
             n == Cardinality(transport)
  <2>1. n \in Nat
    <3>1. transport \in SUBSET DOMAIN Alerts(o, c)
      BY <1>1
    <3> HIDE DEF transport
    <3> QED
      BY <3>1, FiniteAlerts
  <2>2. StoreRollback(r, st) =
          CASE ~r.adviseRollback -> "none"
            [] r.adviseRollback /\ n >= 2 -> "global"
            [] /\ r.adviseRollback /\ n < 2
               /\ critical # {} \/ st.status = "failing" -> "store"
            [] OTHER -> "none"
    BY DEF StoreRollback
  <2> HIDE DEF n, critical
  <2>3. CASE n >= 2
    BY <1>5, <2>1, <2>2, <2>3
  <2>4. CASE n < 2
    BY <1>1, <1>5, <2>1, <2>2, <2>4
  <2> QED
    BY <2>1, <2>3, <2>4
<1>6. r.blockFailing => ~CanStoreRun(r, office.lists[s], st.status)
  BY <1>1 DEF CanStoreRun
<1>7. ASSUME o.triage, o.disableStore => o.adviseDisable
      PROVE  /\ Triage(o, st).severity = "critical" /\ Triage(o, st).action # "continue"
             /\ RunTriage(o, run) # "continue"
  <2>1. Triage(o, st).severity = "critical" /\ Triage(o, st).action # "continue"
    BY <1>1, <1>7, FailingIsTriaged
  <2>2. RunTriage(o, run) # "continue"
    BY <1>3, <1>7 DEF RunTriage
  <2> QED
    BY <2>1, <2>2
<1>8. ASSUME g.blockOnCritical, g.maxCritical = 0
      PROVE  OutcomeVerdict(office, s) # "successful"
  BY <1>1, <1>2, <1>8, FailingIsNoSuccess
<1> QED
  BY <1>1, <1>3, <1>4, <1>5, <1>6, <1>7, <1>8 DEF st

(* A store that is failing is acted on by every part that looks at it, for *)
(* any counters and any settings.                                          *)
THEOREM FailingAlwaysActedOn == SystemSpec => []FailingIsActedOn
<1> QED
  BY OfficeAlways, OfficeActsOnFailing, PTL

-----------------------------------------------------------------------------
(* A launch for canaries is one of canaries.                               *)

LEMMA CanaryBuckets ==
    ASSUME NEW r, NEW f, NEW lists, NEW bucket,
           r.flags, r.canaryRollout, r.hashBased, f.known => f.canary,
           StoreStage(r.storePolicy, lists) = "canary",
           FeatureEnabled(r, f, [named |-> TRUE, allowed |-> TRUE, lists |-> lists], {}, bucket)
    PROVE  bucket < r.canaryPercentage
<1> DEFINE at == [named |-> TRUE, allowed |-> TRUE, lists |-> lists]
           stage == EffectiveStage(r, f, at, {})
<1>1. \A known : Narrow(known, "canary") \in {"disabled", "canary"}
  BY DEF Narrow, Rank
<1>2. stage \in {"disabled", "canary"}
  <2>1. at.named = TRUE /\ at.allowed = TRUE /\ at.lists = lists
    OBVIOUS
  <2> HIDE DEF at
  <2>2. StoreStage(r.storePolicy, at.lists) = "canary"
    BY <2>1
  <2> QED
    BY <1>1, <2>1, <2>2 DEF EffectiveStage
<1>3. stage = "canary" /\ bucket < Percentage(r, f, stage)
  <2>1. \/ stage = "full"
        \/ stage \in {"canary", "partial"} /\ bucket < Percentage(r, f, stage)
    BY DEF FeatureEnabled
  <2> HIDE DEF stage
  <2> QED
    BY <1>2, <2>1
<1>4. Percentage(r, f, "canary") = r.canaryPercentage
  BY DEF Percentage
<1> HIDE DEF stage
<1> QED
  BY <1>3, <1>4

LEMMA CanaryCriterion ==
    ASSUME NEW g, NEW report, NEW release, NEW said, NEW canary \in BOOLEAN, g.canaryOnly,
           FailedCriteriaOfScope(g, report, release, said, canary) = {}
    PROVE  canary
<1> SUFFICES ASSUME canary = FALSE PROVE FALSE
  OBVIOUS
<1>1. "canary" \in FailedCriteriaOfScope(g, report, release, said, canary)
  BY DEF FailedCriteriaOfScope
<1> QED
  BY <1>1

LEMMA CanaryStages ==
    ASSUME NEW w \in Offices, StoreNames # {},
           w.policy.g.canaryOnly, w.policy.g.given, LaunchVerdict(w) # "no_go",
           {"canary scope", "canary violation"} \cap (w.said.confirmed \cup w.said.denied) = {}
    PROVE  \A s \in StoreNames : StagesOf(w)[s] = "canary"
<1> DEFINE g == w.policy.g
           stages == StagesOf(w)
           report == Report(w.gone, StoreNames)
           release == ReleaseVerdict(w)
           said == w.said
<1>1. DOMAIN stages = StoreNames
  BY DEF StagesOf
<1>2. GoLiveDecision(g, report, release, said, g.given, stages) # "no_go"
  BY DEF LaunchVerdict
<1> HIDE DEF g, stages, report, release, said
<1>3. FailedCriteria(g, report, release, said, g.given, stages) = {}
  BY <1>2 DEF GoLiveDecision
<1> DEFINE canary == /\ CanaryScope(g, said, g.given, stages)
                     /\ ~CanaryViolation(g, said, g.given, stages)
<1>4. FailedCriteriaOfScope(g, report, release, said, canary) = {}
  BY <1>3 DEF FailedCriteria
<1>5. g.canaryOnly
  BY DEF g
<1>6. CanaryScope(g, said, g.given, stages)
  <2>1. canary \in BOOLEAN
    BY DEF CanaryScope, CanaryViolation, AllOnCanary
  <2> HIDE DEF canary
  <2>2. canary
    BY <1>4, <1>5, <2>1, CanaryCriterion
  <2> QED
    BY <2>2 DEF canary
<1>7. AllOnCanary(stages)
  BY <1>1, <1>6 DEF CanaryScope, g, said
<1> QED
  BY <1>1, <1>7 DEF AllOnCanary, stages

LEMMA OpenOffice == ASSUME OfficeInv, office.open PROVE office \in Offices
  BY DEF OfficeInv, Closed

LEMMA LaunchStep ==
    ASSUME OfficeInv, [SystemNext]_sysvars, office.open, ~office'.open
    PROVE  \E s \in Stores : Launch(s)
<1>1. office \in Offices
  BY OpenOffice
<1>2. CASE Change
  BY <1>1, <1>2, ChangeKeepsOffice
<1>3. CASE Crawl
  BY <1>3 DEF Crawl
<1>4. CASE UNCHANGED sysvars
  BY <1>4 DEF sysvars
<1> QED
  BY <1>2, <1>3, <1>4 DEF SystemNext

LEMMA StepIsCanary ==
    ASSUME OfficeInv, [SystemNext]_sysvars, office.open, ~office'.open,
           office.policy.g.canaryOnly, office.policy.g.given,
           {"canary scope", "canary violation"}
             \cap (office.said.confirmed \cup office.said.denied) = {}
    PROVE  /\ \A s \in StoreNames : StagesOf(office)[s] = "canary"
           /\ office.policy.r.flags /\ office.policy.r.canaryRollout
                /\ office.policy.r.hashBased
              => \A switch \in DOMAIN Feature :
                   SwitchOn(office, switch, store'.name)
                     => Bucket[store'.name][switch] < office.policy.r.canaryPercentage
<1>1. office \in Offices
  BY OpenOffice
<1>2. PICK s \in Stores : Launch(s)
  BY LaunchStep
<1>3. store'.name = s.name /\ s.name \in StoreNames
  <2>1. s \in StoreType
    BY AccessAssumption DEF AccessAssumption
  <2>2. store' = Switched(office, s)
    BY <1>2 DEF Launch
  <2> QED
    BY <2>1, <2>2 DEF Switched, StoreType, StoreNames
<1>4. \A t \in StoreNames : StagesOf(office)[t] = "canary"
  <2>1. LaunchVerdict(office) # "no_go"
    BY <1>2 DEF Launch
  <2>2. StoreNames # {}
    BY <1>3
  <2> QED
    BY <1>1, <2>1, <2>2, CanaryStages
<1>5. ASSUME office.policy.r.flags, office.policy.r.canaryRollout, office.policy.r.hashBased,
             NEW switch \in DOMAIN Feature, SwitchOn(office, switch, store'.name)
      PROVE  Bucket[store'.name][switch] < office.policy.r.canaryPercentage
  <2> DEFINE n == store'.name
             lists == office.lists[n]
             r == office.policy.r
             bucket == Bucket[n][switch]
             f == Feature[switch]
  <2>1. StoreStage(r.storePolicy, lists) = "canary"
    BY <1>3, <1>4 DEF StagesOf
  <2>2. FeatureEnabled(r, f, [named |-> TRUE, allowed |-> TRUE, lists |-> lists], {}, bucket)
    BY <1>5 DEF SwitchOn
  <2>3. f.known => f.canary
    BY OperationsAssumption DEF OperationsAssumption
  <2>4. r.flags /\ r.canaryRollout /\ r.hashBased
    BY <1>5
  <2> HIDE DEF n, lists, r, bucket, f
  <2>5. bucket < r.canaryPercentage
    BY <2>1, <2>2, <2>3, <2>4, CanaryBuckets
  <2> QED
    BY <2>5 DEF n, r, bucket
<1> QED
  BY <1>4, <1>5

(* With the canary as the only scope, a launch is of stores on the canary  *)
(* stage, and a switch of its crawl is on within the canary's buckets      *)
(* alone, for any settings, registry, lists and buckets.                   *)
THEOREM LaunchAlwaysCanary == SystemSpec => LaunchIsCanary
<1>1. OfficeInv /\ [SystemNext]_sysvars =>
        (/\ office.open /\ ~office'.open /\ office.policy.g.canaryOnly /\ office.policy.g.given
         /\ {"canary scope", "canary violation"}
              \cap (office.said.confirmed \cup office.said.denied) = {}
         => /\ \A s \in StoreNames : StagesOf(office)[s] = "canary"
            /\ office.policy.r.flags /\ office.policy.r.canaryRollout
                 /\ office.policy.r.hashBased
               => \A switch \in DOMAIN Feature :
                    SwitchOn(office, switch, store'.name)
                      => Bucket[store'.name][switch] < office.policy.r.canaryPercentage)
  BY StepIsCanary
<1> QED
  BY <1>1, OfficeAlways, PTL DEF SystemSpec, LaunchIsCanary

-----------------------------------------------------------------------------
(* The counters of all stores together.                                    *)

First(T) == CHOOSE x \in T : TRUE

(* What is so of the empty set, and of each set if it is so without the    *)
(* first of its elements, is so of every subset of a finite set.           *)
LEMMA OneByOne ==
    ASSUME NEW S, IsFiniteSet(S), NEW P \in SUBSET SUBSET S, {} \in P,
           \A T \in SUBSET S : T # {} /\ T \ {First(T)} \in P => T \in P
    PROVE  P = SUBSET S
<1> DEFINE Sizes == {Cardinality(T) : T \in (SUBSET S) \ P}
<1>1. \A T \in SUBSET S : IsFiniteSet(T) /\ Cardinality(T) \in Nat
  BY FS_Subset, FS_CardinalityType
<1>2. \A T \in SUBSET S : T # {} => Cardinality(T \ {First(T)}) = Cardinality(T) - 1
  <2> SUFFICES ASSUME NEW T \in SUBSET S, T # {}
               PROVE  Cardinality(T \ {First(T)}) = Cardinality(T) - 1
    OBVIOUS
  <2>1. First(T) \in T
    BY DEF First
  <2> QED
    BY <1>1, <2>1, FS_RemoveElement
<1> SUFFICES ASSUME (SUBSET S) \ P # {} PROVE FALSE
  OBVIOUS
<1>3. Sizes \in SUBSET Nat /\ Sizes # {}
  BY <1>1
<1>4. PICK n \in Sizes : \A k \in Sizes : n <= k
  BY <1>3, LeastNumber
<1>5. PICK T \in (SUBSET S) \ P : n = Cardinality(T)
  BY <1>4
<1>6. T # {}
  <2>1. T \notin P
    BY <1>5
  <2> QED
    BY <2>1, Zenon
<1>7. T \ {First(T)} \in (SUBSET S) \ P
  BY <1>5, <1>6
<1>8. Cardinality(T) - 1 \in Sizes
  BY <1>2, <1>5, <1>6, <1>7
<1>9. Cardinality(T) <= Cardinality(T) - 1
  BY <1>4, <1>5, <1>8
<1> QED
  BY <1>1, <1>5, <1>9

Around(S, n, f) ==
    [T \in SUBSET S |-> IF T = {} THEN 0 ELSE n[First(T)] + f[T \ {First(T)}]]

Total(S, n) == CHOOSE f : f = Around(S, n, f)

LEMMA TotalExists ==
    ASSUME NEW S, IsFiniteSet(S), NEW n \in [S -> Nat]
    PROVE  \E f : f = Around(S, n, f)
<1>1. \A T \in SUBSET S : IsFiniteSet(T) /\ Cardinality(T) \in Nat /\ (T = {} <=> Cardinality(T) = 0)
  BY FS_Subset, FS_CardinalityType, FS_EmptySet
<1>2. \A T \in SUBSET S : T # {} => /\ First(T) \in S /\ T \ {First(T)} \in SUBSET S
                                   /\ Cardinality(T \ {First(T)}) = Cardinality(T) - 1
  <2> SUFFICES ASSUME NEW T \in SUBSET S, T # {}
               PROVE  /\ First(T) \in S /\ T \ {First(T)} \in SUBSET S
                      /\ Cardinality(T \ {First(T)}) = Cardinality(T) - 1
    OBVIOUS
  <2>1. First(T) \in T
    BY DEF First
  <2> QED
    BY <1>1, <2>1, FS_RemoveElement
<1> DEFINE Below(i) == \E f \in [SUBSET S -> Nat] :
                         \A T \in SUBSET S : Cardinality(T) < i => f[T] = Around(S, n, f)[T]
           Not == {i \in Nat : ~Below(i)}
<1>3. Below(0)
  <2>1. [T \in SUBSET S |-> 0] \in [SUBSET S -> Nat]
    OBVIOUS
  <2>2. \A T \in SUBSET S : ~(Cardinality(T) < 0)
    BY <1>1
  <2> QED
    BY <2>1, <2>2, Zenon
<1>4. ASSUME NEW i \in Nat, Below(i) PROVE Below(i + 1)
  <2>1. PICK f \in [SUBSET S -> Nat] :
          \A T \in SUBSET S : Cardinality(T) < i => f[T] = Around(S, n, f)[T]
    BY <1>4
  <2> DEFINE g == [T \in SUBSET S |-> IF Cardinality(T) = i THEN Around(S, n, f)[T] ELSE f[T]]
  <2>2. ASSUME NEW T \in SUBSET S PROVE Around(S, n, f)[T] \in Nat
    <3>1. CASE T = {}
      BY <3>1 DEF Around
    <3>2. CASE T # {}
      <4>1. First(T) \in S /\ T \ {First(T)} \in SUBSET S
        BY <1>2, <3>2
      <4>2. n[First(T)] \in Nat /\ f[T \ {First(T)}] \in Nat
        BY <4>1
      <4> QED
        BY <3>2, <4>2 DEF Around
    <3> QED
      BY <3>1, <3>2
  <2>3. g \in [SUBSET S -> Nat]
    BY <2>2
  <2>4. ASSUME NEW T \in SUBSET S, Cardinality(T) < i + 1 PROVE g[T] = Around(S, n, g)[T]
    <3>1. T # {} => g[T \ {First(T)}] = f[T \ {First(T)}]
      BY <1>1, <1>2, <2>4
    <3>2. Around(S, n, g)[T] = Around(S, n, f)[T]
      BY <3>1 DEF Around
    <3>3. Cardinality(T) # i => Cardinality(T) < i
      BY <1>1, <2>4
    <3> QED
      BY <2>1, <3>2, <3>3
  <2> QED
    BY <2>3, <2>4
<1> HIDE DEF Below
<1>5. \A i \in Nat : Below(i)
  <2> SUFFICES ASSUME Not # {} PROVE FALSE
    OBVIOUS
  <2>1. PICK i \in Not : \A k \in Not : i <= k
    BY LeastNumber
  <2>2. i # 0
    BY <1>3
  <2>3. i - 1 \in Nat /\ i - 1 \notin Not
    BY <2>1, <2>2
  <2>4. Below(i - 1)
    BY <2>3
  <2>5. Below(i - 1 + 1)
    BY <1>4, <2>3, <2>4
  <2>6. i - 1 + 1 = i
    BY <2>1
  <2> QED
    BY <2>5, <2>6
<1>6. Below(Cardinality(S) + 1)
  BY <1>1, <1>5
<1>7. PICK f \in [SUBSET S -> Nat] :
        \A T \in SUBSET S : Cardinality(T) < Cardinality(S) + 1 => f[T] = Around(S, n, f)[T]
  BY <1>6 DEF Below
<1>8. \A T \in SUBSET S : Cardinality(T) < Cardinality(S) + 1
  <2>1. \A T \in SUBSET S : Cardinality(T) <= Cardinality(S)
    BY FS_Subset
  <2> QED
    BY <1>1, <2>1
<1>9. f = Around(S, n, f)
  <2>1. \A T \in SUBSET S : f[T] = Around(S, n, f)[T]
    BY <1>7, <1>8
  <2> QED
    BY <2>1 DEF Around
<1> QED
  BY <1>9

LEMMA TotalIs ==
    ASSUME NEW S, IsFiniteSet(S), NEW n \in [S -> Nat]
    PROVE  /\ Total(S, n) = Around(S, n, Total(S, n))
           /\ \A T \in SUBSET S : Total(S, n)[T] \in Nat
<1> DEFINE f == Total(S, n)
<1>1. f = Around(S, n, f)
  BY TotalExists DEF Total
<1> HIDE DEF f
<1>2. \A T \in SUBSET S : f[T] = IF T = {} THEN 0 ELSE n[First(T)] + f[T \ {First(T)}]
  BY <1>1 DEF Around
<1> DEFINE P == {T \in SUBSET S : f[T] \in Nat}
<1>3. {} \in P
  <2>1. {} \in SUBSET S
    OBVIOUS
  <2>2. f[{}] = 0
    BY <1>2, <2>1
  <2> QED
    BY <2>1, <2>2
<1>4. ASSUME NEW T \in SUBSET S, T # {}, T \ {First(T)} \in P PROVE T \in P
  <2>1. First(T) \in S
    BY <1>4 DEF First
  <2> QED
    BY <1>2, <1>4, <2>1
<1>5. P \in SUBSET SUBSET S
  OBVIOUS
<1> HIDE DEF P
<1>6. P = SUBSET S
  BY <1>3, <1>4, <1>5, OneByOne
<1> QED
  BY <1>1, <1>6 DEF P, f

LEMMA TotalGrows ==
    ASSUME NEW S, IsFiniteSet(S), NEW n \in [S -> Nat], NEW m \in [S -> Nat],
           \A s \in S : n[s] <= m[s]
    PROVE  Total(S, n)[S] <= Total(S, m)[S]
<1> DEFINE f == Total(S, n)
           h == Total(S, m)
           P == {T \in SUBSET S : f[T] <= h[T]}
<1>1. /\ f = Around(S, n, f) /\ \A T \in SUBSET S : f[T] \in Nat
      /\ h = Around(S, m, h) /\ \A T \in SUBSET S : h[T] \in Nat
  BY TotalIs
<1> HIDE DEF f, h
<1>2. /\ \A T \in SUBSET S : f[T] = IF T = {} THEN 0 ELSE n[First(T)] + f[T \ {First(T)}]
      /\ \A T \in SUBSET S : h[T] = IF T = {} THEN 0 ELSE m[First(T)] + h[T \ {First(T)}]
  BY <1>1 DEF Around
<1>3. {} \in P
  <2>1. {} \in SUBSET S
    OBVIOUS
  <2>2. f[{}] = 0 /\ h[{}] = 0
    BY <1>2, <2>1
  <2> QED
    BY <2>1, <2>2
<1>4. ASSUME NEW T \in SUBSET S, T # {}, T \ {First(T)} \in P PROVE T \in P
  <2> DEFINE x == First(T)
             U == T \ {x}
  <2>1. x \in S /\ U \in SUBSET S
    BY <1>4 DEF First
  <2>2. f[T] = n[x] + f[U] /\ h[T] = m[x] + h[U] /\ f[U] <= h[U]
    BY <1>2, <1>4
  <2>3. n[x] \in Nat /\ m[x] \in Nat /\ n[x] <= m[x] /\ f[U] \in Nat /\ h[U] \in Nat
    BY <1>1, <2>1
  <2> HIDE DEF x, U
  <2> QED
    BY <2>2, <2>3
<1>5. P \in SUBSET SUBSET S
  OBVIOUS
<1> HIDE DEF P
<1>6. P = SUBSET S
  BY <1>3, <1>4, <1>5, OneByOne
<1> QED
  BY <1>6 DEF P, f, h

(* The counts of all stores are sums. *)
LEMMA MergedIsTotal ==
    ASSUME NEW counts, NEW k \in Counters
    PROVE  Merged(counts)[k]
             = Total(DOMAIN counts, [s \in DOMAIN counts |-> counts[s][k]])[DOMAIN counts]
<1> DEFINE S == DOMAIN counts
           n == [s \in S |-> counts[s][k]]
           Iter(f) == [T \in SUBSET S |->
                         IF T = {} THEN 0
                         ELSE counts[CHOOSE x \in T : TRUE][k] + f[T \ {CHOOSE x \in T : TRUE}]]
<1>1. Merged(counts)[k] = (CHOOSE f : f = Iter(f))[S]
  BY DEF Merged, MapThenSumSet, MapThenFoldSet
<1>2. \A f : Iter(f) = Around(S, n, f)
  <2> SUFFICES ASSUME NEW f PROVE Iter(f) = Around(S, n, f)
    OBVIOUS
  <2>1. \A T \in SUBSET S : T # {} => n[First(T)] = counts[First(T)][k]
    BY DEF First
  <2> QED
    BY <2>1 DEF Around, First
<1> HIDE DEF Iter
<1>3. (CHOOSE f : f = Iter(f)) = Total(S, n)
  BY <1>2 DEF Total
<1> QED
  BY <1>1, <1>3

Tables == [StoreNames -> [Counters -> Nat]]

LEMMA MergedType ==
    ASSUME NEW counts \in Tables
    PROVE  Merged(counts) \in [Counters -> Nat]
<1>1. ASSUME NEW k \in Counters PROVE Merged(counts)[k] \in Nat
  <2> DEFINE n == [s \in StoreNames |-> counts[s][k]]
  <2>1. DOMAIN counts = StoreNames /\ n \in [StoreNames -> Nat]
    BY DEF Tables
  <2>2. IsFiniteSet(StoreNames)
    BY OperationsAssumption DEF OperationsAssumption
  <2>3. Merged(counts)[k] = Total(StoreNames, n)[StoreNames]
    BY <2>1, MergedIsTotal
  <2> HIDE DEF n
  <2> QED
    BY <2>1, <2>2, <2>3, TotalIs
<1> DEFINE sum(k) == MapThenSumSet(LAMBDA s : counts[s][k], DOMAIN counts)
<1>2. Merged(counts) = [k \in Counters |-> sum(k)]
  BY DEF Merged
<1> HIDE DEF sum
<1> QED
  BY <1>1, <1>2

LEMMA MergedGrows ==
    ASSUME NEW before \in Tables, NEW after \in Tables, NEW k \in Counters,
           \A s \in StoreNames : before[s][k] <= after[s][k]
    PROVE  Merged(before)[k] <= Merged(after)[k]
<1> DEFINE n == [s \in StoreNames |-> before[s][k]]
           m == [s \in StoreNames |-> after[s][k]]
<1>1. /\ DOMAIN before = StoreNames /\ n \in [StoreNames -> Nat]
      /\ DOMAIN after = StoreNames /\ m \in [StoreNames -> Nat]
      /\ \A s \in StoreNames : n[s] <= m[s]
  BY DEF Tables
<1>2. IsFiniteSet(StoreNames)
  BY OperationsAssumption DEF OperationsAssumption
<1>3. /\ Merged(before)[k] = Total(StoreNames, n)[StoreNames]
      /\ Merged(after)[k] = Total(StoreNames, m)[StoreNames]
  BY <1>1, MergedIsTotal, ZenonT(60)
<1> HIDE DEF n, m
<1> QED
  BY <1>1, <1>2, <1>3, TotalGrows

-----------------------------------------------------------------------------
(* Health gets no better with the rates.                                   *)

Targets(o) == \A m \in Names : o.slo[m] \in Nat

(* No rate is better in d than in c, and nothing is counted less.          *)
Sinks(o, c, d) ==
    /\ \A k \in Counters : c[k] <= d[k]
    /\ NoneBetter(o, c, d)

LEMMA SinksFromItself ==
    ASSUME NEW o, NEW c \in [Counters -> Nat]
    PROVE  Sinks(o, c, c)
<1>1. \A k \in Counters : c[k] <= c[k]
  OBVIOUS
<1>2. ASSUME NEW m \in Names PROVE NoBetter(c, c, m)
  <2> DEFINE x == Observed(c)[m]
  <2>1. x \in Rates
    BY RatesAreRates
  <2> HIDE DEF x
  <2>2. x.part * x.whole <= x.part * x.whole
    BY <2>1 DEF Rates
  <2> QED
    BY <2>2 DEF NoBetter, x
<1> QED
  BY <1>1, <1>2, MetricNames DEF Sinks, NoneBetter

Low == {"parse", "apply", "items"}

LEMMA OverStays ==
    ASSUME NEW c \in [Counters -> Nat], NEW d \in [Counters -> Nat], NEW m \in Names \ Low,
           NEW p \in Int, NoBetter(c, d, m), Over(Observed(c)[m], p)
    PROVE  Over(Observed(d)[m], p)
<1> DEFINE a == Observed(c)[m]
           b == Observed(d)[m]
<1>1. a \in Rates /\ b \in Rates
  BY RatesAreRates
<1>2. a.part * b.whole <= b.part * a.whole
  BY DEF NoBetter, Low
<1> HIDE DEF a, b
<1>3. Over(a, p)
  BY DEF a
<1>4. Over(b, p)
  BY <1>1, <1>2, <1>3, OverGrows
<1> QED
  BY <1>4 DEF b

LEMMA UnderStays ==
    ASSUME NEW c \in [Counters -> Nat], NEW d \in [Counters -> Nat], NEW m \in Low,
           NEW p \in Int, NoBetter(c, d, m), Under(Observed(c)[m], p)
    PROVE  Under(Observed(d)[m], p)
<1> DEFINE a == Observed(c)[m]
           b == Observed(d)[m]
<1>1. a \in Rates /\ b \in Rates
  BY RatesAreRates DEF Low, Names
<1>2. b.part * a.whole <= a.part * b.whole
  BY DEF NoBetter, Low
<1> HIDE DEF a, b
<1>3. Under(a, p)
  BY DEF a
<1>4. Under(b, p)
  BY <1>1, <1>2, <1>3, UnderSinks
<1> QED
  BY <1>4 DEF b

LEMMA ItemsObserved ==
    ASSUME NEW c
    PROVE  Observed(c)["items"] = [part |-> c["items"], whole |-> 1]
<1>1. "items" \in ToSet(Metrics)
  BY MetricNames DEF Names
<1> QED
  BY <1>1 DEF Observed

LEMMA ItemsStay ==
    ASSUME NEW o, Targets(o), NEW c \in [Counters -> Nat], NEW d \in [Counters -> Nat],
           Sinks(o, c, d), Breached(o, c, "items")
    PROVE  d["items"] = c["items"] /\ Breached(o, d, "items")
<1>1. c["items"] \in Nat /\ d["items"] \in Nat /\ c["items"] <= d["items"]
  BY DEF Sinks, Counters
<1>2. NoBetter(c, d, "items")
  BY MetricNames DEF Sinks, NoneBetter, Names
<1>3. d["items"] * 1 <= c["items"] * 1
  <2>1. /\ Observed(c)["items"].part = c["items"] /\ Observed(c)["items"].whole = 1
        /\ Observed(d)["items"].part = d["items"] /\ Observed(d)["items"].whole = 1
    <3>1. /\ Observed(c)["items"] = [part |-> c["items"], whole |-> 1]
          /\ Observed(d)["items"] = [part |-> d["items"], whole |-> 1]
      BY ItemsObserved
    <3> QED
      BY <3>1
  <2>2. Observed(d)["items"].part * Observed(c)["items"].whole
          <= Observed(c)["items"].part * Observed(d)["items"].whole
    BY <1>2 DEF NoBetter
  <2> QED
    BY <2>1, <2>2
<1>4. d["items"] = c["items"]
  BY <1>1, <1>3
<1> QED
  BY <1>4 DEF Breached

LEMMA RatesSink ==
    ASSUME NEW o, NEW c, NEW d, Sinks(o, c, d), NEW m \in Names, m # "items"
    PROVE  NoBetter(c, d, m)
BY MetricNames DEF Sinks, NoneBetter

LEMMA BreachStays ==
    ASSUME NEW o, Targets(o), NEW c \in [Counters -> Nat], NEW d \in [Counters -> Nat],
           Sinks(o, c, d), NEW m \in Names, Breached(o, c, m)
    PROVE  Breached(o, d, m) /\ BaseSeverity(d, m) = BaseSeverity(c, m)
<1>1. o.slo[m] \in Int
  BY DEF Targets
<1>2. CASE m = "items"
  BY <1>2, ItemsStay DEF BaseSeverity
<1>3. CASE m \in {"parse", "apply"}
  <2>1. NoBetter(c, d, m)
    BY <1>3, RatesSink
  <2>2. Under(Observed(c)[m], o.slo[m])
    BY <1>3 DEF Breached
  <2>3. Under(Observed(d)[m], o.slo[m])
    BY <1>1, <1>3, <2>1, <2>2, UnderStays DEF Low
  <2> QED
    BY <1>3, <2>3 DEF Breached, BaseSeverity
<1>4. CASE m \notin Low
  <2>1. NoBetter(c, d, m)
    BY <1>4, RatesSink DEF Low
  <2>2. Over(Observed(c)[m], o.slo[m])
    BY <1>4 DEF Breached, Low
  <2>3. Over(Observed(d)[m], o.slo[m])
    BY <1>1, <1>4, <2>1, <2>2, OverStays
  <2> QED
    BY <1>4, <2>3 DEF Breached, BaseSeverity, Low
<1> QED
  BY <1>2, <1>3, <1>4 DEF Low

LEMMA DistanceGrows ==
    ASSUME NEW o, Targets(o), NEW c \in [Counters -> Nat], NEW d \in [Counters -> Nat],
           Sinks(o, c, d), NEW m \in Names
    PROVE  SeverityRank[Distance(o, c, m)] <= SeverityRank[Distance(o, d, m)]
<1> DEFINE n == o.slo[m]
           a == Observed(c)[m]
           b == Observed(d)[m]
<1>1. n \in Nat
  BY DEF Targets
<1>2. ASSUME m \in Names \ Low
      PROVE  \A p \in Int : Over(a, p) => Over(b, p)
  BY <1>2, OverStays, RatesSink DEF Low
<1>3. ASSUME m \in {"parse", "apply"}
      PROVE  \A p \in Int : Under(a, p) => Under(b, p)
  <2>1. m \in Low /\ NoBetter(c, d, m)
    BY <1>3, RatesSink DEF Low
  <2> QED
    BY <2>1, UnderStays
<1>4. /\ 3 * n \in Int /\ 85 \in Int /\ n + 15 \in Int /\ n + 5 \in Int /\ n + 25 \in Int
      /\ n - 15 \in Int /\ n - 8 \in Int /\ n + 20 \in Int /\ n + 8 \in Int
  BY <1>1
<1> HIDE DEF n, a, b
<1>5. CASE m \in {"block", "malformed", "reconciliation"}
  <2>1. \A p \in Int : Over(a, p) => Over(b, p)
    BY <1>2, <1>5 DEF Low
  <2>2. /\ Over(a, n + 15) \/ Over(a, 3 * n) => Over(b, n + 15) \/ Over(b, 3 * n)
        /\ Over(a, n + 5) => Over(b, n + 5)
    BY <1>4, <2>1
  <2>3. \A o1, c1 : Distance(o1, c1, m) =
          IF Over(Observed(c1)[m], o1.slo[m] + 15) \/ Over(Observed(c1)[m], 3 * o1.slo[m])
          THEN "critical"
          ELSE IF Over(Observed(c1)[m], o1.slo[m] + 5) THEN "high" ELSE "warning"
    BY <1>5 DEF Distance
  <2>4. /\ Distance(o, c, m) = IF Over(a, n + 15) \/ Over(a, 3 * n) THEN "critical"
                               ELSE IF Over(a, n + 5) THEN "high" ELSE "warning"
        /\ Distance(o, d, m) = IF Over(b, n + 15) \/ Over(b, 3 * n) THEN "critical"
                               ELSE IF Over(b, n + 5) THEN "high" ELSE "warning"
    BY <2>3 DEF a, b, n
  <2> QED
    BY <2>2, <2>4 DEF SeverityRank
<1>6. CASE m \in {"coverage", "duplicate"}
  <2>1. \A p \in Int : Over(a, p) => Over(b, p)
    BY <1>2, <1>6 DEF Low
  <2>2. /\ Over(a, 85) => Over(b, 85)
        /\ Over(a, n + 25) => Over(b, n + 25)
    BY <1>4, <2>1
  <2>4. /\ Distance(o, c, m) = IF m = "duplicate" /\ Over(a, 85) THEN "high"
                               ELSE IF Over(a, n + 25) THEN "warning" ELSE "info"
        /\ Distance(o, d, m) = IF m = "duplicate" /\ Over(b, 85) THEN "high"
                               ELSE IF Over(b, n + 25) THEN "warning" ELSE "info"
    BY <1>6 DEF Distance, a, b, n
  <2> QED
    BY <2>2, <2>4 DEF SeverityRank
<1>7. CASE m \in {"parse", "apply"}
  <2>2. /\ Under(a, n - 15) => Under(b, n - 15)
        /\ Under(a, n - 8) => Under(b, n - 8)
    BY <1>3, <1>4, <1>7
  <2>4. /\ Distance(o, c, m) = IF Under(a, n - 15) THEN "critical"
                               ELSE IF Under(a, n - 8) THEN "high" ELSE "warning"
        /\ Distance(o, d, m) = IF Under(b, n - 15) THEN "critical"
                               ELSE IF Under(b, n - 8) THEN "high" ELSE "warning"
    BY <1>7 DEF Distance, a, b, n
  <2> QED
    BY <2>2, <2>4 DEF SeverityRank
<1>8. CASE m = "rejected"
  <2>1. \A p \in Int : Over(a, p) => Over(b, p)
    BY <1>2, <1>8 DEF Low
  <2>2. /\ Over(a, n + 20) => Over(b, n + 20)
        /\ Over(a, n + 8) => Over(b, n + 8)
    BY <1>4, <2>1
  <2>4. /\ Distance(o, c, m) = IF Over(a, n + 20) THEN "critical"
                               ELSE IF Over(a, n + 8) THEN "high" ELSE "warning"
        /\ Distance(o, d, m) = IF Over(b, n + 20) THEN "critical"
                               ELSE IF Over(b, n + 8) THEN "high" ELSE "warning"
    BY <1>8 DEF Distance, a, b, n
  <2> QED
    BY <2>2, <2>4 DEF SeverityRank
<1>9. CASE m = "retryable"
  <2>1. \A p \in Int : Over(a, p) => Over(b, p)
    BY <1>2, <1>9 DEF Low
  <2>2. Over(a, n + 15) => Over(b, n + 15)
    BY <1>4, <2>1
  <2>4. /\ Distance(o, c, m) = IF Over(a, n + 15) THEN "high" ELSE "warning"
        /\ Distance(o, d, m) = IF Over(b, n + 15) THEN "high" ELSE "warning"
    BY <1>9 DEF Distance, a, b, n
  <2> QED
    BY <2>2, <2>4 DEF SeverityRank
<1>10. CASE m = "zero results"
  <2>1. \A p \in Int : Over(a, p) => Over(b, p)
    BY <1>2, <1>10 DEF Low
  <2>2. Over(a, n + 25) => Over(b, n + 25)
    BY <1>4, <2>1
  <2>4. /\ Distance(o, c, m) = IF Over(a, n + 25) THEN "high" ELSE "warning"
        /\ Distance(o, d, m) = IF Over(b, n + 25) THEN "high" ELSE "warning"
    BY <1>10 DEF Distance, a, b, n
  <2> QED
    BY <2>2, <2>4 DEF SeverityRank
<1>11. CASE m = "items"
  BY <1>11 DEF Distance, SeverityRank
<1> QED
  BY <1>5, <1>6, <1>7, <1>8, <1>9, <1>10, <1>11 DEF Names

(* An alert stays, and is no less severe.                                  *)
LEMMA AlertStays ==
    ASSUME NEW o, Targets(o), NEW c \in [Counters -> Nat], NEW d \in [Counters -> Nat],
           Sinks(o, c, d), NEW i \in DOMAIN Alerts(o, c)
    PROVE  /\ i \in DOMAIN Alerts(o, d)
           /\ Alerts(o, d)[i].domain = Alerts(o, c)[i].domain
           /\ Alerts(o, c)[i].severity \in Severities /\ Alerts(o, d)[i].severity \in Severities
           /\ SeverityRank[Alerts(o, c)[i].severity] <= SeverityRank[Alerts(o, d)[i].severity]
<1> DEFINE m == Metrics[i]
           x == Distance(o, c, m)
           y == Distance(o, d, m)
           b == BaseSeverity(c, m)
<1>1. i \in 1..11 /\ m \in Names /\ Breached(o, c, m)
  <2>1. DOMAIN Alerts(o, c) = {j \in 1..11 : Breached(o, c, Metrics[j])}
    BY AlertAt
  <2> QED
    BY <2>1, MetricNames
<1>2. Breached(o, d, m) /\ BaseSeverity(d, m) = b
  <2> HIDE DEF m
  <2> QED
    BY <1>1, BreachStays
<1>3. i \in DOMAIN Alerts(o, d)
  <2>1. DOMAIN Alerts(o, d) = {j \in 1..11 : Breached(o, d, Metrics[j])}
    BY AlertAt
  <2> QED
    BY <1>1, <1>2, <2>1
<1>4. /\ Alerts(o, c)[i].severity = WorstSeverity(x, b) /\ Alerts(o, c)[i].domain = Domain(m)
      /\ Alerts(o, d)[i].severity = WorstSeverity(y, b) /\ Alerts(o, d)[i].domain = Domain(m)
      /\ Alerts(o, c)[i].severity \in Severities /\ Alerts(o, d)[i].severity \in Severities
  <2>1. /\ Alerts(o, d)[i].severity = WorstSeverity(y, BaseSeverity(d, m))
        /\ Alerts(o, d)[i].domain = Domain(m) /\ Alerts(o, d)[i].severity \in Severities
    BY <1>3, AlertAt, ZenonT(60)
  <2>2. /\ Alerts(o, c)[i].severity = WorstSeverity(x, b)
        /\ Alerts(o, c)[i].domain = Domain(m) /\ Alerts(o, c)[i].severity \in Severities
    BY AlertAt, ZenonT(60)
  <2> QED
    BY <1>2, <2>1, <2>2, Zenon
<1>5. SeverityRank[x] <= SeverityRank[y] /\ x \in Severities /\ y \in Severities /\ b \in Severities
  BY <1>1, DistanceGrows, DistanceType, BaseSeverityType
<1> HIDE DEF m, x, y, b
<1>6. SeverityRank[WorstSeverity(x, b)] <= SeverityRank[WorstSeverity(y, b)]
  BY <1>5 DEF WorstSeverity, SeverityRank, Severities
<1> QED
  BY <1>3, <1>4, <1>6

LEMMA StatusSinks ==
    ASSUME NEW o, Targets(o), NEW c \in [Counters -> Nat], NEW d \in [Counters -> Nat],
           Sinks(o, c, d)
    PROVE  StatusRank[StatusOf(o, c)] <= StatusRank[StatusOf(o, d)]
<1> DEFINE F(x) == {BaseSeverity(x, m) : m \in {n \in ToSet(Metrics) : Breached(o, x, n)}}
<1>1. F(c) \subseteq F(d)
  BY BreachStays, MetricNames
<1>2. \A x : StatusOf(o, x) = IF "critical" \in F(x) THEN "failing"
                              ELSE IF {"high", "warning"} \cap F(x) # {} THEN "degraded"
                              ELSE "healthy"
  BY DEF StatusOf
<1> HIDE DEF F
<1>3. /\ "critical" \in F(c) => "critical" \in F(d)
      /\ {"high", "warning"} \cap F(c) # {} => {"high", "warning"} \cap F(d) # {}
  BY <1>1
<1> QED
  BY <1>2, <1>3 DEF StatusRank

-----------------------------------------------------------------------------
(* Nor does the run, or the outcome of the launch.                         *)

Stressed(o, counts, d) ==
    {s \in DOMAIN counts : HasAlert(Alerts(o, counts[s]), {d}, {"high", "critical"})}

LEMMA SharedIs ==
    ASSUME NEW o, NEW counts
    PROVE  RunStatus(o, counts).global
             = {d \in {"delivery_transport", "crm_apply"} : Cardinality(Stressed(o, counts, d)) >= 2}
<1> DEFINE status == [s \in DOMAIN counts |-> StoreStatus(o, counts[s])]
           stressed(d) == {s \in DOMAIN counts : HasAlert(status[s].alerts, {d}, {"high", "critical"})}
<1>1. RunStatus(o, counts).global
        = {d \in {"delivery_transport", "crm_apply"} : Cardinality(stressed(d)) >= 2}
  BY DEF RunStatus
<1>2. \A s \in DOMAIN counts : status[s].alerts = Alerts(o, counts[s])
  BY DEF StoreStatus
<1>3. \A d : stressed(d) = Stressed(o, counts, d)
  <2> HIDE DEF status
  <2> QED
    BY <1>2 DEF Stressed
<1> HIDE DEF stressed
<1> QED
  BY <1>1, <1>3

LEMMA HasAlertStays ==
    ASSUME NEW o, Targets(o), NEW c \in [Counters -> Nat], NEW d \in [Counters -> Nat],
           Sinks(o, c, d), NEW x, HasAlert(Alerts(o, c), {x}, {"high", "critical"})
    PROVE  HasAlert(Alerts(o, d), {x}, {"high", "critical"})
<1>1. PICK i \in DOMAIN Alerts(o, c) :
        Alerts(o, c)[i].domain = x /\ Alerts(o, c)[i].severity \in {"high", "critical"}
  BY DEF HasAlert
<1>2. /\ i \in DOMAIN Alerts(o, d) /\ Alerts(o, d)[i].domain = x
      /\ Alerts(o, d)[i].severity \in Severities
      /\ SeverityRank[Alerts(o, c)[i].severity] <= SeverityRank[Alerts(o, d)[i].severity]
  BY <1>1, AlertStays
<1>3. Alerts(o, d)[i].severity \in {"high", "critical"}
  BY <1>1, <1>2 DEF SeverityRank, Severities
<1> QED
  BY <1>2, <1>3 DEF HasAlert

AllSink(o, before, after) ==
    /\ \A s \in StoreNames : Sinks(o, before[s], after[s])
    /\ Sinks(o, Merged(before), Merged(after))

LEMMA RunSinks ==
    ASSUME NEW o, Targets(o), NEW before \in Tables, NEW after \in Tables,
           AllSink(o, before, after)
    PROVE  StatusRank[RunStatus(o, before).status] <= StatusRank[RunStatus(o, after).status]
<1> DEFINE x == RunStatus(o, before).status
           y == RunStatus(o, after).status
<1>1. /\ DOMAIN before = StoreNames /\ DOMAIN after = StoreNames /\ IsFiniteSet(StoreNames)
      /\ \A s \in StoreNames : before[s] \in [Counters -> Nat] /\ after[s] \in [Counters -> Nat]
  BY OperationsAssumption DEF Tables, OperationsAssumption
<1>2. RunStatus(o, before).global \subseteq RunStatus(o, after).global
  <2> SUFFICES ASSUME NEW d, Cardinality(Stressed(o, before, d)) >= 2
               PROVE  Cardinality(Stressed(o, after, d)) >= 2
    BY SharedIs
  <2>1. Stressed(o, before, d) \subseteq Stressed(o, after, d)
    BY <1>1, HasAlertStays DEF Stressed, AllSink
  <2>2. Stressed(o, after, d) \subseteq StoreNames
    BY <1>1 DEF Stressed
  <2>3. IsFiniteSet(Stressed(o, after, d))
    BY <1>1, <2>2, FS_Subset
  <2>4. /\ IsFiniteSet(Stressed(o, before, d))
        /\ Cardinality(Stressed(o, before, d)) <= Cardinality(Stressed(o, after, d))
    BY <2>1, <2>3, FS_Subset
  <2>5. /\ Cardinality(Stressed(o, before, d)) \in Nat
        /\ Cardinality(Stressed(o, after, d)) \in Nat
    BY <2>3, <2>4, FS_CardinalityType
  <2> QED
    BY <2>4, <2>5
<1>3. /\ x \in Considered(o, before)
      /\ Considered(o, after) \in SUBSET Statuses /\ y \in Considered(o, after)
      /\ \A z \in Considered(o, after) : StatusRank[y] >= StatusRank[z]
  BY RunStatusIs
<1>4. \E z \in Considered(o, after) : StatusRank[x] <= StatusRank[z]
  <2>1. CASE x = StatusOf(o, Merged(before))
    <3>1. StatusRank[x] <= StatusRank[StatusOf(o, Merged(after))]
      BY <2>1, MergedType, StatusSinks DEF AllSink
    <3>2. StatusOf(o, Merged(after)) \in Considered(o, after)
      BY DEF Considered
    <3> QED
      BY <3>1, <3>2
  <2>2. ASSUME NEW s \in StoreNames, x = StatusOf(o, before[s])
        PROVE  \E z \in Considered(o, after) : StatusRank[x] <= StatusRank[z]
    <3>1. StatusRank[x] <= StatusRank[StatusOf(o, after[s])]
      BY <1>1, <2>2, StatusSinks DEF AllSink
    <3>2. StatusOf(o, after[s]) \in Considered(o, after)
      BY <1>1 DEF Considered
    <3> QED
      BY <3>1, <3>2
  <2>3. CASE RunStatus(o, before).global # {} /\ x = "degraded"
    <3>1. "degraded" \in Considered(o, after)
      BY <1>2, <2>3 DEF Considered
    <3> QED
      BY <2>3, <3>1 DEF StatusRank
  <2> QED
    BY <1>1, <1>3, <2>1, <2>2, <2>3 DEF Considered
<1> HIDE DEF x, y
<1>5. x \in Statuses /\ y \in Statuses
  BY <1>3, RunStatusIs DEF x
<1> QED
  BY <1>3, <1>4, <1>5 DEF Statuses, StatusRank, x, y

LEMMA CriticalCountGrows ==
    ASSUME NEW o, Targets(o), NEW c \in [Counters -> Nat], NEW d \in [Counters -> Nat],
           Sinks(o, c, d)
    PROVE  /\ AlertCount(Alerts(o, c), "critical") \in Nat
           /\ AlertCount(Alerts(o, d), "critical") \in Nat
           /\ AlertCount(Alerts(o, c), "critical") <= AlertCount(Alerts(o, d), "critical")
<1> DEFINE X == {i \in DOMAIN Alerts(o, c) : Alerts(o, c)[i].severity = "critical"}
           Y == {i \in DOMAIN Alerts(o, d) : Alerts(o, d)[i].severity = "critical"}
<1>1. X \subseteq Y
  <2> SUFFICES ASSUME NEW i \in DOMAIN Alerts(o, c), Alerts(o, c)[i].severity = "critical"
               PROVE  i \in DOMAIN Alerts(o, d) /\ Alerts(o, d)[i].severity = "critical"
    OBVIOUS
  <2>1. /\ i \in DOMAIN Alerts(o, d) /\ Alerts(o, d)[i].severity \in Severities
        /\ SeverityRank["critical"] <= SeverityRank[Alerts(o, d)[i].severity]
    BY AlertStays
  <2> QED
    BY <2>1 DEF Severities, SeverityRank
<1>2. X \in SUBSET DOMAIN Alerts(o, c) /\ Y \in SUBSET DOMAIN Alerts(o, d)
  OBVIOUS
<1>3. AlertCount(Alerts(o, c), "critical") = Cardinality(X)
  BY DEF AlertCount
<1>4. AlertCount(Alerts(o, d), "critical") = Cardinality(Y)
  BY DEF AlertCount
<1> HIDE DEF X, Y
<1>5. IsFiniteSet(Y) /\ Cardinality(X) \in Nat /\ Cardinality(Y) \in Nat
  BY <1>2, FiniteAlerts
<1>6. Cardinality(X) <= Cardinality(Y)
  BY <1>1, <1>5, FS_Subset
<1> QED
  BY <1>3, <1>4, <1>5, <1>6

(* A high alert stays high unless one is critical.                         *)
LEMMA HighCountGrows ==
    ASSUME NEW o, Targets(o), NEW c \in [Counters -> Nat], NEW d \in [Counters -> Nat],
           Sinks(o, c, d), ~(AlertCount(Alerts(o, d), "critical") > 0)
    PROVE  /\ AlertCount(Alerts(o, c), "high") \in Nat
           /\ AlertCount(Alerts(o, d), "high") \in Nat
           /\ AlertCount(Alerts(o, c), "high") <= AlertCount(Alerts(o, d), "high")
<1> DEFINE X == {i \in DOMAIN Alerts(o, c) : Alerts(o, c)[i].severity = "high"}
           Y == {i \in DOMAIN Alerts(o, d) : Alerts(o, d)[i].severity = "high"}
           Z == {i \in DOMAIN Alerts(o, d) : Alerts(o, d)[i].severity = "critical"}
<1>0. Z = {}
  <2>1. AlertCount(Alerts(o, d), "critical") = Cardinality(Z) /\ Z \in SUBSET DOMAIN Alerts(o, d)
    BY DEF AlertCount
  <2> HIDE DEF Z
  <2> QED
    BY <2>1, FiniteAlerts
<1>1. X \subseteq Y
  <2> SUFFICES ASSUME NEW i \in DOMAIN Alerts(o, c), Alerts(o, c)[i].severity = "high"
               PROVE  i \in DOMAIN Alerts(o, d) /\ Alerts(o, d)[i].severity = "high"
    OBVIOUS
  <2>1. /\ i \in DOMAIN Alerts(o, d) /\ Alerts(o, d)[i].severity \in Severities
        /\ SeverityRank["high"] <= SeverityRank[Alerts(o, d)[i].severity]
    BY AlertStays
  <2>2. Alerts(o, d)[i].severity # "critical"
    BY <1>0, <2>1
  <2> QED
    BY <2>1, <2>2 DEF Severities, SeverityRank
<1>2. X \in SUBSET DOMAIN Alerts(o, c) /\ Y \in SUBSET DOMAIN Alerts(o, d)
  OBVIOUS
<1>3. AlertCount(Alerts(o, c), "high") = Cardinality(X)
  BY DEF AlertCount
<1>4. AlertCount(Alerts(o, d), "high") = Cardinality(Y)
  BY DEF AlertCount
<1> HIDE DEF X, Y
<1>5. IsFiniteSet(Y) /\ Cardinality(X) \in Nat /\ Cardinality(Y) \in Nat
  BY <1>2, FiniteAlerts
<1>6. Cardinality(X) <= Cardinality(Y)
  BY <1>1, <1>5, FS_Subset
<1> QED
  BY <1>3, <1>4, <1>5, <1>6

Budgets(g) ==
    /\ \A m \in {"malformed", "rejected", "reconciliation", "block"} : g.limit[m] \in Nat
    /\ g.maxCritical \in Nat /\ g.maxHigh \in Nat

(* What is over a limit of the launch stays over it.                       *)
LEMMA RatesOverLimits ==
    ASSUME NEW o, Targets(o), NEW g, Budgets(g),
           NEW c \in [Counters -> Nat], NEW d \in [Counters -> Nat], Sinks(o, c, d)
    PROVE  /\ \A m \in {"malformed", "rejected", "reconciliation", "block"} :
                Over(Observed(c)[m], g.limit[m]) => Over(Observed(d)[m], g.limit[m])
           /\ Under(Observed(c)["apply"], 85) => Under(Observed(d)["apply"], 85)
<1>1. ASSUME NEW m \in {"malformed", "rejected", "reconciliation", "block"},
             Over(Observed(c)[m], g.limit[m])
      PROVE  Over(Observed(d)[m], g.limit[m])
  <2>0. g.limit[m] \in Nat
    BY DEF Budgets
  <2>3. m \in Names
    BY DEF Names
  <2>4. m \notin Low
    BY DEF Low
  <2>1. m \in Names \ Low /\ m # "items" /\ g.limit[m] \in Int
    BY <2>0, <2>3, <2>4 DEF Low
  <2>2. NoBetter(c, d, m)
    BY <2>1, RatesSink
  <2> QED
    BY <1>1, <2>1, <2>2, OverStays
<1>2. ASSUME Under(Observed(c)["apply"], 85) PROVE Under(Observed(d)["apply"], 85)
  <2>1. "apply" \in Low /\ "apply" \in Names /\ 85 \in Int
    BY DEF Names, Low
  <2>2. NoBetter(c, d, "apply")
    BY <2>1, RatesSink
  <2> QED
    BY <1>2, <2>1, <2>2, UnderStays
<1> QED
  BY <1>1, <1>2

LEMMA TriggersGrow ==
    ASSUME NEW o, Targets(o), NEW g, Budgets(g), NEW said, NEW later,
           said.confirmed \cap BadNews \subseteq later.confirmed,
           NEW c \in [Counters -> Nat], NEW d \in [Counters -> Nat], Sinks(o, c, d)
    PROVE  Triggers(g, c, Alerts(o, c), said) \subseteq Triggers(g, d, Alerts(o, d), later)
<1> DEFINE rate(x) == Observed(x)
           fires(x, words) ==
             [transport_apply |-> \/ AlertCount(Alerts(o, x), "critical") >= 3
                                  \/ "incident" \in words.confirmed,
              malformed |-> Over(rate(x)["malformed"], g.limit.malformed),
              rejected |-> Over(rate(x)["rejected"], g.limit.rejected),
              reconciliation |-> Over(rate(x)["reconciliation"], g.limit.reconciliation),
              block_page |-> /\ Over(rate(x)["block"], g.limit.block)
                             /\ "canary store scope" \in words.confirmed,
              security |-> "security failed" \in words.confirmed,
              contract_drift |-> "live drift" \in words.confirmed]
<1>1. /\ Over(Observed(c)["malformed"], g.limit.malformed)
           => Over(Observed(d)["malformed"], g.limit.malformed)
      /\ Over(Observed(c)["rejected"], g.limit.rejected)
           => Over(Observed(d)["rejected"], g.limit.rejected)
      /\ Over(Observed(c)["reconciliation"], g.limit.reconciliation)
           => Over(Observed(d)["reconciliation"], g.limit.reconciliation)
      /\ Over(Observed(c)["block"], g.limit.block) => Over(Observed(d)["block"], g.limit.block)
  BY RatesOverLimits
<1>2. AlertCount(Alerts(o, c), "critical") >= 3 => AlertCount(Alerts(o, d), "critical") >= 3
  BY CriticalCountGrows
<1>3. \A x \in {"incident", "canary store scope", "security failed", "live drift"} :
        x \in said.confirmed => x \in later.confirmed
  BY DEF BadNews
<1>4. ASSUME NEW t \in {"transport_apply", "malformed", "rejected", "reconciliation",
                         "block_page", "security", "contract_drift"}, fires(c, said)[t]
      PROVE  fires(d, later)[t]
  <2>1. CASE t = "transport_apply"
    BY <1>1, <1>2, <1>3, <1>4, <2>1, ZenonT(60)
  <2>2. CASE t = "malformed"
    BY <1>1, <1>2, <1>3, <1>4, <2>2, ZenonT(60)
  <2>3. CASE t = "rejected"
    BY <1>1, <1>2, <1>3, <1>4, <2>3, ZenonT(60)
  <2>4. CASE t = "reconciliation"
    BY <1>1, <1>2, <1>3, <1>4, <2>4, ZenonT(60)
  <2>5. CASE t = "block_page"
    BY <1>1, <1>2, <1>3, <1>4, <2>5, ZenonT(60)
  <2>6. CASE t = "security"
    BY <1>1, <1>2, <1>3, <1>4, <2>6, ZenonT(60)
  <2>7. CASE t = "contract_drift"
    BY <1>1, <1>2, <1>3, <1>4, <2>7, ZenonT(60)
  <2> QED
    BY <2>1, <2>2, <2>3, <2>4, <2>5, <2>6, <2>7
<1>5. \A x, words :
        /\ DOMAIN fires(x, words) = {"transport_apply", "malformed", "rejected",
             "reconciliation", "block_page", "security", "contract_drift"}
        /\ Triggers(g, x, Alerts(o, x), words) =
             IF g.triggers THEN {t \in DOMAIN fires(x, words) : fires(x, words)[t]} ELSE {}
  BY DEF Triggers
<1> HIDE DEF fires
<1> QED
  BY <1>4, <1>5

LEMMA CheckpointsFail ==
    ASSUME NEW o, Targets(o), NEW g, Budgets(g), g.blockOnCritical, g.maxCritical = 0,
           NEW said, NEW later, said.confirmed \cap BadNews \subseteq later.confirmed,
           NEW c \in [Counters -> Nat], NEW d \in [Counters -> Nat], Sinks(o, c, d)
    PROVE  FailedCheckpoints(g, c, Alerts(o, c), said)
             \subseteq FailedCheckpoints(g, d, Alerts(o, d), later)
<1> DEFINE n(x) == AlertCount(Alerts(o, x), "critical")
           h(x) == AlertCount(Alerts(o, x), "high")
           hours(x) == \/ n(x) > 0 \/ h(x) > g.maxHigh \/ Under(Observed(x)["apply"], 85)
           day(x) == \/ Over(Observed(x)["rejected"], g.limit.rejected)
                     \/ Over(Observed(x)["reconciliation"], g.limit.reconciliation)
           days(x, words) == \/ Over(Observed(x)["malformed"], g.limit.malformed)
                             \/ "drift suspected" \in words.confirmed
<1>1. ASSUME NEW x, NEW words
      PROVE  \A t : t \in FailedCheckpoints(g, x, Alerts(o, x), words)
               <=> \/ t = "first_hours" /\ hours(x)
                   \/ t = "first_day" /\ day(x)
                   \/ t = "three_days" /\ days(x, words)
  <2> DEFINE fails == [first_hours |-> \/ g.blockOnCritical /\ n(x) > g.maxCritical
                                       \/ h(x) > g.maxHigh
                                       \/ Under(Observed(x)["apply"], 85),
                       first_day |-> day(x), three_days |-> days(x, words)]
  <2>1. FailedCheckpoints(g, x, Alerts(o, x), words) = {t \in DOMAIN fails : fails[t]}
    BY DEF FailedCheckpoints
  <2>2. /\ DOMAIN fails = {"first_hours", "first_day", "three_days"}
        /\ fails["first_hours"] <=> hours(x)
        /\ fails["first_day"] <=> day(x)
        /\ fails["three_days"] <=> days(x, words)
    <3> HIDE DEF n, h, day, days
    <3> QED
      OBVIOUS
  <2> HIDE DEF fails, hours, day, days
  <2> QED
    BY <2>1, <2>2
<1>2. hours(c) => hours(d)
  <2>1. n(c) > 0 => n(d) > 0
    BY CriticalCountGrows
  <2>2. ~(n(d) > 0) => (h(c) > g.maxHigh => h(d) > g.maxHigh)
    <3> SUFFICES ASSUME ~(n(d) > 0) PROVE h(c) > g.maxHigh => h(d) > g.maxHigh
      OBVIOUS
    <3>1. h(c) \in Nat /\ h(d) \in Nat /\ h(c) <= h(d) /\ g.maxHigh \in Nat
      BY HighCountGrows DEF Budgets
    <3> HIDE DEF h
    <3> QED
      BY <3>1
  <2>3. Under(Observed(c)["apply"], 85) => Under(Observed(d)["apply"], 85)
    BY RatesOverLimits
  <2> HIDE DEF n, h
  <2> QED
    BY <2>1, <2>2, <2>3
<1>3. day(c) => day(d)
  BY RatesOverLimits
<1>4. days(c, said) => days(d, later)
  <2>1. "drift suspected" \in said.confirmed => "drift suspected" \in later.confirmed
    BY DEF BadNews
  <2> QED
    BY <2>1, RatesOverLimits
<1> HIDE DEF hours, day, days
<1>5. \A t : t \in FailedCheckpoints(g, c, Alerts(o, c), said)
               <=> \/ t = "first_hours" /\ hours(c)
                   \/ t = "first_day" /\ day(c)
                   \/ t = "three_days" /\ days(c, said)
  BY <1>1
<1>6. \A t : t \in FailedCheckpoints(g, d, Alerts(o, d), later)
               <=> \/ t = "first_hours" /\ hours(d)
                   \/ t = "first_day" /\ day(d)
                   \/ t = "three_days" /\ days(d, later)
  BY <1>1
<1> QED
  BY <1>2, <1>3, <1>4, <1>5, <1>6

LEMMA ThreePlaces ==
    ASSUME NEW a, NEW b, NEW c, a # b, a # c, b # c
    PROVE  /\ PlaceIn(<<a, b, c>>, a) = 1 /\ PlaceIn(<<a, b, c>>, b) = 2
           /\ PlaceIn(<<a, b, c>>, c) = 3
<1> DEFINE l == <<a, b, c>>
<1>1. DOMAIN l = 1..3 /\ l[1] = a /\ l[2] = b /\ l[3] = c
  OBVIOUS
<1> HIDE DEF l
<1>2. \A i \in DOMAIN l : i = 1 \/ i = 2 \/ i = 3
  BY <1>1
<1>3. 1 \in DOMAIN l /\ 2 \in DOMAIN l /\ 3 \in DOMAIN l
  BY <1>1
<1>4. PlaceIn(l, a) = 1 /\ PlaceIn(l, b) = 2 /\ PlaceIn(l, c) = 3
  BY <1>1, <1>2, <1>3 DEF PlaceIn
<1> QED
  BY <1>4 DEF l

LEMMA FourPlaces ==
    ASSUME NEW a, NEW b, NEW c, NEW d, a # b, a # c, a # d, b # c, b # d, c # d
    PROVE  /\ PlaceIn(<<a, b, c, d>>, a) = 1 /\ PlaceIn(<<a, b, c, d>>, b) = 2
           /\ PlaceIn(<<a, b, c, d>>, c) = 3 /\ PlaceIn(<<a, b, c, d>>, d) = 4
<1> DEFINE l == <<a, b, c, d>>
<1>1. DOMAIN l = 1..4 /\ l[1] = a /\ l[2] = b /\ l[3] = c /\ l[4] = d
  OBVIOUS
<1> HIDE DEF l
<1>2. \A i \in DOMAIN l : i = 1 \/ i = 2 \/ i = 3 \/ i = 4
  BY <1>1
<1>3. 1 \in DOMAIN l /\ 2 \in DOMAIN l /\ 3 \in DOMAIN l /\ 4 \in DOMAIN l
  BY <1>1
<1>4. PlaceIn(l, a) = 1 /\ PlaceIn(l, b) = 2 /\ PlaceIn(l, c) = 3 /\ PlaceIn(l, d) = 4
  BY <1>1, <1>2, <1>3 DEF PlaceIn
<1> QED
  BY <1>4 DEF l

Outcomes == <<"successful", "stabilizing", "degraded", "rolled_back">>

LEMMA OutcomeSinks ==
    ASSUME NEW o, Targets(o), NEW g, Budgets(g), g.blockOnCritical, g.maxCritical = 0,
           NEW said, NEW later, said.confirmed \cap BadNews \subseteq later.confirmed,
           NEW c \in [Counters -> Nat], NEW d \in [Counters -> Nat], Sinks(o, c, d)
    PROVE  PlaceIn(Outcomes, LaunchOutcome(g, c, Alerts(o, c), said))
             <= PlaceIn(Outcomes, LaunchOutcome(g, d, Alerts(o, d), later))
<1> DEFINE F == Triggers(g, c, Alerts(o, c), said)
           G == Triggers(g, d, Alerts(o, d), later)
           K == FailedCheckpoints(g, c, Alerts(o, c), said)
           L == FailedCheckpoints(g, d, Alerts(o, d), later)
           x == LaunchOutcome(g, c, Alerts(o, c), said)
           y == LaunchOutcome(g, d, Alerts(o, d), later)
<1>1. F \subseteq G /\ K \subseteq L
  BY TriggersGrow, CheckpointsFail
<1>2. x = CASE F \cap CriticalTriggers # {} -> "rolled_back"
            [] F # {} /\ F \cap CriticalTriggers = {} -> "degraded"
            [] F = {} /\ g.checkpoints /\ K = {} -> "successful"
            [] OTHER -> "stabilizing"
  BY DEF LaunchOutcome
<1>3. y = CASE G \cap CriticalTriggers # {} -> "rolled_back"
            [] G # {} /\ G \cap CriticalTriggers = {} -> "degraded"
            [] G = {} /\ g.checkpoints /\ L = {} -> "successful"
            [] OTHER -> "stabilizing"
  BY DEF LaunchOutcome
<1>4. /\ PlaceIn(Outcomes, "successful") = 1 /\ PlaceIn(Outcomes, "stabilizing") = 2
      /\ PlaceIn(Outcomes, "degraded") = 3 /\ PlaceIn(Outcomes, "rolled_back") = 4
  BY FourPlaces DEF Outcomes
<1> HIDE DEF F, G, K, L, x, y
<1>5. CASE F \cap CriticalTriggers # {}
  <2>1. G \cap CriticalTriggers # {}
    BY <1>1, <1>5
  <2>2. x = "rolled_back" /\ y = "rolled_back"
    BY <1>2, <1>3, <1>5, <2>1
  <2> QED
    BY <1>4, <2>2 DEF x, y
<1>6. CASE F # {} /\ F \cap CriticalTriggers = {}
  <2>1. G # {}
    BY <1>1, <1>6
  <2>2. x = "degraded"
    BY <1>2, <1>6
  <2>3. y = "rolled_back" \/ y = "degraded"
    BY <1>3, <2>1
  <2> QED
    BY <1>4, <2>2, <2>3 DEF x, y
<1>7. CASE F = {}
  <2>1. F \cap CriticalTriggers = {}
    BY <1>7
  <2>2. y \in {"rolled_back", "degraded", "stabilizing", "successful"}
    <3>1. CASE G \cap CriticalTriggers # {}
      BY <1>3, <3>1
    <3>2. CASE G # {} /\ G \cap CriticalTriggers = {}
      BY <1>3, <3>2
    <3>3. CASE G = {}
      <4>1. G \cap CriticalTriggers = {}
        BY <3>3
      <4> QED
        BY <1>3, <3>3, <4>1
    <3> QED
      BY <3>1, <3>2, <3>3
  <2>3. CASE g.checkpoints /\ K = {}
    <3>1. x = "successful"
      BY <1>2, <1>7, <2>1, <2>3
    <3> QED
      BY <1>4, <2>2, <3>1 DEF x, y
  <2>4. CASE ~(g.checkpoints /\ K = {})
    <3>1. x = "stabilizing"
      BY <1>2, <1>7, <2>1, <2>4
    <3>2. y # "successful"
      <4>1. ~(g.checkpoints /\ L = {})
        BY <1>1, <2>4
      <4>2. CASE G \cap CriticalTriggers # {}
        BY <1>3, <4>2
      <4>3. CASE G # {} /\ G \cap CriticalTriggers = {}
        BY <1>3, <4>3
      <4>4. CASE G = {} /\ G \cap CriticalTriggers = {}
        BY <1>3, <4>1, <4>4
      <4>5. G = {} => G \cap CriticalTriggers = {}
        OBVIOUS
      <4> QED
        BY <4>2, <4>3, <4>4, <4>5
    <3> QED
      BY <1>4, <2>2, <3>1, <3>2 DEF x, y
  <2> QED
    BY <2>3, <2>4
<1> QED
  BY <1>5, <1>6, <1>7

-----------------------------------------------------------------------------
(* Readiness gets no better with the files that are lost.                  *)

LEMMA ItemSinks ==
    ASSUME NEW item, NEW gone, NEW later, gone \subseteq later, NEW stores
    PROVE  /\ ItemStatus(item, gone, stores) \in {"ready", "not_started", "partial"}
           /\ ItemStatus(item, later, stores) = "ready" => ItemStatus(item, gone, stores) = "ready"
           /\ ItemStatus(item, gone, stores) = "not_started"
                => ItemStatus(item, later, stores) = "not_started"
<1> DEFINE files == FilesOf(item, stores)
<1>1. \A lost : ItemStatus(item, lost, stores) =
                  IF files \cap lost = {} THEN "ready"
                  ELSE IF files # {} /\ files \subseteq lost THEN "not_started" ELSE "partial"
  <2> SUFFICES ASSUME NEW lost
               PROVE  ItemStatus(item, lost, stores) =
                        IF files \cap lost = {} THEN "ready"
                        ELSE IF files # {} /\ files \subseteq lost THEN "not_started"
                        ELSE "partial"
    OBVIOUS
  <2>1. ItemStatus(item, lost, stores) =
          CASE files \cap lost = {} -> "ready"
            [] files # {} /\ files \subseteq lost -> "not_started"
            [] OTHER -> "partial"
    BY DEF ItemStatus
  <2> HIDE DEF files
  <2>2. files # {} /\ files \subseteq lost => files \cap lost # {}
    OBVIOUS
  <2>3. CASE files \cap lost = {}
    BY <2>1, <2>2, <2>3
  <2>4. CASE files # {} /\ files \subseteq lost
    BY <2>1, <2>2, <2>4
  <2>5. CASE files \cap lost # {} /\ ~(files # {} /\ files \subseteq lost)
    BY <2>1, <2>5
  <2> QED
    BY <2>3, <2>4, <2>5
<1> HIDE DEF files
<1> QED
  BY <1>1

LEMMA FourFinite == \A a, b, c, d : IsFiniteSet({a, b, c, d})
<1> SUFFICES ASSUME NEW a, NEW b, NEW c, NEW d PROVE IsFiniteSet({a, b, c, d})
  OBVIOUS
<1>1. IsFiniteSet({a}) /\ IsFiniteSet({b}) /\ IsFiniteSet({c}) /\ IsFiniteSet({d})
  BY FS_Singleton
<1>2. IsFiniteSet({a} \cup {b}) /\ IsFiniteSet({c} \cup {d})
  BY <1>1, FS_Union
<1>3. IsFiniteSet(({a} \cup {b}) \cup ({c} \cup {d}))
  BY <1>2, FS_Union
<1>4. {a, b, c, d} = ({a} \cup {b}) \cup ({c} \cup {d})
  OBVIOUS
<1> QED
  BY <1>3, <1>4

(* The values of a function on a finite set are finitely many.             *)
LEMMA Images ==
    ASSUME NEW S, IsFiniteSet(S), NEW f
    PROVE  IsFiniteSet({f[x] : x \in S})
<1> DEFINE T == {f[x] : x \in S}
           g == [x \in S |-> f[x]]
<1>1. g \in Surjection(S, T)
  BY DEF Surjection
<1> HIDE DEF g, T
<1>2. IsFiniteSet(T)
  BY <1>1, FS_Surjection
<1> QED
  BY <1>2 DEF T

LEMMA FinitelyManyItems == IsFiniteSet(Items)
<1> DEFINE D == DOMAIN Checklist
           L == {Checklist[d] : d \in D}
           X == {"crawl", "normalization", "crm_integration", "lifecycle"}
           Y == {"batch_apply", "replay_reconciliation", "observability", "supportability"}
           Z == {"security", "performance", "release_governance", "documentation"}
<1>1. D = (X \cup Y) \cup Z
  BY DEF Checklist
<1>2. IsFiniteSet(D)
  <2>1. IsFiniteSet(X) /\ IsFiniteSet(Y) /\ IsFiniteSet(Z)
    BY FourFinite
  <2> HIDE DEF X, Y, Z, D
  <2>2. IsFiniteSet(X \cup Y)
    BY <2>1, FS_Union
  <2> QED
    BY <1>1, <2>1, <2>2, FS_Union
<1>3. IsFiniteSet(L)
  <2> HIDE DEF D
  <2> QED
    BY <1>2, Images
<1>4. ASSUME NEW d \in D PROVE IsFiniteSet(Checklist[d])
  <2>1. \E p, q, r, s : Checklist[d] = {p, q, r, s}
    <3>1. CASE d = "crawl"
      <4>1. Checklist[d] = {"traversal_framework", "duplicate_protection", "pagination_safety",
                            "store_acceptance"}
        BY <3>1 DEF Checklist
      <4> QED
        BY <4>1
    <3>2. CASE d = "normalization"
      <4>1. Checklist[d] = {"hybrid_payload", "typed_mapping", "confidence_suppression",
                            "low_coverage_detection"}
        BY <3>2 DEF Checklist
      <4> QED
        BY <4>1
    <3>3. CASE d = "crm_integration"
      <4>1. Checklist[d] = {"transport", "auth", "payload_contract", "payload_contract"}
        BY <3>3 DEF Checklist
      <4> QED
        BY <4>1
    <3>4. CASE d = "lifecycle"
      <4>1. Checklist[d] = {"product_found_default", "fallback_policy", "lifecycle_tests",
                            "lifecycle_tests"}
        BY <3>4 DEF Checklist
      <4> QED
        BY <4>1
    <3>5. CASE d = "batch_apply"
      <4>1. Checklist[d] = {"partial_success", "retryable", "duplicate_skip", "duplicate_skip"}
        BY <3>5 DEF Checklist
      <4> QED
        BY <4>1
    <3>6. CASE d = "replay_reconciliation"
      <4>1. Checklist[d] = {"idempotency_key", "replay_safe_product_found", "reconciliation",
                            "reconciliation"}
        BY <3>6 DEF Checklist
      <4> QED
        BY <4>1
    <3>7. CASE d = "observability"
      <4>1. Checklist[d] = {"structured_traces", "batch_traces", "etl_export",
                            "failure_classification"}
        BY <3>7 DEF Checklist
      <4> QED
        BY <4>1
    <3>8. CASE d = "supportability"
      <4>1. Checklist[d] = {"triage_summary", "runbooks", "operator_diagnostics",
                            "operator_diagnostics"}
        BY <3>8 DEF Checklist
      <4> QED
        BY <4>1
    <3>9. CASE d = "security"
      <4>1. Checklist[d] = {"redaction", "outbound_guards", "replay_abuse", "replay_abuse"}
        BY <3>9 DEF Checklist
      <4> QED
        BY <4>1
    <3>10. CASE d = "performance"
      <4>1. Checklist[d] = {"stage_timings", "bottleneck", "resource_budgets", "cost_efficiency"}
        BY <3>10 DEF Checklist
      <4> QED
        BY <4>1
    <3>11. CASE d = "release_governance"
      <4>1. Checklist[d] = {"contract_gates", "rollout_policy", "compatibility", "compatibility"}
        BY <3>11 DEF Checklist
      <4> QED
        BY <4>1
    <3>12. CASE d = "documentation"
      <4>1. Checklist[d] = {"index", "onboarding", "store_playbooks", "ownership_map"}
        BY <3>12 DEF Checklist
      <4> QED
        BY <4>1
    <3> QED
      BY <1>1, <3>1, <3>2, <3>3, <3>4, <3>5, <3>6, <3>7, <3>8, <3>9, <3>10, <3>11, <3>12
  <2>2. PICK p, q, r, s : Checklist[d] = {p, q, r, s}
    BY <2>1
  <2>3. IsFiniteSet({p, q, r, s})
    BY FourFinite
  <2> QED
    BY <2>2, <2>3, Zenon
<1>5. \A T \in L : IsFiniteSet(T)
  BY <1>4
<1>6. Items = UNION L
  BY DEF Items
<1> HIDE DEF L
<1> QED
  BY <1>3, <1>5, <1>6, FS_UNION

(* Which item of the checklist is of a guarded domain, and what is critical. *)
LEMMA ChecklistIs ==
    /\ Guarded = {"security", "crm_integration"}
    /\ \A d \in DOMAIN Checklist : Checklist[d] \subseteq Items /\ Checklist[d] # {}
    /\ {"security", "crm_integration", "crawl", "lifecycle", "batch_apply",
        "replay_reconciliation", "observability", "release_governance", "documentation",
        "performance", "supportability"} \subseteq DOMAIN Checklist
    /\ CriticalRisk \subseteq Items /\ "transport" \in CriticalRisk
    /\ {"store_playbooks", "rollout_policy", "lifecycle_tests"} \subseteq Items
<1>1. Guarded = {"security", "crm_integration"}
  BY DEF Guarded
<1>2. \A d \in DOMAIN Checklist : Checklist[d] \subseteq Items
  BY DEF Items
<1>3. \A d \in DOMAIN Checklist : Checklist[d] # {}
  BY DEF Checklist
<1>4. {"security", "crm_integration", "crawl", "lifecycle", "batch_apply",
        "replay_reconciliation", "observability", "release_governance", "documentation",
        "performance", "supportability"} \subseteq DOMAIN Checklist
  BY DEF Checklist
<1>5. /\ {"transport", "auth", "payload_contract"} \subseteq Checklist["crm_integration"]
      /\ "partial_success" \in Checklist["batch_apply"]
      /\ "idempotency_key" \in Checklist["replay_reconciliation"]
      /\ {"redaction", "outbound_guards"} \subseteq Checklist["security"]
      /\ {"contract_gates", "rollout_policy"} \subseteq Checklist["release_governance"]
      /\ "store_playbooks" \in Checklist["documentation"]
      /\ "lifecycle_tests" \in Checklist["lifecycle"]
  BY DEF Checklist
<1>6. CriticalRisk \subseteq Items /\ "transport" \in CriticalRisk
  <2>1. {"transport", "auth", "payload_contract", "partial_success", "idempotency_key",
         "redaction", "outbound_guards", "contract_gates"} \subseteq Items
    BY <1>2, <1>4, <1>5
  <2> QED
    BY <2>1 DEF CriticalRisk
<1>7. {"store_playbooks", "rollout_policy", "lifecycle_tests"} \subseteq Items
  BY <1>2, <1>4, <1>5
<1> QED
  BY <1>1, <1>2, <1>3, <1>4, <1>6, <1>7

LEMMA GuardedDomains ==
    ASSUME NEW d \in Guarded, NEW i \in Checklist[d]
    PROVE  DomainOf(i) = d
<1>1. \A e \in DOMAIN Checklist : i \in Checklist[e] => e = d
  <2>1. CASE d = "security"
    BY <2>1 DEF Checklist
  <2>2. CASE d = "crm_integration"
    BY <2>2 DEF Checklist
  <2> QED
    BY <2>1, <2>2 DEF Guarded
<1>2. d \in DOMAIN Checklist
  BY ChecklistIs
<1> QED
  BY <1>1, <1>2 DEF DomainOf

Ready(i, gone, stores) == ItemStatus(i, gone, stores) = "ready"
AllReady(gone, stores) == \A i \in Items : Ready(i, gone, stores)
Blocks(i, gone, stores) ==
    ~Ready(i, gone, stores) /\ GapBlocks(i, ItemStatus(i, gone, stores))
Blocked(gone, stores) == \E i \in Items : Blocks(i, gone, stores)

GapOf(i, gone, stores) ==
    [item |-> i, domain |-> DomainOf(i),
     severity |-> GapSeverity(i, ItemStatus(i, gone, stores)),
     blocking |-> GapBlocks(i, ItemStatus(i, gone, stores))]

LEMMA GapsAre ==
    ASSUME NEW gone, NEW stores
    PROVE  /\ Gaps(gone, stores)
                = {GapOf(i, gone, stores) : i \in {j \in Items : ~Ready(j, gone, stores)}}
           /\ IsFiniteSet(Gaps(gone, stores))
           /\ Gaps(gone, stores) = {} <=> AllReady(gone, stores)
           /\ (\E g \in Gaps(gone, stores) : g.blocking) <=> Blocked(gone, stores)
<1> DEFINE L == {j \in Items : ~Ready(j, gone, stores)}
           f == [i \in Items |-> GapOf(i, gone, stores)]
           G == Gaps(gone, stores)
<1>1. G = {GapOf(i, gone, stores) : i \in L}
  BY DEF Gaps, GapsOf, GapOf, Ready
<1>2. IsFiniteSet(L)
  BY FinitelyManyItems, FS_Subset
<1>3. IsFiniteSet(G)
  <2>1. IsFiniteSet({f[i] : i \in L})
    <3> HIDE DEF L, f
    <3> QED
      BY <1>2, Images
  <2>2. {f[i] : i \in L} = G
    BY <1>1
  <2> QED
    BY <2>1, <2>2
<1>4. G = {} <=> AllReady(gone, stores)
  BY <1>1 DEF AllReady
<1>5. (\E g \in G : g.blocking) <=> Blocked(gone, stores)
  <2>1. \A i : GapOf(i, gone, stores).blocking <=> GapBlocks(i, ItemStatus(i, gone, stores))
    BY DEF GapOf
  <2> QED
    BY <1>1, <2>1 DEF Blocked, Blocks
<1> QED
  BY <1>1, <1>3, <1>4, <1>5

LEMMA ReportIs ==
    ASSUME NEW gone, NEW stores
    PROVE  LET R == Report(gone, stores)
           IN /\ R.blocking = 0 <=> ~Blocked(gone, stores)
              /\ R.overall = IF Blocked(gone, stores) THEN "blocked"
                             ELSE IF AllReady(gone, stores) THEN "ready" ELSE "partial"
              /\ AllReady(gone, stores) => R.critical = 0
              /\ R.documented <=> Ready("store_playbooks", gone, stores)
              /\ R.status = [i \in Items |-> ItemStatus(i, gone, stores)]
<1> DEFINE gaps == Gaps(gone, stores)
           R == Report(gone, stores)
           B == {g \in gaps : g.blocking}
           C == {g \in gaps : g.severity = "critical"}
<1>1. /\ R.overall = Overall(gone, stores) /\ R.blocking = Cardinality(B)
      /\ R.critical = Cardinality(C)
      /\ R.documented = (ItemStatus("store_playbooks", gone, stores) = "ready")
      /\ R.status = [i \in Items |-> ItemStatus(i, gone, stores)]
  BY DEF Report
<1>2. IsFiniteSet(gaps) /\ (gaps = {} <=> AllReady(gone, stores))
  BY GapsAre
<1>3. B # {} <=> Blocked(gone, stores)
  <2>1. (\E g \in gaps : g.blocking) <=> Blocked(gone, stores)
    BY GapsAre
  <2> HIDE DEF gaps
  <2> QED
    BY <2>1
<1>4. Cardinality(B) = 0 <=> B = {}
  <2>1. IsFiniteSet(B)
    BY <1>2, FS_Subset
  <2> HIDE DEF B
  <2> QED
    BY <2>1, FS_EmptySet
<1>5. AllReady(gone, stores) => Cardinality(C) = 0
  <2> SUFFICES ASSUME AllReady(gone, stores) PROVE Cardinality(C) = 0
    OBVIOUS
  <2>1. C = {}
    BY <1>2
  <2> HIDE DEF C
  <2> QED
    BY <2>1, FS_EmptySet
<1>6. (\A i \in Items : ItemStatus(i, gone, stores) = "not_started") => Blocked(gone, stores)
  <2>1. "transport" \in Items /\ "transport" \in CriticalRisk
    BY ChecklistIs
  <2> QED
    BY <2>1 DEF Blocked, Blocks, Ready, GapBlocks
<1>7. Overall(gone, stores) =
        IF \E g \in gaps : g.blocking THEN "blocked"
        ELSE IF gaps = {} THEN "ready"
        ELSE IF \A i \in Items : ItemStatus(i, gone, stores) = "not_started" THEN "not_started"
        ELSE "partial"
  BY DEF Overall
<1>8. Overall(gone, stores) = IF Blocked(gone, stores) THEN "blocked"
                              ELSE IF AllReady(gone, stores) THEN "ready" ELSE "partial"
  <2>1. (\E g \in gaps : g.blocking) <=> Blocked(gone, stores)
    BY GapsAre
  <2> HIDE DEF gaps
  <2> QED
    BY <1>2, <1>6, <1>7, <2>1
<1> HIDE DEF B, C, R
<1> QED
  BY <1>1, <1>3, <1>4, <1>5, <1>8 DEF Ready, R

LEMMA BlocksStays ==
    ASSUME NEW i, NEW gone, NEW later, gone \subseteq later, NEW stores, Blocks(i, gone, stores)
    PROVE  Blocks(i, later, stores)
<1>1. ~Ready(i, later, stores)
  BY ItemSinks DEF Blocks, Ready
<1>2. GapBlocks(i, ItemStatus(i, later, stores))
  BY ItemSinks DEF Blocks, GapBlocks
<1> QED
  BY <1>1, <1>2 DEF Blocks

(* What holds of the readiness after a loss held before it.                *)
LEMMA ReadinessSinks ==
    ASSUME NEW gone, NEW later, gone \subseteq later, NEW stores
    PROVE  /\ \A i : Ready(i, later, stores) => Ready(i, gone, stores)
           /\ AllReady(later, stores) => AllReady(gone, stores)
           /\ Blocked(gone, stores) => Blocked(later, stores)
<1>1. \A i : Ready(i, later, stores) => Ready(i, gone, stores)
  BY ItemSinks DEF Ready
<1>2. AllReady(later, stores) => AllReady(gone, stores)
  BY <1>1 DEF AllReady
<1>3. Blocked(gone, stores) => Blocked(later, stores)
  BY BlocksStays DEF Blocked
<1> QED
  BY <1>1, <1>2, <1>3

LEMMA FlagsSink ==
    ASSUME NEW gone, NEW later, gone \subseteq later, NEW stores
    PROVE  ReadinessFlags(later, stores) \subseteq ReadinessFlags(gone, stores)
<1> DEFINE E == {"redaction", "outbound_guards", "transport", "auth", "payload_contract",
                 "contract_gates"}
<1>1. ASSUME NEW g
      PROVE  ReadinessFlags(g, stores) =
               {"report available"}
               \cup (IF ~Blocked(g, stores) THEN {"no blocking gap", "domains not blocked"} ELSE {})
               \cup (IF Ready("store_playbooks", g, stores) THEN {"stores have evidence"} ELSE {})
               \cup (IF \A i \in E : Ready(i, g, stores) THEN {"critical evidence"} ELSE {})
  <2> DEFINE R == Report(g, stores)
  <2>1. ReadinessFlags(g, stores) =
               {"report available"}
               \cup (IF R.blocking = 0 THEN {"no blocking gap", "domains not blocked"} ELSE {})
               \cup (IF R.documented THEN {"stores have evidence"} ELSE {})
               \cup (IF \A i \in E : R.status[i] = "ready" THEN {"critical evidence"} ELSE {})
    BY DEF ReadinessFlags
  <2>2. /\ R.blocking = 0 <=> ~Blocked(g, stores)
        /\ R.documented <=> Ready("store_playbooks", g, stores)
        /\ R.status = [i \in Items |-> ItemStatus(i, g, stores)]
    BY ReportIs
  <2>3. E \subseteq Items
    BY ChecklistIs DEF CriticalRisk
  <2> HIDE DEF R, E
  <2>4. \A i \in E : R.status[i] = "ready" <=> Ready(i, g, stores)
    BY <2>2, <2>3 DEF Ready
  <2> QED
    BY <2>1, <2>2, <2>4
<1> HIDE DEF E
<1>2. /\ \A i : Ready(i, later, stores) => Ready(i, gone, stores)
      /\ Blocked(gone, stores) => Blocked(later, stores)
  BY ReadinessSinks
<1>3. (\A i \in E : Ready(i, later, stores)) => (\A i \in E : Ready(i, gone, stores))
  BY <1>2
<1>4. /\ ReadinessFlags(gone, stores) =
               {"report available"}
               \cup (IF ~Blocked(gone, stores) THEN {"no blocking gap", "domains not blocked"} ELSE {})
               \cup (IF Ready("store_playbooks", gone, stores) THEN {"stores have evidence"} ELSE {})
               \cup (IF \A i \in E : Ready(i, gone, stores) THEN {"critical evidence"} ELSE {})
      /\ ReadinessFlags(later, stores) =
               {"report available"}
               \cup (IF ~Blocked(later, stores) THEN {"no blocking gap", "domains not blocked"} ELSE {})
               \cup (IF Ready("store_playbooks", later, stores) THEN {"stores have evidence"} ELSE {})
               \cup (IF \A i \in E : Ready(i, later, stores) THEN {"critical evidence"} ELSE {})
  BY <1>1
<1> QED
  BY <1>2, <1>3, <1>4

LEMMA DomainStatusIs ==
    ASSUME NEW gone, NEW stores, NEW d \in DOMAIN Checklist
    PROVE  LET s == DomainStatus(Report(gone, stores), d)
           IN /\ s # "not_started"
                   <=> \E i \in Checklist[d] : ItemStatus(i, gone, stores) \in {"partial", "ready"}
              /\ s = "ready"
                   <=> /\ \A i \in Checklist[d] : ItemStatus(i, gone, stores) # "partial"
                       /\ \E i \in Checklist[d] : Ready(i, gone, stores)
<1> DEFINE R == Report(gone, stores)
           found == {R.status[i] : i \in Checklist[d]}
<1>1. \A i \in Checklist[d] : R.status[i] = ItemStatus(i, gone, stores)
  <2>1. R.status = [i \in Items |-> ItemStatus(i, gone, stores)]
    BY ReportIs
  <2>2. Checklist[d] \subseteq Items
    BY ChecklistIs
  <2> HIDE DEF R
  <2> QED
    BY <2>1, <2>2
<1>2. DomainStatus(R, d) = IF "partial" \in found THEN "partial"
                           ELSE IF "ready" \in found THEN "ready" ELSE "not_started"
  BY DEF DomainStatus
<1>3. /\ "partial" \in found <=> \E i \in Checklist[d] : ItemStatus(i, gone, stores) = "partial"
      /\ "ready" \in found <=> \E i \in Checklist[d] : Ready(i, gone, stores)
  <2> HIDE DEF R
  <2> QED
    BY <1>1 DEF Ready
<1> HIDE DEF R, found
<1> QED
  BY <1>2, <1>3 DEF Ready, R

(* A store of the crawl's domain is one file, ready or not started.        *)
LEMMA CrawlIsNeverPartial ==
    ASSUME NEW i \in Checklist["crawl"], NEW gone, NEW stores
    PROVE  ItemStatus(i, gone, stores) # "partial"
<1>1. PICK f : FilesOf(i, stores) = {f}
  <2>1. i \in {"traversal_framework", "duplicate_protection", "pagination_safety",
               "store_acceptance"}
    BY DEF Checklist
  <2>2. CASE i = "duplicate_protection"
    <3>1. FilesOf(i, stores) = {"sync_pipeline.py"}
      BY <2>2 DEF FilesOf
    <3> QED
      BY <3>1
  <2>3. CASE i = "pagination_safety"
    <3>1. FilesOf(i, stores) = {"settings.py"}
      BY <2>3 DEF FilesOf
    <3> QED
      BY <3>1
  <2>4. CASE i \in {"traversal_framework", "store_acceptance"}
    <3>1. FilesOf(i, stores) = {i}
      BY <2>4 DEF FilesOf
    <3> QED
      BY <3>1
  <2> QED
    BY <2>1, <2>2, <2>3, <2>4
<1> DEFINE files == FilesOf(i, stores)
<1>2. ItemStatus(i, gone, stores) =
        CASE files \cap gone = {} -> "ready"
          [] files # {} /\ files \subseteq gone -> "not_started"
          [] OTHER -> "partial"
  BY DEF ItemStatus
<1>3. files \cap gone = {} \/ (files # {} /\ files \subseteq gone /\ files \cap gone # {})
  BY <1>1
<1> HIDE DEF files
<1> QED
  BY <1>2, <1>3

(* Where nothing blocks, each item of a guarded domain is ready.           *)
LEMMA GuardedIsReady ==
    ASSUME NEW d \in Guarded, NEW gone, NEW stores, ~Blocked(gone, stores)
    PROVE  \A i \in Checklist[d] : Ready(i, gone, stores)
<1> SUFFICES ASSUME NEW i \in Checklist[d], ~Ready(i, gone, stores) PROVE FALSE
  OBVIOUS
<1>1. DomainOf(i) \in Guarded
  BY GuardedDomains
<1>2. i \in Items
  BY ChecklistIs
<1>3. GapBlocks(i, ItemStatus(i, gone, stores))
  BY <1>1 DEF GapBlocks
<1> QED
  BY <1>2, <1>3 DEF Blocked, Blocks

LEMMA BegunSinks ==
    ASSUME NEW gone, NEW later, gone \subseteq later, NEW stores, NEW d \in DOMAIN Checklist,
           DomainStatus(Report(later, stores), d) # "not_started"
    PROVE  DomainStatus(Report(gone, stores), d) # "not_started"
<1>1. PICK i \in Checklist[d] : ItemStatus(i, later, stores) \in {"partial", "ready"}
  BY DomainStatusIs
<1>2. ItemStatus(i, gone, stores) \in {"partial", "ready"}
  BY <1>1, ItemSinks
<1> QED
  BY <1>2, DomainStatusIs

LEMMA AllReadyDomain ==
    ASSUME NEW gone, NEW stores, AllReady(gone, stores), NEW d \in DOMAIN Checklist
    PROVE  DomainStatus(Report(gone, stores), d) = "ready"
<1>1. \A i \in Checklist[d] : ItemStatus(i, gone, stores) = "ready"
  BY ChecklistIs DEF AllReady, Ready
<1>2. Checklist[d] # {}
  BY ChecklistIs
<1>3. /\ \A i \in Checklist[d] : ItemStatus(i, gone, stores) # "partial"
      /\ \E i \in Checklist[d] : Ready(i, gone, stores)
  BY <1>1, <1>2 DEF Ready
<1> QED
  BY <1>3, DomainStatusIs

(* A phase that may be entered, or left, after a loss might before it.     *)
LEMMA PhasesSink ==
    ASSUME NEW gone, NEW later, gone \subseteq later, NEW stores, NEW p \in DOMAIN PhaseRank
    PROVE  /\ CanEnterPhase(Report(later, stores), p) => CanEnterPhase(Report(gone, stores), p)
           /\ CanExitPhase(Report(later, stores), p) => CanExitPhase(Report(gone, stores), p)
<1> DEFINE R == Report(gone, stores)
           S == Report(later, stores)
<1>1. /\ R.blocking = 0 <=> ~Blocked(gone, stores)
      /\ S.blocking = 0 <=> ~Blocked(later, stores)
      /\ R.overall = IF Blocked(gone, stores) THEN "blocked"
                     ELSE IF AllReady(gone, stores) THEN "ready" ELSE "partial"
      /\ S.overall = IF Blocked(later, stores) THEN "blocked"
                     ELSE IF AllReady(later, stores) THEN "ready" ELSE "partial"
      /\ AllReady(gone, stores) => R.critical = 0
  BY ReportIs
<1>2. /\ AllReady(later, stores) => AllReady(gone, stores)
      /\ Blocked(gone, stores) => Blocked(later, stores)
  BY ReadinessSinks
<1>3. \A d \in DOMAIN Checklist : DomainStatus(S, d) # "not_started" => DomainStatus(R, d) # "not_started"
  BY BegunSinks
<1>4. AllReady(gone, stores) => \A d \in DOMAIN Checklist : DomainStatus(R, d) = "ready"
  BY AllReadyDomain
<1>5. ASSUME ~Blocked(later, stores), DomainStatus(S, "crawl") = "ready"
      PROVE  \A d \in Guarded \cup {"crawl"} : DomainStatus(R, d) = "ready"
  <2>1. ASSUME NEW d \in Guarded PROVE DomainStatus(R, d) = "ready"
    <3>1. \A i \in Checklist[d] : ItemStatus(i, gone, stores) = "ready"
      BY <1>5, GuardedIsReady, ReadinessSinks DEF Ready
    <3>2. d \in DOMAIN Checklist /\ Checklist[d] # {}
      BY ChecklistIs
    <3>3. /\ \A i \in Checklist[d] : ItemStatus(i, gone, stores) # "partial"
          /\ \E i \in Checklist[d] : Ready(i, gone, stores)
      BY <3>1, <3>2 DEF Ready
    <3> QED
      BY <3>2, <3>3, DomainStatusIs
  <2>2. DomainStatus(R, "crawl") = "ready"
    <3>1. "crawl" \in DOMAIN Checklist
      BY ChecklistIs
    <3>2. \E i \in Checklist["crawl"] : Ready(i, later, stores)
      BY <1>5, <3>1, DomainStatusIs
    <3>3. \E i \in Checklist["crawl"] : Ready(i, gone, stores)
      BY <3>2, ReadinessSinks
    <3> QED
      BY <3>1, <3>3, CrawlIsNeverPartial, DomainStatusIs
  <2> QED
    BY <2>1, <2>2
<1>6. Guarded \cup {"crawl"} \subseteq DOMAIN Checklist
  BY ChecklistIs
<1> HIDE DEF R, S
<1>7. p \in {"foundation", "go_live_baseline", "post_launch_hardening", "scale_maturity"}
  BY DEF PhaseRank
<1>8. CanEnterPhase(S, p) => CanEnterPhase(R, p)
  <2>1. CASE p = "foundation"
    BY <2>1 DEF CanEnterPhase
  <2>2. CASE p = "go_live_baseline"
    <3>1. \A x : CanEnterPhase(x, p) <=>
            /\ x.blocking = 0
            /\ \A d \in Guarded \cup {"crawl"} : DomainStatus(x, d) # "not_started"
      BY <2>2 DEF CanEnterPhase
    <3> QED
      BY <1>1, <1>2, <1>3, <1>6, <3>1
  <2>3. CASE p = "post_launch_hardening"
    BY <1>1, <1>2, <2>3 DEF CanEnterPhase
  <2>4. CASE p = "scale_maturity"
    BY <1>1, <1>2, <2>4 DEF CanEnterPhase
  <2> QED
    BY <1>7, <2>1, <2>2, <2>3, <2>4
<1>9. CanExitPhase(S, p) => CanExitPhase(R, p)
  <2>1. CASE p = "foundation"
    <3>1. \A x : CanExitPhase(x, p) <=>
            /\ x.blocking = 0
            /\ \A d \in Guarded \cup {"crawl"} : DomainStatus(x, d) = "ready"
      BY <2>1 DEF CanExitPhase
    <3> QED
      BY <1>1, <1>2, <1>5, <3>1
  <2>2. CASE p = "go_live_baseline"
    <3>1. \A x : CanExitPhase(x, p) <=>
            /\ x.overall = "ready"
            /\ \A d \in {"lifecycle", "batch_apply", "replay_reconciliation", "observability",
                         "release_governance", "documentation"} : DomainStatus(x, d) = "ready"
      BY <2>2 DEF CanExitPhase
    <3>2. {"lifecycle", "batch_apply", "replay_reconciliation", "observability",
           "release_governance", "documentation"} \subseteq DOMAIN Checklist
      BY ChecklistIs
    <3> QED
      BY <1>1, <1>2, <1>4, <3>1, <3>2
  <2>3. CASE p = "post_launch_hardening"
    <3>1. \A x : CanExitPhase(x, p) <=>
            /\ x.overall = "ready"
            /\ \A d \in {"performance", "supportability"} : DomainStatus(x, d) # "not_started"
      BY <2>3 DEF CanExitPhase
    <3>2. {"performance", "supportability"} \subseteq DOMAIN Checklist
      BY ChecklistIs
    <3> QED
      BY <1>1, <1>2, <1>3, <3>1, <3>2
  <2>4. CASE p = "scale_maturity"
    BY <1>1, <1>2, <2>4 DEF CanExitPhase
  <2> QED
    BY <1>7, <2>1, <2>2, <2>3, <2>4
<1> QED
  BY <1>8, <1>9 DEF R, S

(* The items whose gap blocks the roadmap, and whose entry does.           *)
BlockingGaps(gone, stores) == {i \in Items : Blocks(i, gone, stores)}
BlockingEntries(gone, stores) ==
    {i \in Items : ~Ready(i, gone, stores) /\ (i \in CriticalRisk \/ DomainOf(i) \in Guarded)}

(* The items the roadmap makes of the gaps and of the entries.             *)
Made(gone, stores) ==
    LET gaps == Gaps(gone, stores)
        entries == {[g EXCEPT !.severity = IF g.item \in CriticalRisk THEN "critical" ELSE "high",
                              !.blocking = \/ g.item \in CriticalRisk
                                           \/ g.domain \in Guarded] : g \in gaps}
        made(from, set) ==
            {[code |-> <<from, g.item>>, workstream |-> Workstream(g.domain),
              phase |-> PhaseOf(g), priority |-> Priority(g), blocking |-> g.blocking,
              after |-> {}] : g \in set}
    IN made("gap", gaps) \cup made("checklist", entries)

(* The blockers the gaps and the entries of the checklist stand for.       *)
LEMMA MadeBlockersAre ==
    ASSUME NEW gone, NEW stores
    PROVE  Blockers(Made(gone, stores)) =
             {<<"gap", i>> : i \in BlockingGaps(gone, stores)}
             \cup {<<"checklist", i>> : i \in BlockingEntries(gone, stores)}
<1> DEFINE gaps == Gaps(gone, stores)
           entry(g) == [g EXCEPT !.severity = IF g.item \in CriticalRisk THEN "critical" ELSE "high",
                                 !.blocking = \/ g.item \in CriticalRisk
                                              \/ g.domain \in Guarded]
           entries == {entry(g) : g \in gaps}
           node(from, g) == [code |-> <<from, g.item>>, workstream |-> Workstream(g.domain),
                             phase |-> PhaseOf(g), priority |-> Priority(g), blocking |-> g.blocking,
                             after |-> {}]
           made(from, set) == {node(from, g) : g \in set}
           L == {j \in Items : ~Ready(j, gone, stores)}
           gap(i) == GapOf(i, gone, stores)
<1>1. Made(gone, stores) = made("gap", gaps) \cup made("checklist", entries)
  BY DEF Made
<1>2. gaps = {gap(i) : i \in L}
  BY GapsAre
<1>3. ASSUME NEW from, NEW set
      PROVE  {k.code : k \in {j \in made(from, set) : j.blocking}}
               = {<<from, g.item>> : g \in {h \in set : h.blocking}}
  <2> DEFINE n(g) == node(from, g)
             M == made(from, set)
  <2>1. \A g : n(g).code = <<from, g.item>> /\ (n(g).blocking <=> g.blocking)
    OBVIOUS
  <2>2. M = {n(g) : g \in set}
    OBVIOUS
  <2> HIDE DEF n, M
  <2>3. {k.code : k \in {j \in M : j.blocking}}
          \subseteq {<<from, g.item>> : g \in {h \in set : h.blocking}}
    <3>1. SUFFICES ASSUME NEW k \in M, k.blocking
                   PROVE  \E g \in {h \in set : h.blocking} : k.code = <<from, g.item>>
      OBVIOUS
    <3>2. PICK g \in set : k = n(g)
      BY <2>2
    <3>3. g.blocking /\ k.code = <<from, g.item>>
      BY <2>1, <3>1, <3>2
    <3> QED
      BY <3>3
  <2>4. {<<from, g.item>> : g \in {h \in set : h.blocking}}
          \subseteq {k.code : k \in {j \in M : j.blocking}}
    <3>1. SUFFICES ASSUME NEW g \in set, g.blocking
                   PROVE  \E k \in {j \in M : j.blocking} : k.code = <<from, g.item>>
      BY Zenon
    <3>2. n(g) \in {j \in M : j.blocking} /\ n(g).code = <<from, g.item>>
      BY <2>1, <2>2, <3>1
    <3> QED
      BY <3>2
  <2>5. {k.code : k \in {j \in M : j.blocking}}
          = {<<from, g.item>> : g \in {h \in set : h.blocking}}
    BY <2>3, <2>4
  <2> QED
    BY <2>5 DEF M
<1>4. Blockers(Made(gone, stores)) =
        {<<"gap", g.item>> : g \in {h \in gaps : h.blocking}}
        \cup {<<"checklist", g.item>> : g \in {h \in entries : h.blocking}}
  <2>1. Blockers(Made(gone, stores))
          = {k.code : k \in {j \in made("gap", gaps) : j.blocking}}
            \cup {k.code : k \in {j \in made("checklist", entries) : j.blocking}}
    <3> HIDE DEF made, gaps, entries
    <3> QED
      BY <1>1 DEF Blockers
  <2> HIDE DEF made, gaps, entries
  <2> QED
    BY <1>3, <2>1
<1>5. \A i : gap(i).item = i /\ gap(i).domain = DomainOf(i)
             /\ (gap(i).blocking <=> GapBlocks(i, ItemStatus(i, gone, stores)))
  BY DEF GapOf
<1>6. \A i : /\ entry(gap(i)).item = i
             /\ entry(gap(i)).blocking <=> i \in CriticalRisk \/ DomainOf(i) \in Guarded
  BY DEF GapOf
<1>7. {<<"gap", g.item>> : g \in {h \in gaps : h.blocking}}
        = {<<"gap", i>> : i \in BlockingGaps(gone, stores)}
  <2> HIDE DEF gap, gaps
  <2>1. {h \in gaps : h.blocking} = {gap(i) : i \in BlockingGaps(gone, stores)}
    BY <1>2, <1>5 DEF Blocks, BlockingGaps
  <2> QED
    BY <1>5, <2>1
<1>8. entries = {entry(gap(i)) : i \in L}
  <2> HIDE DEF gap, entry, gaps, L
  <2> QED
    BY <1>2
<1>9. {<<"checklist", g.item>> : g \in {h \in entries : h.blocking}}
        = {<<"checklist", i>> : i \in BlockingEntries(gone, stores)}
  <2> HIDE DEF gap, entry, entries
  <2>1. {h \in entries : h.blocking} = {entry(gap(i)) : i \in BlockingEntries(gone, stores)}
    BY <1>6, <1>8 DEF BlockingEntries
  <2> QED
    BY <1>6, <2>1
<1> HIDE DEF entries, gaps
<1> QED
  BY <1>4, <1>7, <1>9

(* Once the seeded ones are left out, so are those of the roadmap: without *)
(* a gap there is no other.                                                *)
LEMMA BlockersAre ==
    ASSUME NEW gone
    PROVE  GapBlockers(gone) =
             {<<"gap", i>> : i \in BlockingGaps(gone, StoreNames)}
             \cup {<<"checklist", i>> : i \in BlockingEntries(gone, StoreNames)}
<1> DEFINE M == Made(gone, StoreNames)
           B == {<<"gap", i>> : i \in BlockingGaps(gone, StoreNames)}
                \cup {<<"checklist", i>> : i \in BlockingEntries(gone, StoreNames)}
<1>1. Roadmap(gone, StoreNames) = IF M = {} THEN Seeds ELSE M
  BY DEF Roadmap, Made
<1>2. Blockers(M) = B
  BY MadeBlockersAre
<1>3. \A c \in B : c[1] # "seed"
  OBVIOUS
<1>4. \A i \in Seeds : i.code[1] = "seed"
  BY DEF Seeds
<1>5. CASE M = {}
  <2>1. B = {}
    BY <1>2, <1>5 DEF Blockers
  <2>2. GapBlockers(gone) = {}
    <3> HIDE DEF M, B
    <3> QED
      BY <1>1, <1>4, <1>5 DEF GapBlockers, Blockers
  <2> QED
    BY <2>1, <2>2
<1>6. CASE M # {}
  <2> HIDE DEF M, B
  <2>1. GapBlockers(gone) = {c \in B : c[1] # "seed"}
    BY <1>1, <1>2, <1>6 DEF GapBlockers
  <2> QED
    BY <1>3, <2>1 DEF B
<1> QED
  BY <1>5, <1>6

(* The roadmap loses none of them.                                         *)
LEMMA BlockersStay ==
    ASSUME NEW gone, NEW later, gone \subseteq later
    PROVE  GapBlockers(gone) \subseteq GapBlockers(later)
<1>1. /\ \A i : Blocks(i, gone, StoreNames) => Blocks(i, later, StoreNames)
      /\ \A i : Ready(i, later, StoreNames) => Ready(i, gone, StoreNames)
  BY BlocksStays, ReadinessSinks
<1>2. /\ BlockingGaps(gone, StoreNames) \subseteq BlockingGaps(later, StoreNames)
      /\ BlockingEntries(gone, StoreNames) \subseteq BlockingEntries(later, StoreNames)
  BY <1>1 DEF BlockingGaps, BlockingEntries
<1> QED
  BY <1>2, BlockersAre

-----------------------------------------------------------------------------
(* The contract: what became of the payload.                               *)

ChangesOf(w) == ContractChanges(Surface, Baseline, w.payload, Shadow)

(* The fields that are gone and have no replacement.                       *)
Missed(w) == Damage(w).lost \ {b[1] : b \in Bridged(w)}

(* When the payload breaks the contract, and when anything but new fields  *)
(* came to it.                                                             *)
Breaks(w) ==
    \/ \E p \in Missed(w) : Leaf(p) \in Indispensable(Surface)
    \/ Damage(w).drifted # {}
    \/ /\ Surface = "crm_payload" /\ Bridged(w) = {}
       /\ \E p \in Missed(w) : Len(p) = 1
       /\ \E p \in New(w) : Len(p) = 1

Moves(w) == Damage(w).lost # {} \/ Damage(w).drifted # {}

LEMMA ChangesAre ==
    ASSUME NEW w
    PROVE  /\ \A c \in ChangesOf(w) : c.level \in {"compatible", "conditional", "breaking"}
           /\ (\E c \in ChangesOf(w) : c.level = "breaking") <=> Breaks(w)
           /\ (\E c \in ChangesOf(w) : c.level # "compatible") <=> Moves(w)
<1> DEFINE lost == Missed(w)
           bridged == Bridged(w)
           names == {s[2] : s \in bridged}
           olds == {s[1] : s \in bridged}
           drifted == Damage(w).drifted
           vital == {p \in lost : Leaf(p) \in Indispensable(Surface)}
           top == {p \in lost : Len(p) = 1}
           new == New(w) \ names
           rename == Surface = "crm_payload" /\ bridged = {} /\ top # {}
                       /\ \E p \in new : Len(p) = 1
           C(name, paths, level) == {[name |-> name, path |-> p, level |-> level] : p \in paths}
           renamed == IF rename THEN C("renamed", top, "breaking") ELSE {}
           all == C("removed", vital, "breaking") \cup C("removed", lost \ vital, "conditional")
                    \cup C("added", new, "compatible") \cup C("drift", drifted, "breaking")
                    \cup C("bridged", olds, "conditional") \cup renamed
<1>1. ChangesOf(w) = all
  BY DEF ChangesOf, ContractChanges, Missed, Damage, Bridged, New
<1>2. /\ bridged = {} => names = {} /\ olds = {}
      /\ olds \subseteq Damage(w).lost /\ lost \cup olds = Damage(w).lost
  BY DEF Missed, Bridged
<1>3. rename <=> /\ Surface = "crm_payload" /\ bridged = {}
                 /\ \E p \in lost : Len(p) = 1
                 /\ \E p \in New(w) : Len(p) = 1
  BY <1>2
<1>4. Breaks(w) <=> vital # {} \/ drifted # {} \/ rename
  BY <1>3 DEF Breaks
<1>5. Moves(w) <=> lost # {} \/ olds # {} \/ drifted # {}
  BY <1>2 DEF Moves
<1>6. rename => top # {}
  OBVIOUS
<1>7. vital \subseteq lost /\ top \subseteq lost
  OBVIOUS
<1> HIDE DEF lost, bridged, names, olds, drifted, vital, top, new, rename
<1>8. \A c \in all : c.level \in {"compatible", "conditional", "breaking"}
  OBVIOUS
<1>9. (\E c \in all : c.level = "breaking") <=> vital # {} \/ drifted # {} \/ rename
  <2>1. vital # {} => \E c \in all : c.level = "breaking"
    <3>1. SUFFICES ASSUME NEW p \in vital PROVE \E c \in all : c.level = "breaking"
      OBVIOUS
    <3>2. [name |-> "removed", path |-> p, level |-> "breaking"] \in all
      OBVIOUS
    <3> QED
      BY <3>2
  <2>2. drifted # {} => \E c \in all : c.level = "breaking"
    <3>1. SUFFICES ASSUME NEW p \in drifted PROVE \E c \in all : c.level = "breaking"
      OBVIOUS
    <3>2. [name |-> "drift", path |-> p, level |-> "breaking"] \in all
      OBVIOUS
    <3> QED
      BY <3>2
  <2>3. rename => \E c \in all : c.level = "breaking"
    <3>1. SUFFICES ASSUME rename, NEW p \in top PROVE \E c \in all : c.level = "breaking"
      BY <1>6
    <3>2. [name |-> "renamed", path |-> p, level |-> "breaking"] \in all
      BY <3>1
    <3> QED
      BY <3>2
  <2>4. ASSUME NEW c \in all, c.level = "breaking"
        PROVE  vital # {} \/ drifted # {} \/ rename
    BY <2>4
  <2> QED
    BY <2>1, <2>2, <2>3, <2>4
<1>10. (\E c \in all : c.level # "compatible") <=> lost # {} \/ olds # {} \/ drifted # {}
  <2>1. lost # {} => \E c \in all : c.level # "compatible"
    <3>1. SUFFICES ASSUME NEW p \in lost PROVE \E c \in all : c.level # "compatible"
      OBVIOUS
    <3>2. \/ [name |-> "removed", path |-> p, level |-> "breaking"] \in all
          \/ [name |-> "removed", path |-> p, level |-> "conditional"] \in all
      OBVIOUS
    <3> QED
      BY <3>2
  <2>2. drifted # {} => \E c \in all : c.level # "compatible"
    <3>1. SUFFICES ASSUME NEW p \in drifted PROVE \E c \in all : c.level # "compatible"
      OBVIOUS
    <3>2. [name |-> "drift", path |-> p, level |-> "breaking"] \in all
      OBVIOUS
    <3> QED
      BY <3>2
  <2>3. olds # {} => \E c \in all : c.level # "compatible"
    <3>1. SUFFICES ASSUME NEW p \in olds PROVE \E c \in all : c.level # "compatible"
      OBVIOUS
    <3>2. [name |-> "bridged", path |-> p, level |-> "conditional"] \in all
      OBVIOUS
    <3> QED
      BY <3>2
  <2>4. ASSUME NEW c \in all, c.level # "compatible"
        PROVE  lost # {} \/ olds # {} \/ drifted # {}
    BY <2>4, <1>6, <1>7
  <2> QED
    BY <2>1, <2>2, <2>3, <2>4
<1> HIDE DEF all
<1> QED
  BY <1>1, <1>4, <1>5, <1>8, <1>9, <1>10

(* The level of a set of changes is the highest of theirs.                 *)
LEMMA LevelIs ==
    ASSUME NEW changes,
           \A c \in changes : c.level \in {"compatible", "conditional", "breaking"}
    PROVE  /\ CompatibilityLevel(changes) = "breaking" <=> \E c \in changes : c.level = "breaking"
           /\ CompatibilityLevel(changes) # "compatible"
                <=> \E c \in changes : c.level # "compatible"
<1> DEFINE levels == {c.level : c \in changes} \cup {"compatible"}
           highest(l) == \A k \in levels : LevelRank[k] <= LevelRank[l]
           level == CompatibilityLevel(changes)
<1>1. levels \subseteq {"compatible", "conditional", "breaking"} /\ "compatible" \in levels
  OBVIOUS
<1>2. /\ "breaking" \in levels <=> \E c \in changes : c.level = "breaking"
      /\ levels # {"compatible"} <=> \E c \in changes : c.level # "compatible"
  BY <1>1
<1>3. LevelRank["compatible"] = 0 /\ LevelRank["conditional"] = 1 /\ LevelRank["breaking"] = 2
  BY DEF LevelRank
<1>4. level = CHOOSE l \in levels : highest(l)
  BY DEF CompatibilityLevel
<1> HIDE DEF levels, level
<1>5. \E l \in levels : highest(l)
  <2>1. CASE "breaking" \in levels
    BY <1>1, <1>3, <2>1
  <2>2. CASE "breaking" \notin levels /\ "conditional" \in levels
    BY <1>1, <1>3, <2>2
  <2>3. CASE "breaking" \notin levels /\ "conditional" \notin levels
    BY <1>1, <1>3, <2>3
  <2> QED
    BY <2>1, <2>2, <2>3
<1>6. level \in levels /\ highest(level)
  BY <1>4, <1>5
<1>7. level = "breaking" <=> "breaking" \in levels
  BY <1>1, <1>3, <1>6
<1>8. level # "compatible" <=> levels # {"compatible"}
  <2>1. ASSUME levels # {"compatible"} PROVE level # "compatible"
    <3>0. (\A l \in levels : l = "compatible") => levels = {"compatible"}
      BY <1>1
    <3>1. PICK l \in levels : l # "compatible"
      BY <2>1, <3>0
    <3>2. l = "conditional" \/ l = "breaking"
      BY <1>1, <3>1
    <3>3. LevelRank[l] = 1 \/ LevelRank[l] = 2
      BY <1>3, <3>2
    <3>4. LevelRank[l] <= LevelRank[level]
      BY <1>6
    <3>5. CASE level = "compatible"
      <4>1. LevelRank[level] = 0
        BY <1>3, <3>5
      <4> QED
        BY <3>3, <3>4, <4>1
    <3> QED
      BY <3>5
  <2> QED
    BY <1>6, <2>1
<1> QED
  BY <1>2, <1>7, <1>8 DEF level

(* Damage to the payload adds up.                                          *)
MoreDamage(w, v) ==
    /\ New(w) = New(v) /\ Bridged(w) = Bridged(v)
    /\ Damage(w).lost \subseteq Damage(v).lost
    /\ Damage(w).drifted \subseteq Damage(v).drifted
    /\ Damage(w).retyped \subseteq Damage(v).retyped

LEMMA ContractSinks ==
    ASSUME NEW w, NEW v, MoreDamage(w, v)
    PROVE  /\ Breaks(w) => Breaks(v)
           /\ Moves(w) => Moves(v)
           /\ ShapeKept(Baseline, v.payload) => ShapeKept(Baseline, w.payload)
<1>1. Missed(w) \subseteq Missed(v)
  BY DEF MoreDamage, Missed
<1>2. Breaks(w) => Breaks(v)
  BY <1>1 DEF MoreDamage, Breaks
<1>3. Moves(w) => Moves(v)
  BY DEF MoreDamage, Moves
<1>4. \A u : ShapeKept(Baseline, u.payload) <=> Damage(u).lost = {} /\ Damage(u).retyped = {}
  BY DEF ShapeKept, Damage
<1> QED
  BY <1>2, <1>3, <1>4 DEF MoreDamage

(* The gates of the contract that hold.                                    *)
LEMMA ContractFlagsAre ==
    ASSUME NEW w, NEW r
    PROVE  ContractFlags(r, Surface, Baseline, w.payload, Shadow) =
             {"deprecation removal"}
               \cup (IF ShapeKept(Baseline, w.payload) THEN {"payload compatibility"} ELSE {})
               \cup (IF ~Breaks(w) \/ r.allowBreaking
                     THEN {"core surfaces", "no unplanned breaking", "migration readiness"}
                     ELSE {})
               \cup (IF Moves(w) => r.dualPlanned THEN {"dual shape plan"} ELSE {})
<1> DEFINE changes == ChangesOf(w)
<1>1. /\ CompatibilityLevel(changes) = "breaking" <=> Breaks(w)
      /\ CompatibilityLevel(changes) # "compatible" <=> Moves(w)
  <2> HIDE DEF changes
  <2>1. /\ \A c \in changes : c.level \in {"compatible", "conditional", "breaking"}
        /\ (\E c \in changes : c.level = "breaking") <=> Breaks(w)
        /\ (\E c \in changes : c.level # "compatible") <=> Moves(w)
    BY ChangesAre DEF changes
  <2> QED
    BY <2>1, LevelIs
<1> HIDE DEF changes
<1>2. Compatible(r, changes) <=> ~Breaks(w) \/ r.allowBreaking
  BY <1>1 DEF Compatible
<1>3. /\ Migration(r, changes).dual <=> Moves(w)
      /\ Migration(r, changes).recommendation # "block_release" <=> Compatible(r, changes)
  BY <1>1 DEF Migration
<1>4. ContractFlags(r, Surface, Baseline, w.payload, Shadow) =
        {"deprecation removal"}
          \cup (IF ShapeKept(Baseline, w.payload) THEN {"payload compatibility"} ELSE {})
          \cup (IF Compatible(r, changes) THEN {"core surfaces", "no unplanned breaking"} ELSE {})
          \cup (IF Migration(r, changes).recommendation # "block_release"
                THEN {"migration readiness"} ELSE {})
          \cup (IF Migration(r, changes).dual => r.dualPlanned THEN {"dual shape plan"} ELSE {})
  BY DEF ContractFlags, changes, ChangesOf
<1> QED
  BY <1>2, <1>3, <1>4

(* No gate opens.                                                          *)
LEMMA GatesClose ==
    ASSUME NEW w, NEW v, MoreDamage(w, v), w.gone \subseteq v.gone, v.passed \subseteq w.passed,
           w.policy = v.policy
    PROVE  PassedGates(v) \subseteq PassedGates(w)
<1>1. ReadinessFlags(v.gone, StoreNames) \subseteq ReadinessFlags(w.gone, StoreNames)
  BY FlagsSink
<1>2. ContractFlags(v.policy.r, Surface, Baseline, v.payload, Shadow)
        \subseteq ContractFlags(w.policy.r, Surface, Baseline, w.payload, Shadow)
  <2>1. /\ Breaks(w) => Breaks(v)
        /\ Moves(w) => Moves(v)
        /\ ShapeKept(Baseline, v.payload) => ShapeKept(Baseline, w.payload)
    BY ContractSinks
  <2> DEFINE Flags(u) ==
               {"deprecation removal"}
                 \cup (IF ShapeKept(Baseline, u.payload) THEN {"payload compatibility"} ELSE {})
                 \cup (IF ~Breaks(u) \/ w.policy.r.allowBreaking
                       THEN {"core surfaces", "no unplanned breaking", "migration readiness"}
                       ELSE {})
                 \cup (IF Moves(u) => w.policy.r.dualPlanned THEN {"dual shape plan"} ELSE {})
  <2>2. Flags(v) \subseteq Flags(w)
    BY <2>1
  <2>3. \A u : ContractFlags(w.policy.r, Surface, Baseline, u.payload, Shadow) = Flags(u)
    BY ContractFlagsAre
  <2> QED
    BY <2>2, <2>3, ZenonT(60)
<1> QED
  BY <1>1, <1>2 DEF PassedGates

-----------------------------------------------------------------------------
(* The release and the launch.                                             *)

LEMMA FinitelyManyGates == IsFiniteSet(Gates)
<1>1. \A a, b, c, d, e, f, g, h : IsFiniteSet({a, b, c, d, e, f, g, h})
  <2> SUFFICES ASSUME NEW a, NEW b, NEW c, NEW d, NEW e, NEW f, NEW g, NEW h
               PROVE  IsFiniteSet({a, b, c, d, e, f, g, h})
    OBVIOUS
  <2>1. IsFiniteSet({a, b, c, d}) /\ IsFiniteSet({e, f, g, h})
    BY FourFinite
  <2>2. {a, b, c, d, e, f, g, h} = {a, b, c, d} \cup {e, f, g, h}
    OBVIOUS
  <2> QED
    BY <2>1, <2>2, FS_Union
<1>2. IsFiniteSet(ReadinessGates)
  <2>1. ReadinessGates = {"no blocking gap", "domains not blocked", "report available",
                          "stores have evidence", "critical evidence", "critical evidence",
                          "critical evidence", "critical evidence"}
    BY DEF ReadinessGates
  <2> QED
    BY <1>1, <2>1
<1>3. IsFiniteSet(ContractGates)
  <2>1. ContractGates = {"payload compatibility", "core surfaces", "no unplanned breaking",
                         "migration readiness", "deprecation removal", "dual shape plan",
                         "dual shape plan", "dual shape plan"}
    BY DEF ContractGates
  <2> QED
    BY <1>1, <2>1
<1>4. IsFiniteSet(TestGates)
  <2>1. TestGates = {"unit tests", "contract tests", "store acceptance", "lifecycle replay",
                     "malformed responses", "mapping coverage", "golden parse", "golden parse"}
    BY DEF TestGates
  <2> QED
    BY <1>1, <2>1
<1>5. IsFiniteSet(ReviewGates)
  <2>1. ReviewGates = {"cost and performance", "store efficiency", "dependencies",
                       "anti-patterns", "lint report", "core imports", "required docs",
                       "playbooks"}
                      \cup {"support docs", "docs coverage", "knowledge continuity",
                            "knowledge continuity"}
    BY DEF ReviewGates
  <2>2. /\ IsFiniteSet({"cost and performance", "store efficiency", "dependencies",
                        "anti-patterns", "lint report", "core imports", "required docs",
                        "playbooks"})
        /\ IsFiniteSet({"support docs", "docs coverage", "knowledge continuity",
                        "knowledge continuity"})
    BY <1>1, FourFinite
  <2> QED
    BY <2>1, <2>2, FS_Union
<1>6. IsFiniteSet(ReadinessGates \cup ContractGates)
  BY <1>2, <1>3, FS_Union
<1>7. IsFiniteSet((ReadinessGates \cup ContractGates) \cup TestGates)
  BY <1>4, <1>6, FS_Union
<1>8. IsFiniteSet(((ReadinessGates \cup ContractGates) \cup TestGates) \cup ReviewGates)
  BY <1>5, <1>7, FS_Union
<1>9. Gates = ((ReadinessGates \cup ContractGates) \cup TestGates) \cup ReviewGates
  BY DEF Gates
<1> QED
  BY <1>8, <1>9

(* A release goes out when every gate holds.                               *)
LEMMA ReleaseIs ==
    ASSUME NEW passed
    PROVE  ReleaseAction(passed, {})
             = IF Gates \subseteq passed THEN "release" ELSE "block_release"
<1> DEFINE n == Cardinality(Gates \ passed)
           m == CriticalFailures(passed, {})
<1>1. IsFiniteSet(Gates \ passed)
  BY FinitelyManyGates, FS_Subset
<1>2. n \in Nat /\ (n = 0 <=> Gates \ passed = {})
  BY <1>1, FS_CardinalityType, FS_EmptySet
<1>3. m = n + Cardinality({})
  <2>1. {} \cap {"unit", "contract", "acceptance", "compatibility", "regression"} = {}
    OBVIOUS
  <2> QED
    BY <2>1 DEF CriticalFailures
<1>4. m = n
  <2> HIDE DEF m, n
  <2>1. Cardinality({}) = 0
    BY FS_EmptySet
  <2> QED
    BY <1>2, <1>3, <2>1
<1>5. Gates \ passed = {} <=> Gates \subseteq passed
  OBVIOUS
<1>6. ReleaseAction(passed, {}) = CASE m > 0 -> "block_release"
                                    [] m = 0 /\ {} # {} -> "release_with_caution"
                                    [] OTHER -> "release"
  BY DEF ReleaseAction
<1> HIDE DEF m, n
<1>7. CASE m > 0
  <2>1. ReleaseAction(passed, {}) = "block_release"
    BY <1>6, <1>7
  <2>2. ~(Gates \subseteq passed)
    BY <1>2, <1>4, <1>5, <1>7
  <2> QED
    BY <2>1, <2>2
<1>8. CASE m = 0
  <2>1. ReleaseAction(passed, {}) = "release"
    BY <1>6, <1>8
  <2>2. Gates \subseteq passed
    BY <1>2, <1>4, <1>5, <1>8
  <2> QED
    BY <2>1, <2>2
<1> QED
  BY <1>2, <1>4, <1>7, <1>8

(* The operators said something worse: from a to b they took words back,   *)
(* or told bad news, which they never take back.                           *)
Retracted(a, b) ==
    /\ b.confirmed \ BadNews \subseteq a.confirmed
    /\ a.confirmed \cap BadNews \subseteq b.confirmed
    /\ a.denied \subseteq b.denied /\ b.denied \subseteq a.denied \cup a.confirmed
    /\ a.confirmed \subseteq b.confirmed \cup b.denied
    /\ b.denied \cap BadNews = {}

LEMMA WordsSink ==
    ASSUME NEW a, NEW b, Retracted(a, b)
    PROVE  /\ \A flag, default : flag \notin BadNews /\ Said(b, flag, default)
                                   => Said(a, flag, default)
           /\ \A flag : flag \notin BadNews =>
                (flag \in a.confirmed \cup a.denied <=> flag \in b.confirmed \cup b.denied)
BY DEF Retracted, Said

LEMMA CanarySinks ==
    ASSUME NEW a, NEW b, Retracted(a, b), NEW g, NEW given, NEW stages
    PROVE  /\ CanaryScope(g, b, given, stages) => CanaryScope(g, a, given, stages)
           /\ ~CanaryViolation(g, b, given, stages) => ~CanaryViolation(g, a, given, stages)
<1>1. CanaryScope(g, b, given, stages) => CanaryScope(g, a, given, stages)
  <2>1. "canary scope" \in a.confirmed \cup a.denied <=> "canary scope" \in b.confirmed \cup b.denied
    BY WordsSink DEF BadNews
  <2>2. "canary scope" \in b.confirmed => "canary scope" \in a.confirmed
    BY DEF Retracted, BadNews
  <2> QED
    BY <2>1, <2>2 DEF CanaryScope
<1>2. CanaryViolation(g, a, given, stages) => CanaryViolation(g, b, given, stages)
  <2>1. /\ "canary violation" \in a.confirmed => "canary violation" \in b.confirmed
        /\ "canary violation" \notin a.denied /\ "canary violation" \notin b.denied
    BY DEF Retracted, BadNews
  <2>2. CASE "canary violation" \in a.confirmed \cup a.denied
    BY <2>1, <2>2 DEF CanaryViolation
  <2>3. CASE "canary violation" \notin a.confirmed \cup a.denied
    BY <2>1, <2>3 DEF CanaryViolation
  <2> QED
    BY <2>2, <2>3
<1> QED
  BY <1>1, <1>2

(* The report is worse.                                                    *)
LEMMA ReportSinks ==
    ASSUME NEW gone, NEW later, gone \subseteq later, NEW stores
    PROVE  LET R == Report(gone, stores)
               S == Report(later, stores)
           IN /\ R.overall \in {"blocked", "ready", "partial"}
              /\ S.overall \in {"blocked", "ready", "partial"}
              /\ S.overall # "blocked" => R.overall # "blocked"
              /\ S.overall = "ready" => R.overall = "ready"
              /\ S.blocking = 0 => R.blocking = 0
              /\ S.documented => R.documented
              /\ \A i \in Items : S.status[i] = "ready" => R.status[i] = "ready"
<1> DEFINE R == Report(gone, stores)
           S == Report(later, stores)
<1>1. /\ R.blocking = 0 <=> ~Blocked(gone, stores)
      /\ R.overall = IF Blocked(gone, stores) THEN "blocked"
                     ELSE IF AllReady(gone, stores) THEN "ready" ELSE "partial"
      /\ R.documented <=> Ready("store_playbooks", gone, stores)
      /\ R.status = [i \in Items |-> ItemStatus(i, gone, stores)]
  BY ReportIs
<1>2. /\ S.blocking = 0 <=> ~Blocked(later, stores)
      /\ S.overall = IF Blocked(later, stores) THEN "blocked"
                     ELSE IF AllReady(later, stores) THEN "ready" ELSE "partial"
      /\ S.documented <=> Ready("store_playbooks", later, stores)
      /\ S.status = [i \in Items |-> ItemStatus(i, later, stores)]
  BY ReportIs
<1>3. /\ \A i : Ready(i, later, stores) => Ready(i, gone, stores)
      /\ AllReady(later, stores) => AllReady(gone, stores)
      /\ Blocked(gone, stores) => Blocked(later, stores)
  BY ReadinessSinks
<1> HIDE DEF R, S
<1>4. \A i \in Items : S.status[i] = "ready" => R.status[i] = "ready"
  BY <1>1, <1>2, <1>3 DEF Ready
<1>5. AllReady(gone, stores) => ~Blocked(gone, stores)
  BY DEF AllReady, Blocked, Blocks
<1>6. /\ R.overall \in {"blocked", "ready", "partial"}
      /\ S.overall \in {"blocked", "ready", "partial"}
  BY <1>1, <1>2
<1>7. S.overall # "blocked" => R.overall # "blocked"
  BY <1>1, <1>2, <1>3
<1>8. S.overall = "ready" => R.overall = "ready"
  BY <1>1, <1>2, <1>3, <1>5
<1>9. (S.blocking = 0 => R.blocking = 0) /\ (S.documented => R.documented)
  BY <1>1, <1>2, <1>3
<1> QED
  BY <1>4, <1>6, <1>7, <1>8, <1>9 DEF R, S

(* What the launch is judged by when the files, the gates and the words of *)
(* the operators are those of before (gone, release, a) and those of after.*)
LEMMA CriteriaFail ==
    ASSUME NEW gone, NEW later, gone \subseteq later, NEW stores, NEW g, NEW given, NEW stages,
           NEW a, NEW b, Retracted(a, b), NEW release, NEW relapse,
           relapse # "block_release" => release # "block_release"
    PROVE  FailedCriteria(g, Report(gone, stores), release, a, given, stages)
             \subseteq FailedCriteria(g, Report(later, stores), relapse, b, given, stages)
<1> DEFINE R == Report(gone, stores)
           S == Report(later, stores)
           ready(x, items) == \A i \in items : x.status[i] = "ready"
           readiness(x) == /\ x.overall # "blocked" /\ x.blocking = 0
                           /\ g.requireReady => x.overall = "ready"
           gates(verdict) == g.requireGates => verdict # "block_release"
           lifecycle(x) == ready(x, {"payload_contract", "lifecycle_tests"})
           security(x) == g.requireSecurity => ready(x, Checklist["security"])
           watched(x) == g.requireObservability
                           => ready(x, Checklist["observability"]) /\ g.export
           rollout(x, said) == g.requireRollout => \/ ready(x, {"rollout_policy"})
                                                  \/ Said(said, "rollout policy", FALSE)
           accepted(said) == Said(said, "store acceptance", TRUE)
           playbooks(x) == g.requirePlaybooks => x.documented
           trials(said) == \A f \in {"dry run", "smoke", "contract checks"} : Said(said, f, FALSE)
           scope(said) == g.canaryOnly => /\ CanaryScope(g, said, given, stages)
                                          /\ ~CanaryViolation(g, said, given, stages)
           criteria(x, verdict, said) ==
             [readiness |-> readiness(x), release_gates |-> gates(verdict),
              payload_lifecycle |-> lifecycle(x), security |-> security(x),
              observability |-> watched(x), rollout_policy |-> rollout(x, said),
              acceptance |-> accepted(said), playbooks |-> playbooks(x),
              trials |-> trials(said), canary |-> scope(said)]
           names == {"readiness", "release_gates", "payload_lifecycle", "security",
                     "observability", "rollout_policy", "acceptance", "playbooks", "trials",
                     "canary"}
           C == criteria(R, release, a)
           D == criteria(S, relapse, b)
<1>1. /\ S.overall # "blocked" => R.overall # "blocked"
      /\ S.overall = "ready" => R.overall = "ready"
      /\ S.blocking = 0 => R.blocking = 0
      /\ S.documented => R.documented
      /\ \A i \in Items : S.status[i] = "ready" => R.status[i] = "ready"
  BY ReportSinks
<1>2. /\ Checklist["security"] \subseteq Items /\ Checklist["observability"] \subseteq Items
      /\ {"payload_contract", "lifecycle_tests"} \subseteq Items
      /\ {"rollout_policy"} \subseteq Items
  <2>1. "payload_contract" \in CriticalRisk
    BY DEF CriticalRisk
  <2> QED
    BY <2>1, ChecklistIs
<1>3. \A flag \in {"rollout policy", "store acceptance", "dry run", "smoke", "contract checks"} :
        /\ Said(b, flag, FALSE) => Said(a, flag, FALSE)
        /\ Said(b, flag, TRUE) => Said(a, flag, TRUE)
  <2>1. \A flag \in {"rollout policy", "store acceptance", "dry run", "smoke",
                     "contract checks"} : flag \notin BadNews
    BY DEF BadNews
  <2> QED
    BY <2>1, WordsSink
<1>4. /\ FailedCriteria(g, R, release, a, given, stages) = {n \in names : ~C[n]}
      /\ FailedCriteria(g, S, relapse, b, given, stages) = {n \in names : ~D[n]}
  BY DEF FailedCriteria, FailedCriteriaOfScope
<1>5. readiness(S) => readiness(R)
  BY <1>1
<1>6. gates(relapse) => gates(release)
  OBVIOUS
<1>7. \A items \in SUBSET Items : ready(S, items) => ready(R, items)
  BY <1>1
<1> HIDE DEF ready, R, S
<1>8. /\ lifecycle(S) => lifecycle(R)
      /\ security(S) => security(R)
      /\ watched(S) => watched(R)
  BY <1>2, <1>7
<1>9. rollout(S, b) => rollout(R, a)
  BY <1>2, <1>3, <1>7
<1>10. accepted(b) => accepted(a)
  BY <1>3
<1>11. playbooks(S) => playbooks(R)
  BY <1>1
<1>12. trials(b) => trials(a)
  BY <1>3
<1>13. scope(b) => scope(a)
  BY CanarySinks
<1> HIDE DEF readiness, gates, lifecycle, security, watched, rollout, accepted, playbooks,
             trials, scope
<1>14. ASSUME NEW n \in names, D[n] PROVE C[n]
  <2>1. CASE n = "readiness"
    BY <1>5, <1>14, <2>1
  <2>2. CASE n = "release_gates"
    BY <1>6, <1>14, <2>2
  <2>3. CASE n = "payload_lifecycle"
    BY <1>8, <1>14, <2>3
  <2>4. CASE n = "security"
    BY <1>8, <1>14, <2>4
  <2>5. CASE n = "observability"
    BY <1>8, <1>14, <2>5
  <2>6. CASE n = "rollout_policy"
    BY <1>9, <1>14, <2>6
  <2>7. CASE n = "acceptance"
    BY <1>10, <1>14, <2>7
  <2>8. CASE n = "playbooks"
    BY <1>11, <1>14, <2>8
  <2>9. CASE n = "trials"
    BY <1>12, <1>14, <2>9
  <2>10. CASE n = "canary"
    BY <1>13, <1>14, <2>10
  <2> QED
    BY <2>1, <2>2, <2>3, <2>4, <2>5, <2>6, <2>7, <2>8, <2>9, <2>10
<1> HIDE DEF C, D, names
<1> QED
  BY <1>4, <1>14 DEF R, S

LEMMA CutoverOpens ==
    ASSUME NEW g, NEW x, NEW y, NEW given, NEW stages, NEW a, NEW b, Retracted(a, b)
    PROVE  OpenCutoverItems(g, x, a, given, stages) \subseteq OpenCutoverItems(g, y, b, given, stages)
<1> DEFINE production(said) == Said(said, "production config", FALSE)
           key(said) == Said(said, "parser key", FALSE)
           scope(said) == Said(said, "rollout scope", given)
           enabled(said) == Said(said, "enabled stores", DOMAIN stages # {})
           canary(said) == IF g.canaryOnly /\ given /\ DOMAIN stages # {}
                           THEN AllOnCanary(stages) \/ Said(said, "canary exception", FALSE)
                           ELSE CanaryScope(g, said, given, stages)
           stage(said) == g.canaryOnly => canary(said)
           export(said) == Said(said, "export", g.export)
           trials(said) == Said(said, "dry run", FALSE) /\ Said(said, "smoke", FALSE)
           reviewed(said) == Said(said, "report reviewed", FALSE)
           preflight(said) == g.antiban =>
                  \A f \in {"plan reviewed", "local", "staging"} : Said(said, f, FALSE)
           drill(said) == g.antiban => Said(said, "rollback drill", FALSE)
           done(said) ==
             [production_config |-> production(said), parser_key |-> key(said),
              rollout_scope |-> scope(said), enabled_stores |-> enabled(said),
              canary_stage |-> stage(said), export |-> export(said), trials |-> trials(said),
              report_reviewed |-> reviewed(said), antiban_preflight |-> preflight(said),
              antiban_drill |-> drill(said)]
           names == {"production_config", "parser_key", "rollout_scope", "enabled_stores",
                     "canary_stage", "export", "trials", "report_reviewed",
                     "antiban_preflight", "antiban_drill"}
           C == done(a)
           D == done(b)
<1>1. /\ OpenCutoverItems(g, x, a, given, stages)
           = IF g.checklist THEN {n \in names : ~C[n]} ELSE {}
      /\ OpenCutoverItems(g, y, b, given, stages)
           = IF g.checklist THEN {n \in names : ~D[n]} ELSE {}
  BY DEF OpenCutoverItems
<1>2. \A flag \in {"production config", "parser key", "rollout scope", "enabled stores",
                   "canary exception", "export", "dry run", "smoke", "report reviewed",
                   "plan reviewed", "local", "staging", "rollback drill"} :
        /\ flag \in b.confirmed => flag \in a.confirmed
        /\ flag \notin b.denied => flag \notin a.denied
  BY DEF Retracted, BadNews
<1>3. /\ production(b) => production(a)
      /\ key(b) => key(a)
      /\ trials(b) => trials(a)
      /\ reviewed(b) => reviewed(a)
  BY <1>2 DEF Said
<1>4. scope(b) => scope(a)
  BY <1>2 DEF Said
<1>5. enabled(b) => enabled(a)
  BY <1>2 DEF Said
<1>6. export(b) => export(a)
  BY <1>2 DEF Said
<1>7. preflight(b) => preflight(a)
  BY <1>2 DEF Said
<1>8. drill(b) => drill(a)
  BY <1>2 DEF Said
<1>9. stage(b) => stage(a)
  <2>1. CanaryScope(g, b, given, stages) => CanaryScope(g, a, given, stages)
    BY CanarySinks
  <2>2. Said(b, "canary exception", FALSE) => Said(a, "canary exception", FALSE)
    BY <1>2 DEF Said
  <2> QED
    BY <2>1, <2>2
<1> HIDE DEF production, key, scope, enabled, stage, export, trials, reviewed, preflight, drill
<1>10. ASSUME NEW n \in names, D[n] PROVE C[n]
  <2>1. CASE n = "production_config"
    BY <1>3, <1>10, <2>1
  <2>2. CASE n = "parser_key"
    BY <1>3, <1>10, <2>2
  <2>3. CASE n = "rollout_scope"
    BY <1>4, <1>10, <2>3
  <2>4. CASE n = "enabled_stores"
    BY <1>5, <1>10, <2>4
  <2>5. CASE n = "canary_stage"
    BY <1>9, <1>10, <2>5
  <2>6. CASE n = "export"
    BY <1>6, <1>10, <2>6
  <2>7. CASE n = "trials"
    BY <1>3, <1>10, <2>7
  <2>8. CASE n = "report_reviewed"
    BY <1>3, <1>10, <2>8
  <2>9. CASE n = "antiban_preflight"
    BY <1>7, <1>10, <2>9
  <2>10. CASE n = "antiban_drill"
    BY <1>8, <1>10, <2>10
  <2> QED
    BY <2>1, <2>2, <2>3, <2>4, <2>5, <2>6, <2>7, <2>8, <2>9, <2>10
<1> HIDE DEF C, D, names
<1> QED
  BY <1>1, <1>10

(* Every part of what an office shows is worse, but the counters.          *)
Declined(w, v) ==
    /\ w.policy = v.policy /\ w.lists = v.lists
    /\ w.gone \subseteq v.gone /\ v.passed \subseteq w.passed
    /\ Retracted(w.said, v.said) /\ MoreDamage(w, v)

Releases == <<"release", "release_with_caution", "block_release">>
Launches == <<"go", "go_with_constraints", "no_go">>

LEMMA ReleaseSinks ==
    ASSUME NEW w, NEW v, Declined(w, v)
    PROVE  /\ ReleaseVerdict(v) # "block_release" => ReleaseVerdict(w) # "block_release"
           /\ PlaceIn(Releases, ReleaseVerdict(w)) <= PlaceIn(Releases, ReleaseVerdict(v))
<1>1. PassedGates(v) \subseteq PassedGates(w)
  BY GatesClose DEF Declined
<1>2. /\ ReleaseVerdict(w) = IF Gates \subseteq PassedGates(w) THEN "release" ELSE "block_release"
      /\ ReleaseVerdict(v) = IF Gates \subseteq PassedGates(v) THEN "release" ELSE "block_release"
  BY ReleaseIs DEF ReleaseVerdict
<1>3. PlaceIn(Releases, "release") = 1 /\ PlaceIn(Releases, "block_release") = 3
  BY ThreePlaces DEF Releases
<1> HIDE DEF Releases
<1> QED
  BY <1>1, <1>2, <1>3

LEMMA LaunchSinks ==
    ASSUME NEW w, NEW v, Declined(w, v)
    PROVE  PlaceIn(Launches, LaunchVerdict(w)) <= PlaceIn(Launches, LaunchVerdict(v))
<1> DEFINE g == w.policy.g
           stages == StagesOf(w)
           R == Report(w.gone, StoreNames)
           S == Report(v.gone, StoreNames)
           x == LaunchVerdict(w)
           y == LaunchVerdict(v)
           F == FailedCriteria(g, R, ReleaseVerdict(w), w.said, g.given, stages)
           G == FailedCriteria(g, S, ReleaseVerdict(v), v.said, g.given, stages)
           M == OpenCutoverItems(g, R, w.said, g.given, stages)
           N == OpenCutoverItems(g, S, v.said, g.given, stages)
<1>1. StagesOf(v) = stages /\ v.policy.g = g
  BY DEF Declined, StagesOf
<1>2. F \subseteq G
  <2>1. /\ w.gone \subseteq v.gone /\ Retracted(w.said, v.said)
        /\ ReleaseVerdict(v) # "block_release" => ReleaseVerdict(w) # "block_release"
    BY ReleaseSinks DEF Declined
  <2> HIDE DEF g, stages
  <2> QED
    BY <2>1, CriteriaFail
<1>3. M \subseteq N
  <2>1. Retracted(w.said, v.said)
    BY DEF Declined
  <2> HIDE DEF g, stages, R, S
  <2> QED
    BY <2>1, CutoverOpens
<1>4. /\ R.overall \in {"blocked", "ready", "partial"}
      /\ S.overall = "ready" => R.overall = "ready"
      /\ S.overall \in {"blocked", "ready", "partial"}
      /\ S.overall # "blocked" => R.overall # "blocked"
  <2>1. w.gone \subseteq v.gone
    BY DEF Declined
  <2> QED
    BY <2>1, ReportSinks
<1>5. x = IF ~g.policy \/ F # {} \/ M # {} THEN "no_go"
          ELSE IF R.overall = "partial" THEN "go_with_constraints" ELSE "go"
  BY DEF LaunchVerdict, GoLiveDecision
<1>6. y = IF ~g.policy \/ G # {} \/ N # {} THEN "no_go"
          ELSE IF S.overall = "partial" THEN "go_with_constraints" ELSE "go"
  BY <1>1 DEF LaunchVerdict, GoLiveDecision
<1>7. /\ PlaceIn(Launches, "go") = 1 /\ PlaceIn(Launches, "go_with_constraints") = 2
      /\ PlaceIn(Launches, "no_go") = 3
  BY ThreePlaces DEF Launches
<1>8. G = {} => S.overall # "blocked"
  <2> SUFFICES ASSUME S.overall = "blocked" PROVE "readiness" \in G
    OBVIOUS
  <2> HIDE DEF S, g, stages
  <2> QED
    BY DEF FailedCriteria, FailedCriteriaOfScope
<1> HIDE DEF x, y, F, G, M, N, R, S, g
<1>9. CASE y = "no_go"
  <2>1. x \in {"go", "go_with_constraints", "no_go"}
    BY <1>5
  <2> QED
    BY <1>7, <1>9, <2>1 DEF x, y
<1>10. CASE y # "no_go"
  <2>1. ~(~g.policy \/ G # {} \/ N # {})
    BY <1>6, <1>10
  <2>2. ~(~g.policy \/ F # {} \/ M # {})
    BY <1>2, <1>3, <2>1
  <2>3. S.overall \in {"ready", "partial"}
    BY <1>4, <1>8, <2>1
  <2>4. CASE S.overall = "ready"
    <3>1. x = "go" /\ y = "go"
      BY <1>4, <1>5, <1>6, <2>1, <2>2, <2>4
    <3> QED
      BY <1>7, <3>1 DEF x, y
  <2>5. CASE S.overall = "partial"
    <3>1. x \in {"go", "go_with_constraints"} /\ y = "go_with_constraints"
      BY <1>5, <1>6, <2>1, <2>2, <2>5
    <3> QED
      BY <1>7, <3>1 DEF x, y
  <2> QED
    BY <2>3, <2>4, <2>5
<1> QED
  BY <1>9, <1>10

-----------------------------------------------------------------------------
(* What the verdicts permit.                                               *)

(* The stage of a feature before the health is asked for, and with it.     *)
LEMMA FeatureNarrows ==
    ASSUME NEW r, NEW f, NEW at, NEW x, NEW y, NEW bucket,
           FeatureEnabled(r, f, at, y, bucket),
           \/ ~AllowedByStatus(r, f.sensitive, y)
           \/ /\ BlockedByHealth(r, x) <=> BlockedByHealth(r, y)
              /\ AllowedByStatus(r, f.sensitive, x)
    PROVE  FeatureEnabled(r, f, at, x, bucket)
<1> DEFINE X == EffectiveStage(r, f, at, x)
           Y == EffectiveStage(r, f, at, y)
<1>1. CASE ~r.flags
  BY <1>1 DEF FeatureEnabled
<1>2. CASE Y = "disabled"
  BY <1>2 DEF FeatureEnabled
<1>3. CASE Y # "disabled"
  <2>1. AllowedByStatus(r, f.sensitive, y)
    BY <1>3 DEF EffectiveStage
  <2>2. /\ BlockedByHealth(r, x) <=> BlockedByHealth(r, y)
        /\ AllowedByStatus(r, f.sensitive, x)
    BY <2>1
  <2>3. X = Y
    <3> DEFINE wide == Narrow(IF f.known THEN f.stage ELSE r.defaultStage,
                              IF at.named THEN StoreStage(r.storePolicy, at.lists) ELSE "full")
               on == IF f.known THEN f.enabled ELSE r.defaultStage # "disabled"
               shut == (IF at.named THEN StoreStage(r.storePolicy, at.lists) ELSE "full")
                         = "disabled"
               open == ~(f.known /\ f.restricted /\ at.named /\ ~at.allowed)
               p(h) == BlockedByHealth(r, h)
               q(h) == AllowedByStatus(r, f.sensitive, h)
    <3>1. \A h : EffectiveStage(r, f, at, h)
                   = IF on /\ ~shut /\ open /\ q(h)
                     THEN IF p(h) /\ wide \in {"full", "partial"} THEN "canary" ELSE wide
                     ELSE "disabled"
      BY DEF EffectiveStage
    <3> HIDE DEF wide, on, shut, open
    <3> QED
      BY <2>1, <2>2, <3>1
  <2> HIDE DEF X, Y
  <2>4. r.flags => \/ Y = "full"
                   \/ Y \in {"canary", "partial"} /\ bucket < Percentage(r, f, Y)
    BY DEF FeatureEnabled, Y
  <2> QED
    BY <2>3, <2>4 DEF FeatureEnabled, X
<1> QED
  BY <1>2, <1>3

(* A store in worse health is let to run, promoted and given features no   *)
(* sooner.                                                                 *)
LEMMA HealthPermits ==
    ASSUME NEW r, r.guard => r.blockFailing, NEW x \in Statuses, NEW y \in Statuses,
           StatusRank[x] <= StatusRank[y]
    PROVE  /\ \A lists : CanStoreRun(r, lists, y) => CanStoreRun(r, lists, x)
           /\ CanPromote(r, {y}) => CanPromote(r, {x})
           /\ \A f, at, bucket : FeatureEnabled(r, f, at, {y}, bucket)
                                   => FeatureEnabled(r, f, at, {x}, bucket)
<1>1. \/ x = y
      \/ x \in {"healthy", "degraded"} /\ y = "failing"
      \/ x = "healthy" /\ y = "degraded"
  <2>1. StatusRank["healthy"] = 0 /\ StatusRank["degraded"] = 1 /\ StatusRank["failing"] = 2
    BY DEF StatusRank
  <2>2. CASE x = "failing"
    BY <2>1, <2>2 DEF Statuses
  <2>3. CASE x = "degraded"
    BY <2>1, <2>3 DEF Statuses
  <2>4. CASE x = "healthy"
    BY <2>4 DEF Statuses
  <2> QED
    BY <2>2, <2>3, <2>4 DEF Statuses
<1>2. \A lists : CanStoreRun(r, lists, y) => CanStoreRun(r, lists, x)
  BY <1>1 DEF CanStoreRun
<1>3. CanPromote(r, {y}) => CanPromote(r, {x})
  BY <1>1 DEF CanPromote
<1>4. ASSUME NEW f, NEW at, NEW bucket, FeatureEnabled(r, f, at, {y}, bucket)
      PROVE  FeatureEnabled(r, f, at, {x}, bucket)
  <2>1. CASE x = y
    BY <1>4, <2>1
  <2>2. CASE x \in {"healthy", "degraded"} /\ y = "failing"
    <3>1. CASE r.guard
      <4>1. ~AllowedByStatus(r, f.sensitive, {y})
        BY <2>2, <3>1 DEF AllowedByStatus, BlockedByHealth
      <4> QED
        BY <1>4, <4>1, FeatureNarrows
    <3>2. CASE ~r.guard
      <4>1. /\ BlockedByHealth(r, {x}) <=> BlockedByHealth(r, {y})
            /\ AllowedByStatus(r, f.sensitive, {x})
        BY <3>2 DEF AllowedByStatus, BlockedByHealth
      <4> QED
        BY <1>4, <4>1, FeatureNarrows
    <3> QED
      BY <3>1, <3>2
  <2>3. CASE x = "healthy" /\ y = "degraded"
    <3>1. /\ BlockedByHealth(r, {x}) <=> BlockedByHealth(r, {y})
          /\ AllowedByStatus(r, f.sensitive, {x})
      BY <2>3 DEF AllowedByStatus, BlockedByHealth
    <3> QED
      BY <1>4, <3>1, FeatureNarrows
  <2> QED
    BY <1>1, <2>1, <2>2, <2>3
<1> QED
  BY <1>2, <1>3, <1>4

(* What an office shows, all of it worse.                                  *)
Sunk(w, v) ==
    /\ w \in Offices /\ v \in Offices /\ Declined(w, v)
    /\ AllSink(w.policy.o, w.counts, v.counts)

LEMMA PoliciesAreSet ==
    ASSUME NEW p \in Policies
    PROVE  Targets(p.o) /\ Budgets(p.g)
<1>1. /\ \A m \in ToSet(Metrics) : p.o.slo[m] \in Nat
      /\ \A m \in {"malformed", "rejected", "reconciliation", "block"} : p.g.limit[m] \in Nat
      /\ p.g.maxCritical \in Nat /\ p.g.maxHigh \in Nat
  BY OperationsAssumption DEF OperationsAssumption
<1> QED
  BY <1>1, MetricNames DEF Targets, Budgets

(* The stores of two offices.                                              *)
LEMMA StoresSink ==
    ASSUME NEW w, NEW v, Sunk(w, v), NEW s \in StoreNames
    PROVE  /\ w.policy \in Policies /\ v.policy = w.policy
           /\ w.counts[s] \in [Counters -> Nat] /\ v.counts[s] \in [Counters -> Nat]
           /\ Sinks(w.policy.o, w.counts[s], v.counts[s])
           /\ Targets(w.policy.o)
           /\ StatusOf(w.policy.o, w.counts[s]) \in Statuses
           /\ StatusOf(w.policy.o, v.counts[s]) \in Statuses
           /\ StatusRank[StatusOf(w.policy.o, w.counts[s])]
                <= StatusRank[StatusOf(w.policy.o, v.counts[s])]
<1>1. w.policy \in Policies /\ v.policy = w.policy
  BY DEF Sunk, Declined, Offices
<1>2. w.counts \in [StoreNames -> [Counters -> Nat]] /\ v.counts \in [StoreNames -> [Counters -> Nat]]
  BY DEF Sunk, Offices
<1>3. w.counts[s] \in [Counters -> Nat] /\ v.counts[s] \in [Counters -> Nat]
  BY <1>2
<1>4. Sinks(w.policy.o, w.counts[s], v.counts[s])
  BY DEF Sunk, AllSink
<1>5. Targets(w.policy.o)
  BY <1>1, PoliciesAreSet
<1> QED
  BY <1>1, <1>3, <1>4, <1>5, StatusSinks, StatusType

LEMMA PermittedSinks ==
    ASSUME NEW w, NEW v, Sunk(w, v), w.policy.r.guard => w.policy.r.blockFailing
    PROVE  Permitted(v) \subseteq Permitted(w)
<1> DEFINE r == w.policy.r
           status(u, s) == StoreVerdict(u, s).status
           at(s) == [named |-> TRUE, allowed |-> TRUE, lists |-> w.lists[s]]
           Enters(u) == {p \in DOMAIN PhaseRank : CanEnterPhase(Report(u.gone, StoreNames), p)}
           Leaves(u) == {p \in DOMAIN PhaseRank : CanExitPhase(Report(u.gone, StoreNames), p)}
           Runs(u) == {s \in StoreNames : CanStoreRun(r, w.lists[s], status(u, s))}
           Promotes(u) == {s \in StoreNames : CanPromote(r, {status(u, s)})}
           Enables(u) == {f \in (DOMAIN Feature) \X StoreNames :
                            FeatureEnabled(r, Feature[f[1]], at(f[2]), {status(u, f[2])},
                                           Bucket[f[2]][f[1]])}
           P(u) == {<<"enter", p>> : p \in Enters(u)} \cup {<<"leave", p>> : p \in Leaves(u)}
                     \cup {<<"run", s>> : s \in Runs(u)}
                     \cup {<<"promote", s>> : s \in Promotes(u)} \cup Enables(u)
<1>1. w.policy = v.policy /\ w.lists = v.lists /\ w.gone \subseteq v.gone
  BY DEF Sunk, Declined
<1>2. Permitted(w) = P(w) /\ Permitted(v) = P(v)
  BY <1>1 DEF Permitted
<1>3. Enters(v) \subseteq Enters(w) /\ Leaves(v) \subseteq Leaves(w)
  BY <1>1, PhasesSink
<1>4. ASSUME NEW s \in StoreNames
      PROVE  /\ \A lists : CanStoreRun(r, lists, status(v, s)) => CanStoreRun(r, lists, status(w, s))
             /\ CanPromote(r, {status(v, s)}) => CanPromote(r, {status(w, s)})
             /\ \A f, a, bucket : FeatureEnabled(r, f, a, {status(v, s)}, bucket)
                                    => FeatureEnabled(r, f, a, {status(w, s)}, bucket)
  <2> DEFINE x == status(w, s)
             y == status(v, s)
  <2>1. x = StatusOf(w.policy.o, w.counts[s]) /\ y = StatusOf(w.policy.o, v.counts[s])
    BY <1>1 DEF StoreVerdict, StoreStatus
  <2>2. x \in Statuses /\ y \in Statuses /\ StatusRank[x] <= StatusRank[y]
    BY <2>1, StoresSink
  <2> HIDE DEF x, y, r
  <2>3. r.guard => r.blockFailing
    BY DEF r
  <2>4. /\ \A lists : CanStoreRun(r, lists, y) => CanStoreRun(r, lists, x)
        /\ CanPromote(r, {y}) => CanPromote(r, {x})
        /\ \A f, a, bucket : FeatureEnabled(r, f, a, {y}, bucket)
                               => FeatureEnabled(r, f, a, {x}, bucket)
    BY <2>2, <2>3, HealthPermits
  <2> QED
    BY <2>4 DEF x, y
<1> HIDE DEF r, status, at
<1>5. Runs(v) \subseteq Runs(w) /\ Promotes(v) \subseteq Promotes(w)
  BY <1>4
<1>6. Enables(v) \subseteq Enables(w)
  <2>1. ASSUME NEW f \in (DOMAIN Feature) \X StoreNames,
               FeatureEnabled(r, Feature[f[1]], at(f[2]), {status(v, f[2])}, Bucket[f[2]][f[1]])
        PROVE  FeatureEnabled(r, Feature[f[1]], at(f[2]), {status(w, f[2])}, Bucket[f[2]][f[1]])
    <3>1. f[2] \in StoreNames
      OBVIOUS
    <3> QED
      BY <1>4, <2>1, <3>1
  <2> QED
    BY <2>1
<1> HIDE DEF Enters, Leaves, Runs, Promotes, Enables
<1> QED
  BY <1>2, <1>3, <1>5, <1>6

(* The whole of it, for two offices.                                       *)
NoBetterVerdicts(w, v) ==
    LET before == Verdicts(w)
        after == Verdicts(v)
        r == w.policy.r
        g == w.policy.g
    IN /\ before.release <= after.release
       /\ before.launch <= after.launch
       /\ before.health <= after.health
       /\ \A s \in StoreNames :
            /\ before.store[s] <= after.store[s]
            /\ g.blockOnCritical /\ g.maxCritical = 0
                 => before.outcome[s] <= after.outcome[s]
       /\ GapBlockers(w.gone) \subseteq GapBlockers(v.gone)
       /\ (r.guard => r.blockFailing) => Permitted(v) \subseteq Permitted(w)

LEMMA VerdictsAre ==
    ASSUME NEW w \in Offices
    PROVE  /\ Verdicts(w).release = PlaceIn(Releases, ReleaseVerdict(w))
           /\ Verdicts(w).launch = PlaceIn(Launches, LaunchVerdict(w))
           /\ Verdicts(w).health = StatusRank[RunStatus(w.policy.o, w.counts).status]
           /\ \A s \in StoreNames :
                /\ Verdicts(w).store[s] = StatusRank[StatusOf(w.policy.o, w.counts[s])]
                /\ Verdicts(w).outcome[s]
                     = PlaceIn(Outcomes, LaunchOutcome(w.policy.g, w.counts[s],
                                           Alerts(w.policy.o, w.counts[s]), w.said))
<1> DEFINE o == w.policy.o
           run == RunStatus(o, w.counts)
<1>1. DOMAIN w.counts = StoreNames
  BY DEF Offices
<1>2. \A s \in StoreNames : run.stores[s].status = StatusOf(o, w.counts[s])
  <2>1. run.stores = [s \in DOMAIN w.counts |-> StoreStatus(o, w.counts[s])]
    <3> HIDE DEF o
    <3> QED
      BY RunStatusIs
  <2> HIDE DEF run
  <2> QED
    BY <1>1, <2>1 DEF StoreStatus
<1>3. \A s \in StoreNames :
        OutcomeVerdict(w, s)
          = LaunchOutcome(w.policy.g, w.counts[s], Alerts(o, w.counts[s]), w.said)
  BY DEF OutcomeVerdict, StoreVerdict, StoreStatus
<1> HIDE DEF run, o
<1>4. Verdicts(w) =
        [release |-> PlaceIn(Releases, ReleaseVerdict(w)),
         launch |-> PlaceIn(Launches, LaunchVerdict(w)),
         health |-> StatusRank[run.status],
         store |-> [s \in StoreNames |-> StatusRank[run.stores[s].status]],
         outcome |-> [s \in StoreNames |-> PlaceIn(Outcomes, OutcomeVerdict(w, s))]]
  BY DEF Verdicts, Releases, Launches, Outcomes, RunVerdict, run, o
<1> QED
  BY <1>2, <1>3, <1>4 DEF run, o

LEMMA EverythingSinks ==
    ASSUME NEW w, NEW v, Sunk(w, v)
    PROVE  NoBetterVerdicts(w, v)
<1> DEFINE o == w.policy.o
           g == w.policy.g
<1>1. /\ w \in Offices /\ v \in Offices /\ Declined(w, v)
      /\ v.policy = w.policy /\ w.policy \in Policies /\ w.gone \subseteq v.gone
      /\ AllSink(o, w.counts, v.counts)
      /\ Retracted(w.said, v.said)
  BY DEF Sunk, Declined, Offices
<1>2. Targets(o) /\ Budgets(g)
  BY <1>1, PoliciesAreSet
<1>3. Verdicts(w).release <= Verdicts(v).release
  BY <1>1, VerdictsAre, ReleaseSinks
<1>4. Verdicts(w).launch <= Verdicts(v).launch
  BY <1>1, VerdictsAre, LaunchSinks
<1>5. Verdicts(w).health <= Verdicts(v).health
  <2>1. w.counts \in Tables /\ v.counts \in Tables
    BY <1>1 DEF Offices, Tables
  <2>2. StatusRank[RunStatus(o, w.counts).status] <= StatusRank[RunStatus(o, v.counts).status]
    <3> HIDE DEF o
    <3> QED
      BY <1>1, <1>2, <2>1, RunSinks
  <2> QED
    BY <1>1, <2>2, VerdictsAre
<1>6. ASSUME NEW s \in StoreNames
      PROVE  /\ Verdicts(w).store[s] <= Verdicts(v).store[s]
             /\ g.blockOnCritical /\ g.maxCritical = 0
                  => Verdicts(w).outcome[s] <= Verdicts(v).outcome[s]
  <2>1. /\ w.counts[s] \in [Counters -> Nat] /\ v.counts[s] \in [Counters -> Nat]
        /\ Sinks(o, w.counts[s], v.counts[s])
        /\ StatusRank[StatusOf(o, w.counts[s])] <= StatusRank[StatusOf(o, v.counts[s])]
    BY StoresSink
  <2>2. Verdicts(w).store[s] <= Verdicts(v).store[s]
    BY <1>1, <2>1, VerdictsAre
  <2>3. ASSUME g.blockOnCritical, g.maxCritical = 0
        PROVE  Verdicts(w).outcome[s] <= Verdicts(v).outcome[s]
    <3>1. w.said.confirmed \cap BadNews \subseteq v.said.confirmed
      BY <1>1 DEF Retracted
    <3>2. PlaceIn(Outcomes, LaunchOutcome(g, w.counts[s], Alerts(o, w.counts[s]), w.said))
            <= PlaceIn(Outcomes, LaunchOutcome(g, v.counts[s], Alerts(o, v.counts[s]), v.said))
      <4> HIDE DEF o, g
      <4> QED
        BY <1>2, <2>1, <2>3, <3>1, OutcomeSinks
    <3> QED
      BY <1>1, <3>2, VerdictsAre
  <2> QED
    BY <2>2, <2>3
<1>7. GapBlockers(w.gone) \subseteq GapBlockers(v.gone)
  BY <1>1, BlockersStay
<1>8. (w.policy.r.guard => w.policy.r.blockFailing) => Permitted(v) \subseteq Permitted(w)
  BY PermittedSinks
<1> QED
  BY <1>3, <1>4, <1>5, <1>6, <1>7, <1>8 DEF NoBetterVerdicts

-----------------------------------------------------------------------------
(* The steps: whatever happens before a launch, the policy stays, files    *)
(* are only lost, gates only fail and counters only grow.                  *)

Worsened(w, v) ==
    /\ v.policy = w.policy /\ w.gone \subseteq v.gone /\ v.passed \subseteq w.passed
    /\ Retracted(w.said, v.said)
    /\ \A s \in StoreNames, k \in Counters : w.counts[s][k] <= v.counts[s][k]

LEMMA NothingWorsened ==
    ASSUME NEW w \in Offices, NEW v, v.policy = w.policy, w.gone \subseteq v.gone,
           v.passed \subseteq w.passed, v.said = w.said, v.counts = w.counts
    PROVE  Worsened(w, v)
<1>1. Retracted(w.said, w.said)
  <2>1. w.said.denied \subseteq Withdrawn
    BY DEF Offices
  <2> QED
    BY <2>1, OperationsAssumption DEF Retracted, OperationsAssumption
<1>2. \A s \in StoreNames, k \in Counters : w.counts[s][k] <= w.counts[s][k]
  <2>1. \A s \in StoreNames, k \in Counters : w.counts[s][k] \in Nat
    BY DEF Offices
  <2> QED
    BY <2>1
<1> QED
  BY <1>1, <1>2 DEF Worsened

LEMMA ChangeWorsens ==
    ASSUME office \in Offices, Change
    PROVE  Worsened(office, office')
<1>1. ASSUME NEW change \in Offices, Happens(change), Worsened(office, change)
      PROVE  Worsened(office, office')
  <2>1. office' = [change EXCEPT !.changes = @ + 1]
    BY <1>1 DEF Happens
  <2>2. /\ office'.policy = change.policy /\ office'.gone = change.gone
        /\ office'.passed = change.passed /\ office'.said = change.said
        /\ office'.counts = change.counts
    BY <2>1 DEF Offices
  <2> QED
    BY <1>1, <2>2 DEF Worsened
<1>2. ASSUME NEW f \in Files, LoseFile(f) PROVE Worsened(office, office')
  <2> DEFINE change == [office EXCEPT !.gone = @ \cup {f}]
  <2>1. /\ change \in Offices /\ change.policy = office.policy
        /\ office.gone \subseteq change.gone /\ change.passed = office.passed
        /\ change.said = office.said /\ change.counts = office.counts
    BY DEF Offices
  <2>2. Happens(change)
    BY <1>2 DEF LoseFile
  <2> HIDE DEF change
  <2>3. Worsened(office, change)
    BY <2>1, NothingWorsened
  <2> QED
    BY <1>1, <2>1, <2>2, <2>3
<1>3. ASSUME NEW flag \in Withdrawn, Withdraw(flag) PROVE Worsened(office, office')
  <2> DEFINE said == [confirmed |-> office.said.confirmed \ {flag},
                      denied |-> office.said.denied \cup {flag}]
             change == [office EXCEPT !.said = said]
  <2>1. /\ change \in Offices /\ change.policy = office.policy
        /\ change.gone = office.gone /\ change.passed = office.passed
        /\ change.said = said /\ change.counts = office.counts
    BY DEF Offices
  <2>2. Happens(change) /\ flag \in office.said.confirmed
    BY <1>3 DEF Withdraw
  <2>3. Retracted(office.said, said)
    <3>1. office.said.denied \subseteq Withdrawn /\ Withdrawn \cap BadNews = {}
      BY OperationsAssumption DEF Offices, OperationsAssumption
    <3> QED
      BY <2>2, <3>1 DEF Retracted
  <2> HIDE DEF change, said
  <2>4. Worsened(office, change)
    <3>1. Worsened(office, office)
      BY NothingWorsened
    <3> QED
      BY <2>1, <2>3, <3>1 DEF Worsened
  <2> QED
    BY <1>1, <2>1, <2>2, <2>4
<1>4. ASSUME NEW news \in Bad, Tell(news) PROVE Worsened(office, office')
  <2> DEFINE change == [office EXCEPT !.said.confirmed = @ \cup {news}]
  <2>1. /\ change \in Offices /\ change.policy = office.policy
        /\ change.gone = office.gone /\ change.passed = office.passed
        /\ change.counts = office.counts
        /\ change.said.confirmed = office.said.confirmed \cup {news}
        /\ change.said.denied = office.said.denied
    BY DEF Offices
  <2>2. Happens(change)
    BY <1>4 DEF Tell
  <2> HIDE DEF change
  <2>3. Retracted(office.said, change.said)
    <3>1. /\ office.said.denied \subseteq Withdrawn /\ Withdrawn \cap BadNews = {}
          /\ news \in BadNews
      BY OperationsAssumption DEF Offices, OperationsAssumption
    <3> QED
      BY <2>1, <3>1 DEF Retracted
  <2>4. Worsened(office, change)
    <3>1. Worsened(office, office)
      BY NothingWorsened
    <3> QED
      BY <2>1, <2>3, <3>1 DEF Worsened
  <2> QED
    BY <1>1, <2>1, <2>2, <2>4
<1>5. ASSUME NEW gate \in HandGates, FailGate(gate) PROVE Worsened(office, office')
  <2> DEFINE change == [office EXCEPT !.passed = @ \ {gate}]
  <2>1. /\ change \in Offices /\ change.policy = office.policy
        /\ change.gone = office.gone /\ change.passed \subseteq office.passed
        /\ change.said = office.said /\ change.counts = office.counts
    BY DEF Offices
  <2>2. Happens(change)
    BY <1>5 DEF FailGate
  <2> HIDE DEF change
  <2>3. Worsened(office, change)
    BY <2>1, NothingWorsened
  <2> QED
    BY <1>1, <2>1, <2>2, <2>3
<1>6. ASSUME NEW payload \in Payloads, Reshape(payload) PROVE Worsened(office, office')
  <2> DEFINE change == [office EXCEPT !.payload = payload]
  <2>1. /\ change \in Offices /\ change.policy = office.policy
        /\ change.gone = office.gone /\ change.passed = office.passed
        /\ change.said = office.said /\ change.counts = office.counts
    BY DEF Offices
  <2>2. Happens(change)
    BY <1>6 DEF Reshape
  <2> HIDE DEF change
  <2>3. Worsened(office, change)
    BY <2>1, NothingWorsened
  <2> QED
    BY <1>1, <2>1, <2>2, <2>3
<1>7. ASSUME NEW s \in StoreNames, NEW event \in Events[s], Count(s, event)
      PROVE  Worsened(office, office')
  <2> DEFINE more == [k \in Counters |-> office.counts[s][k] + event[k]]
             counts == [office.counts EXCEPT ![s] = more]
             change == [office EXCEPT !.counts = counts]
  <2>1. event \in [Counters -> Nat]
    BY OperationsAssumption DEF OperationsAssumption
  <2>2. office.counts \in [StoreNames -> [Counters -> Nat]]
    BY DEF Offices
  <2>3. more \in [Counters -> Nat] /\ \A k \in Counters : office.counts[s][k] <= more[k]
    <3>1. office.counts[s] \in [Counters -> Nat]
      BY <2>2
    <3> QED
      BY <2>1, <3>1
  <2>4. /\ counts \in [StoreNames -> [Counters -> Nat]]
        /\ \A t \in StoreNames, k \in Counters : office.counts[t][k] <= counts[t][k]
    <3> HIDE DEF more
    <3>1. counts \in [StoreNames -> [Counters -> Nat]]
      BY <2>2, <2>3
    <3>2. ASSUME NEW t \in StoreNames, NEW k \in Counters
          PROVE  office.counts[t][k] <= counts[t][k]
      <4>1. CASE t = s
        BY <2>2, <2>3, <4>1
      <4>2. CASE t # s
        <5>1. counts[t] = office.counts[t]
          BY <2>2, <4>2
        <5>2. office.counts[t][k] \in Nat
          BY <2>2
        <5> QED
          BY <5>1, <5>2
      <4> QED
        BY <4>1, <4>2
    <3> QED
      BY <3>1, <3>2
  <2>5. [office EXCEPT !.counts[s] = [k \in Counters |-> @[k] + event[k]]] = change
    BY DEF Offices
  <2>6. Happens(change)
    BY <1>7, <2>5 DEF Count
  <2> HIDE DEF counts
  <2>7. /\ change \in Offices /\ change.policy = office.policy
        /\ change.gone = office.gone /\ change.passed = office.passed
        /\ change.said = office.said /\ change.counts = counts
    BY <2>4 DEF Offices
  <2> HIDE DEF change
  <2>8. Worsened(office, change)
    <3>1. Worsened(office, office)
      BY NothingWorsened
    <3> QED
      BY <2>4, <2>7, <3>1 DEF Worsened
  <2> QED
    BY <1>1, <2>6, <2>7, <2>8
<1>8. ASSUME NEW s \in StoreNames, NEW lists \in Lists[s], Relist(s, lists)
      PROVE  Worsened(office, office')
  <2> DEFINE change == [office EXCEPT !.lists[s] = lists]
  <2>1. lists \in OnLists
    BY DEF OnLists
  <2>2. /\ change \in Offices /\ change.policy = office.policy
        /\ change.gone = office.gone /\ change.passed = office.passed
        /\ change.said = office.said /\ change.counts = office.counts
    BY <2>1 DEF Offices
  <2>3. Happens(change)
    BY <1>8 DEF Relist
  <2> HIDE DEF change
  <2>4. Worsened(office, change)
    BY <2>2, NothingWorsened
  <2> QED
    BY <1>1, <2>2, <2>3, <2>4
<1> QED
  BY <1>2, <1>3, <1>4, <1>5, <1>6, <1>7, <1>8 DEF Change

LEMMA StepWorsens ==
    ASSUME OfficeInv, [SystemNext]_sysvars, Worse(office, office')
    PROVE  office \in Offices /\ office' \in Offices /\ Worsened(office, office')
<1>1. office.open /\ office'.open
  BY DEF Worse
<1>2. office \in Offices
  BY <1>1, OpenOffice
<1>3. CASE Change
  BY <1>2, <1>3, ChangeKeepsOffice, ChangeWorsens
<1>4. CASE \E s \in Stores : Launch(s)
  <2>1. office' = [open |-> FALSE]
    BY <1>4 DEF Launch
  <2> QED
    BY <1>1, <2>1
<1>5. CASE UNCHANGED office
  <2>1. Worsened(office, office)
    BY <1>2, NothingWorsened
  <2> QED
    BY <1>2, <1>5, <2>1
<1>6. Crawl \/ UNCHANGED sysvars => UNCHANGED office
  BY DEF Crawl, sysvars
<1> QED
  BY <1>3, <1>4, <1>5, <1>6 DEF SystemNext

LEMMA WorseIsSunk ==
    ASSUME NEW w \in Offices, NEW v \in Offices, Worse(w, v), Worsened(w, v)
    PROVE  Sunk(w, v)
<1> DEFINE o == w.policy.o
<1>1. Declined(w, v)
  BY DEF Declined, Worse, Worsened, MoreDamage
<1>2. w.counts \in Tables /\ v.counts \in Tables
  BY DEF Offices, Tables
<1>3. \A s \in StoreNames, k \in Counters : w.counts[s][k] <= v.counts[s][k]
  BY DEF Worsened
<1>4. CASE w.counts = v.counts
  <2>1. \A s \in StoreNames : w.counts[s] \in [Counters -> Nat]
    BY <1>2 DEF Tables
  <2>2. Merged(w.counts) \in [Counters -> Nat]
    BY <1>2, MergedType
  <2> HIDE DEF o
  <2>3. AllSink(o, w.counts, w.counts)
    BY <2>1, <2>2, SinksFromItself DEF AllSink
  <2> QED
    BY <1>1, <1>4, <2>3 DEF Sunk, o
<1>5. CASE w.counts # v.counts
  <2>1. /\ \A s \in StoreNames : NoneBetter(o, w.counts[s], v.counts[s])
        /\ NoneBetter(o, Merged(w.counts), Merged(v.counts))
    BY <1>5 DEF Worse
  <2>2. \A k \in Counters : Merged(w.counts)[k] <= Merged(v.counts)[k]
    BY <1>2, <1>3, MergedGrows
  <2> HIDE DEF o
  <2>3. AllSink(o, w.counts, v.counts)
    BY <1>3, <2>1, <2>2 DEF AllSink, Sinks
  <2> QED
    BY <1>1, <2>3 DEF Sunk, o
<1> QED
  BY <1>4, <1>5

LEMMA StepNeverHelps ==
    ASSUME OfficeInv, [SystemNext]_sysvars, Worse(office, office')
    PROVE  NoBetterVerdicts(office, office')
BY StepWorsens, WorseIsSunk, EverythingSinks

(* For whatever stores, settings, files, payloads and counters: a step     *)
(* before the launch after which something is worse and nothing better     *)
(* improves no verdict of the release, the launch, the health and, as far  *)
(* as each critical alert counts against it, the outcome, frees no item of *)
(* the roadmap and, unless failing stores are let run under the guard,     *)
(* permits nothing that was not.                                           *)
THEOREM DeclineNeverHelps == SystemSpec => WorseNeverHelps
<1>1. OfficeInv /\ [SystemNext]_sysvars =>
        [Worse(office, office') => NoBetterVerdicts(office, office')]_sysvars
  BY StepNeverHelps
<1>2. [][Worse(office, office') => NoBetterVerdicts(office, office')]_sysvars => WorseNeverHelps
  BY PTL DEF NoBetterVerdicts, WorseNeverHelps
<1> QED
  BY <1>1, <1>2, OfficeAlways, PTL DEF SystemSpec

=============================================================================
