---------------------------- MODULE MCOperations ----------------------------
(* A small instance of Operations, with the stores of MCAccess. *)
EXTENDS MCAccess, Operations

(* The defaults of the settings. *)
Monitored ==
    [slo |-> [parse |-> 90, apply |-> 95, block |-> 10, coverage |-> 35, rejected |-> 15,
              retryable |-> 10, malformed |-> 5, reconciliation |-> 5, duplicate |-> 50,
              items |-> 20] @@ ("zero results" :> 20),
     disableStore |-> FALSE, failRun |-> FALSE, adviseDisable |-> TRUE, triage |-> TRUE]

RolledOut ==
    [flags |-> TRUE, storePolicy |-> TRUE, canaryRollout |-> TRUE, hashBased |-> TRUE,
     canaryPercentage |-> 10, partialPercentage |-> 30, defaultStage |-> "disabled",
     guard |-> TRUE, blockFailing |-> TRUE, degradedCanary |-> FALSE, adviseRollback |-> TRUE,
     allowBreaking |-> FALSE, dualPlanned |-> FALSE]

Cautious ==
    [policy |-> TRUE, checklist |-> TRUE, requireReady |-> TRUE, requireGates |-> TRUE,
     requireSecurity |-> TRUE, requireObservability |-> TRUE, requireRollout |-> TRUE,
     requirePlaybooks |-> TRUE, canaryOnly |-> TRUE, export |-> TRUE, antiban |-> TRUE,
     given |-> TRUE, triggers |-> TRUE, checkpoints |-> TRUE, blockOnCritical |-> TRUE,
     maxCritical |-> 0, maxHigh |-> 3,
     limit |-> [malformed |-> 5, rejected |-> 15, reconciliation |-> 5, block |-> 10]]

(* A team that launches what is not finished, and tells about incidents    *)
(* by disabling stores and failing runs.                                   *)
Hasty == [Cautious EXCEPT !.checklist = FALSE, !.requireReady = FALSE, !.requireGates = FALSE,
                          !.requireSecurity = FALSE, !.given = FALSE]
Strict == [Monitored EXCEPT !.disableStore = TRUE, !.failRun = TRUE]

MCPolicies ==
    {[o |-> Monitored, r |-> RolledOut, g |-> Cautious],
     [o |-> Strict, r |-> [RolledOut EXCEPT !.dualPlanned = TRUE, !.allowBreaking = TRUE],
      g |-> Hasty],
     [o |-> Monitored, r |-> [RolledOut EXCEPT !.blockFailing = FALSE, !.degradedCanary = TRUE],
      g |-> [Cautious EXCEPT !.canaryOnly = FALSE]]}

MCFiles == {"settings.py", "data_governance_logger.py", "texnomart", "payload_contract"}
MCConfirmed ==
    {"production config", "parser key", "report reviewed", "dry run", "smoke",
     "contract checks", "plan reviewed", "local", "staging", "rollback drill",
     "canary exception", "canary store scope"}
MCWithdrawn == {"dry run", "canary exception"}
MCBad == {"live drift", "canary violation"}
MCHandGates == {"unit tests"}

MCBaseline == (<<"entity_key">> :> "text" @@ <<"title">> :> "text" @@ <<"price">> :> "int"
               @@ <<"specs">> :> "object" @@ <<"specs", "ram">> :> "text")
Without(paths, payload) == [p \in DOMAIN payload \ paths |-> payload[p]]
Untitled == Without({<<"title">>}, MCBaseline)
Renamed == Untitled @@ (<<"name">> :> "text")
MCPayloads ==
    {MCBaseline, Untitled, Without({<<"entity_key">>}, Untitled), Renamed,
     [Renamed EXCEPT ![<<"price">>] = "text"], Without({<<"specs", "ram">>}, MCBaseline)}
MCShadow == {<< <<"title">>, <<"name">> >>}

Counted(part) == part @@ NoCounts
MCUsual ==
    Counted("yielded" :> 20 @@ "listings" :> 10 @@ "categories" :> 4 @@ "normalized" :> 20
            @@ "items" :> 20 @@ "applied" :> 20 @@ "batches" :> 2 @@ "reconciled" :> 2)
Failures ==
    {Counted("listings" :> 2 @@ "blocks" :> 2), Counted("batches" :> 1 @@ "malformed" :> 1),
     Counted("parse failed" :> 4), Counted("items" :> 5 @@ "rejected" :> 5),
     Counted("items" :> 5 @@ "retryable" :> 5), Counted("unreconciled" :> 1)}
MCEvents == [s \in {"mediapark", "texnomart", "uzum", "alifshop"} |->
                IF s \in {"texnomart", "uzum"} THEN Failures ELSE {}]
MCLists == [s \in {"mediapark", "texnomart", "uzum", "alifshop"} |->
               IF s = "mediapark" THEN {{"canary"}, {"partial"}, {}, {"disabled", "canary"}}
               ELSE {{"canary"}}]

Entry(sensitive) == [known |-> TRUE, enabled |-> TRUE, stage |-> "full", restricted |-> FALSE,
                     sensitive |-> sensitive, canary |-> TRUE]
MCFeature ==
    [s \in {"profile control", "browser policy", "hardening", "captcha hooks", "enforcement"} |->
       Entry(s = "browser policy")]
MCBucket ==
    [s \in {"mediapark", "texnomart", "uzum", "alifshop"} |->
       [f \in DOMAIN MCFeature |-> IF s = "mediapark" /\ f = "browser policy" THEN 20 ELSE 5]]
=============================================================================
