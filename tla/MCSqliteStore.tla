--------------------------- MODULE MCSqliteStore ---------------------------
(***************************************************************************)
(* An instance of SqliteStore for TLC: one product of an older run, one of *)
(* a crawl.  The older files: none, every status a row can have but        *)
(* "failed", an item that was never queued, a row without its item, an     *)
(* item without its run, an item whose specs clash.                        *)
(***************************************************************************)
EXTENDS SqliteStore

CONSTANTS p1, p2, v1, v2, old, c1

MCRunOf == [p \in Products |-> IF p = p1 THEN old ELSE c1]

(* v2 has the spec "ram / type" of the section "memory" twice. *)
MCRawSpecs ==
    LET memory == <<"memory">>
        plain  == [path |-> <<<<"color">>>>, value |-> "black"]
        nested == [path |-> <<memory, <<"ram">>, <<"type">>>>, value |-> "ddr5"]
        joined == [path |-> <<memory, <<"ram", "type">>>>, value |-> "ddr5"]
    IN [v \in Versions |->
          IF v = v2 THEN {nested, joined} ELSE {plain, nested}]

Nothing == [k \in {} |-> None]
OldRun == [status |-> "running", scraped |-> 0, persisted |-> 0, failed |-> 0]

OldRow(status, retry, due, lease) ==
    [status |-> status, payload |-> v1, born |-> 1, retry |-> retry, due |-> due,
     lease |-> lease,
     tries |-> {[number |-> n, success |-> status = "published"] : n \in 1 .. retry}]

OldFile(row) ==
    [runs  |-> [r \in {old} |-> OldRun],
     items |-> [p \in {p1} |-> v1],
     rows  |-> [p \in {p1} |-> row]]

Queued == OldFile(OldRow("pending", 0, TRUE, "none"))

MCLegacies ==
    {[runs |-> Nothing, items |-> Nothing, rows |-> Nothing],
     Queued,
     OldFile(OldRow("retryable", 1, FALSE, "none")),
     OldFile(OldRow("leased", 1, TRUE, "live")),
     OldFile(OldRow("published", 1, TRUE, "none")),
     [Queued EXCEPT !.rows = Nothing],
     [Queued EXCEPT !.items = Nothing],
     [Queued EXCEPT !.runs = Nothing],
     [Queued EXCEPT !.items[p1] = v2]}
=============================================================================
