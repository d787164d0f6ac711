---------------------------- MODULE SqliteOutbox ----------------------------
(***************************************************************************)
(* The outbox on the SQLite backend.  The tables, the upsert and the marks *)
(* are those of module Outbox (status 'publishing' is written "leased"     *)
(* here); the publisher is the same program.  Three things differ: the     *)
(* claim never takes over a lease, there is no replay (requeue_outbox is a *)
(* Postgres function), and a busy database makes a store call fail, which  *)
(* is a fault like any other.                                              *)
(***************************************************************************)
EXTENDS Outbox

(* _upsert_raw_product: select, then insert or update. *)
SqliteRawRow(v) == [hash |-> v, state |-> "pending"]

(* _upsert_outbox_row: likewise; an update resets what the Postgres upsert *)
(* resets, and leaves created_at.                                          *)
SqliteRow(p, v) == FreshRow(p, v)

(* persist_snapshot, one transaction. *)
SqlitePersist(p, v) ==
    /\ used.scrapes < MaxScrapes
    /\ used' = [used EXCEPT !.scrapes = @ + 1]
    /\ raw' = [raw EXCEPT ![p] = SqliteRawRow(v)]
    /\ outbox' = [outbox EXCEPT ![p] = SqliteRow(p, v)]
    /\ UNCHANGED <<attempts, pub, sent>>

(* The statements of the marks are the Postgres ones. *)
SqliteMarkPublished(w) == MarkPublished(w)
SqliteMarkFailed(w) == MarkFailed(w)

SqliteSettle(w) == SqliteMarkPublished(w) \/ SqliteMarkFailed(w)

(* Mutants: expired leases are taken over, as on Postgres; a row that      *)
(* failed once is forgotten.                                               *)
SqliteClaimableTakingOver == Claimable
SqliteClaimableFirstTry == {p \in Persisted : outbox[p].status = "pending" /\ outbox[p].due}

(* The condition of has_claimable_outbox_rows and of the claim.  The lease *)
(* is looked at, but only of rows that have none.                          *)
SqliteClaimable ==
    {p \in Persisted :
        /\ outbox[p].status \in {"pending", "retryable"}
        /\ outbox[p].due
        /\ outbox[p].lease # "live"}

SqlitePoll(w) == SqliteClaimable # {} /\ Connect(w)

(* "begin immediate" serialises the claims of all processes. *)
SqliteClaim(w) == ClaimRows(w, Oldest(SqliteClaimable, BatchSize))

SqliteNext ==
    \/ \E p \in Products, v \in Versions : SqlitePersist(p, v)
    \/ \E w \in Publishers :
         SqlitePoll(w) \/ SqliteClaim(w) \/ Send(w) \/ SqliteSettle(w) \/ Abandon(w)
    \/ \E p \in Products : LeaseExpires(p) \/ BackoffEnds(p)

SqliteSpec == Init /\ [][SqliteNext]_vars

SqliteFairness ==
    /\ \A w \in Publishers :
         /\ WF_vars(SqlitePoll(w)) /\ WF_vars(SqliteClaim(w))
         /\ WF_vars(Send(w)) /\ WF_vars(SqliteSettle(w))
    /\ \A p \in Products : WF_vars(LeaseExpires(p)) /\ WF_vars(BackoffEnds(p))

SqliteFairSpec == SqliteSpec /\ SqliteFairness

-----------------------------------------------------------------------------
Holds(w, p) == \E i \in DOMAIN pub[w].todo : pub[w].todo[i].product = p

ScrapedOnce == used.scrapes = Cardinality(Persisted)

(* Two publishers never send the same row, however long one of them takes, *)
(* unless the product was scraped again in the meantime.                   *)
Exclusive ==
    ScrapedOnce =>
        \A p \in Products : \A v, w \in Publishers : Holds(v, p) /\ Holds(w, p) => v = w

(* Hence a verdict is final until the next scrape. *)
VerdictIsFinal ==
    [][\A p \in Products :
         ScrapedOnce /\ Settled(p) /\ outbox'[p].status # outbox[p].status
            => used' # used]_vars

(* A row left behind: leased to a publisher that has forgotten it. *)
Stranded(p) == outbox[p].status = "leased" /\ \A w \in Publishers : ~Holds(w, p)
=============================================================================
