------------------------------ MODULE Delivery ------------------------------
(***************************************************************************)
(* What the outbox promises to those who order a publication (the scraper  *)
(* that persists a snapshot, the operator who replays a row), with one     *)
(* publisher at work: every order is answered in the end, "published" is   *)
(* only said of a payload the broker has accepted, and an answer stands    *)
(* until the next order.                                                   *)
(***************************************************************************)
EXTENDS Integers

CONSTANTS Products, Payloads, None

VARIABLES
    verdict,   \* what the tables say of each product
    told,      \* the payload said to be published
    accepted,  \* the payloads the broker accepted
    orders     \* publications ordered so far

vars == <<verdict, told, accepted, orders>>

Init ==
    /\ verdict = [p \in Products |-> "absent"]
    /\ told = [p \in Products |-> None]
    /\ accepted = [p \in Products |-> {}]
    /\ orders = 0

(* One order concerns one product or a group of them. *)
Order(ps) ==
    /\ orders' = orders + 1
    /\ verdict' = [p \in Products |-> IF p \in ps THEN "open" ELSE verdict[p]]
    /\ told' = [p \in Products |-> IF p \in ps THEN None ELSE told[p]]
    /\ UNCHANGED accepted

(* The broker may accept a payload any number of times before the verdict. *)
Accept(p, v) ==
    /\ verdict[p] = "open"
    /\ accepted' = [accepted EXCEPT ![p] = @ \cup {v}]
    /\ UNCHANGED <<verdict, told, orders>>

Conclude(p) ==
    /\ verdict[p] = "open"
    /\ \/ /\ verdict' = [verdict EXCEPT ![p] = "published"]
          /\ \E v \in accepted[p] : told' = [told EXCEPT ![p] = v]
       \/ /\ verdict' = [verdict EXCEPT ![p] = "failed"]
          /\ UNCHANGED told
    /\ UNCHANGED <<accepted, orders>>

Next ==
    \/ \E ps \in (SUBSET Products) \ {{}} : Order(ps)
    \/ \E p \in Products, v \in Payloads : Accept(p, v)
    \/ \E p \in Products : Conclude(p)

Spec == Init /\ [][Next]_vars

FairSpec ==
    /\ Spec
    /\ \A p \in Products : WF_vars(Conclude(p))
=============================================================================
