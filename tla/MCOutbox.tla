------------------------------ MODULE MCOutbox ------------------------------
(***************************************************************************)
(* Instances of Outbox for TLC.  Products, snapshots and publishers are    *)
(* model values; the replay is called without a status filter and for the  *)
(* settled rows, the two ways the runbook uses it.                         *)
(***************************************************************************)
EXTENDS Outbox

MCReplayFilters == {{}, {"published", "failed"}}
=============================================================================
