--------------------------- MODULE MCServiceWalk ---------------------------
(* Three services and two places: one goroutine waits while two work, and  *)
(* a cancellation can find any of them waiting.  Listings of one page, of  *)
(* as many pages as the bound allows, and without an end.                  *)
EXTENDS ClusterWalk
=============================================================================
