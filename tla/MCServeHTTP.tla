---------------------------- MODULE MCServeHTTP -----------------------------
(* Two overlapping collects of a source of two items, and one stale row.   *)
EXTENDS ServeHTTP
=============================================================================
