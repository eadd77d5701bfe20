---------------------------- MODULE WalkContract ----------------------------
(***************************************************************************)
(* What one walk promises the server whose deletion phase reads its        *)
(* completeness assertion (framework/completeness.go and the doc comments  *)
(* of every collector's Walk).                                             *)
(*                                                                         *)
(* A source is a set of Parts: the enumerations, services or pages that    *)
(* together are "the whole source".  A walk reads parts one at a time and  *)
(* ends once: with an error, with a result that asserts COMPLETE, or with  *)
(* one that asserts INCOMPLETE.  The server treats every row that a        *)
(* complete result does not carry as deleted, so a complete assertion is   *)
(* only allowed when every part was read to its end and is carried.        *)
(***************************************************************************)
CONSTANT Parts

VARIABLES
  seen,     \* the parts the walk has read to their end
  landed,   \* the parts whose findings the returned result carries
  verdict   \* "none" until the walk returns

vars == <<seen, landed, verdict>>

Init ==
  /\ seen = {}
  /\ landed = {}
  /\ verdict = "none"

Read(p) ==
  /\ verdict = "none"
  /\ seen' = seen \cup {p}
  /\ UNCHANGED <<landed, verdict>>

(* A walk that errors carries nothing: the client refuses the collect.     *)
Refuse ==
  /\ verdict = "none"
  /\ verdict' = "error"
  /\ UNCHANGED <<seen, landed>>

(* Everything read to its end is carried even when something else was not. *)
AssertIncomplete ==
  /\ verdict = "none"
  /\ verdict' = "incomplete"
  /\ landed' \in SUBSET Parts
  /\ seen \subseteq landed'
  /\ UNCHANGED seen

AssertComplete ==
  /\ verdict = "none"
  /\ seen = Parts
  /\ verdict' = "complete"
  /\ landed' = Parts
  /\ UNCHANGED seen

Next ==
  \/ \E p \in Parts : Read(p)
  \/ Refuse
  \/ AssertIncomplete
  \/ AssertComplete

Spec == Init /\ [][Next]_vars
=============================================================================
