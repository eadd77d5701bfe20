----------------------------- MODULE MCLokiWalk -----------------------------
(* Three instants with up to three entries each and pages of two: full     *)
(* pages within one instant, full pages that straddle an instant, several  *)
(* rounds of narrowing, and a page that ends at the window's start.        *)
(* For the searches, five entries behind a cap of three: a second page cut *)
(* by the cap, a window that moves and one that cannot, entries of one     *)
(* instant on both sides of a window's start; three attempts a call.       *)
EXTENDS SearchWalk
=============================================================================
