------------------------------ MODULE MCFanOut ------------------------------
(* Three enumerations and two workers: one enumeration waits for a worker, *)
(* and a cancellation can find the feeder before, between and after sends. *)
(* The gitlab groups are a chain a, b, c and a second subgroup of a: a     *)
(* collect of a meets the depth limit at c, one of b or c does not.        *)
EXTENDS GitlabWalk

Groups == {"a", "b", "c", "d"}
Below == [g \in Groups |-> CASE g = "a" -> <<"b", "d">>
                             [] g = "b" -> <<"c">>
                             [] OTHER -> <<>>]
=============================================================================
