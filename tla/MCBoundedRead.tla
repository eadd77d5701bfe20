--------------------------- MODULE MCBoundedRead ---------------------------
(* Two groups of up to three events, any of them filtered out; pages of    *)
(* two; bounds smaller than a page, equal to it, larger, past an int32 of  *)
(* three bits, and none; and for k8s-logs a byte limit of two lines, cut   *)
(* one line early or late, and a second line without a timestamp.          *)
(*                                                                         *)
(* For the pipeline, five entries: of ordinary texts, in every order; of a *)
(* crash's and a traceback's lines, in every order and in bursts that both *)
(* windows, one of them or neither span.  And logs of more shapes than     *)
(* MaxClusters, whose last entry fits a cluster elsewhere in the tree or   *)
(* none.                                                                   *)
EXTENDS LogCollect

LogOf(texts, times) ==
  [i \in 1..Len(texts) |-> [text |-> texts[i], time |-> times[i]]]

Steady == <<1, 1, 1, 1, 1, 1, 1, 1>>
Bursts == {Steady, <<1, 1, 2, 2, 4>>, <<1, 1, 4, 4, 4>>, <<1, 4, 1, 4, 2>>}

Ordinary == {<<"a", "x">>, <<"b", "y">>, <<"1", "x">>, <<"2", "x">>, <<"c", "<*>">>}
Crash == {<<"err">>, <<"go">>, <<"frame">>, <<"panic", "1">>, <<"py">>, <<"tb">>}
Goroutines ==
  {<<"created", "x">>, <<"created", "y">>, <<"created", "err">>, <<"go">>, <<"py">>}

Orders(texts) ==
  {f \in [1..5 -> texts] : \A i, j \in 1..5 : i # j => f[i] # f[j]}

Crowded(last) ==
  <<<<>>, <<"a", "x">>, <<"b", "x">>, <<"c", "y">>, <<"err">>, <<"go">>,
    <<"py", "x">>, last>>

LogsRead ==
  {LogOf(f, Steady) : f \in {f \in [1..5 -> Ordinary] : f[1] = <<"a", "x">>}}
    \cup {LogOf(f, times) : f \in Orders(Crash) \cup Orders(Goroutines), times \in Bursts}
    \cup {LogOf(Crowded(last), Steady) :
            last \in {<<"py", "z">>, <<"d", "e">>, <<"f", "g", "h">>}}
=============================================================================
