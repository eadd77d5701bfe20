------------------------------ MODULE LokiWalk ------------------------------
(***************************************************************************)
(* The loki collector's backward walk over query_range: lokiapi's Walk,    *)
(* fetchPage and normalizePage, over get with its bounded retries.         *)
(*                                                                         *)
(* Loki has no cursor.  Each request asks for the newest PageLimit entries *)
(* of [start, end]; the next one moves end to just before the oldest entry *)
(* of the page.  The filters of this collector drop entries after Loki     *)
(* counted them, so the walk keeps what passed and narrows on what came.   *)
(*                                                                         *)
(* An entry is an instant and a number that tells the entries of one       *)
(* instant apart.  Loki itself is external: it returns the newest entries, *)
(* breaking ties between the entries of one instant as it likes.           *)
(***************************************************************************)
EXTENDS Integers, FiniteSets

CONSTANTS
  WindowStart, WindowEnd,  \* the collect window, in nanoseconds
  PerInstant,              \* how many entries one instant holds at most
  PageLimit,               \* pageLimit
  ClientRetries            \* Settings.ClientRetries

ASSUME WindowAssumption ==
  WindowStart \in Int /\ WindowEnd \in Int /\ WindowStart < WindowEnd
ASSUME PageLimitAssumption == PageLimit \in Nat \ {0}
ASSUME PerInstantAssumption == PerInstant \in Nat
ASSUME RetriesAssumption == ClientRetries \in Nat

Window == WindowStart..WindowEnd
Entries == [at : Window, nr : 1..PerInstant]

VARIABLES
  held,       \* the entries Loki holds in the window
  passes,     \* those that pass the text and severity filters
  honoursEnd, \* Loki applies the end bound of a request
  ctxDone,    \* the collect's context is done
  end,        \* endNanos
  attempt,    \* the retry loop of get
  phase,      \* "asking", "backoff" or "returned"
  kept,       \* entries accumulated, filtered
  verdict,    \* "none", "error", "complete" or "incomplete"
  edges       \* history: the oldest instants of the full pages walked past

vars == <<held, passes, honoursEnd, ctxDone, end, attempt, phase, kept,
          verdict, edges>>
source == <<held, passes, honoursEnd>>

TypeOK ==
  /\ held \in SUBSET Entries
  /\ passes \in SUBSET held
  /\ honoursEnd \in BOOLEAN
  /\ ctxDone \in BOOLEAN
  /\ end \in Window
  /\ attempt \in 0..ClientRetries
  /\ phase \in {"asking", "backoff", "returned"}
  /\ kept \in SUBSET passes
  /\ verdict \in {"none", "error", "complete", "incomplete"}
  /\ edges \in SUBSET Window

(* An instant's entries are numbered from one.                             *)
Numbered(s) == \A e \in s : \A n \in 1..e.nr : [at |-> e.at, nr |-> n] \in s

(* The filters keep everything, or nothing but the first entry at each     *)
(* instant, or nothing.                                                    *)
Filters(s) == {s, {e \in s : e.nr = 1}, {}}

Init ==
  /\ held \in {s \in SUBSET Entries : Numbered(s)}
  /\ passes \in Filters(held)
  /\ honoursEnd \in BOOLEAN
  /\ ctxDone = FALSE
  /\ end = WindowEnd
  /\ attempt = 0
  /\ phase = "asking"
  /\ kept = {}
  /\ verdict = "none"
  /\ edges = {}
-----------------------------------------------------------------------------
Asked(hi) == {e \in held : honoursEnd => e.at <= hi}

(* The pages Loki may answer a request with: the newest PageLimit entries, *)
(* or all of them when there are fewer.                                    *)
Pages(hi) ==
  {p \in SUBSET Asked(hi) :
     /\ Cardinality(p) <= PageLimit
     /\ Cardinality(p) < PageLimit => p = Asked(hi)
     /\ \A e \in p, f \in Asked(hi) \ p : e.at >= f.at}

Answer(v) == phase' = "returned" /\ verdict' = v

(* The oldest and the newest instant of a page that is not empty.          *)
Oldest(page, t) == (\E e \in page : e.at = t) /\ \A e \in page : t <= e.at
Newest(page, t) == (\E e \in page : e.at = t) /\ \A e \in page : t >= e.at

(* Faults: what Narrow and PageArrives below would be with one plausible   *)
(* mistake each.  They are not part of Next; put in the place of what they *)
(* vary, each breaks one property.                                         *)

(* The walk narrows without comparing the new end with anything.           *)
NarrowPastStart(oldest, newest) ==
  \/ /\ oldest = newest
     /\ Answer("incomplete")
     /\ UNCHANGED <<end, edges>>
  \/ /\ oldest # newest
     /\ edges' = edges \cup {oldest}
     /\ end' = oldest - 1
     /\ UNCHANGED <<phase, verdict>>

(* A server that ignores the end bound is believed to have moved.          *)
NarrowWithoutProgress(oldest, newest) ==
  \/ /\ oldest = newest
     /\ Answer("incomplete")
     /\ UNCHANGED <<end, edges>>
  \/ /\ oldest # newest
     /\ edges' = edges \cup {oldest}
     /\ \/ /\ oldest - 1 < WindowStart
           /\ Answer("complete")
           /\ UNCHANGED end
        \/ /\ oldest - 1 >= WindowStart
           /\ end' = oldest - 1
           /\ UNCHANGED <<phase, verdict>>

(* One more round of Walk's loop, after a full page.                       *)
Narrow(oldest, newest) ==
  \/ /\ oldest = newest
     /\ Answer("incomplete")
     /\ UNCHANGED <<end, edges>>
  \/ /\ oldest # newest
     /\ edges' = edges \cup {oldest}
     /\ \/ /\ oldest - 1 < WindowStart
           /\ Answer("complete")
           /\ UNCHANGED end
        \/ /\ oldest - 1 >= WindowStart
           /\ oldest - 1 >= end
           /\ Answer("incomplete")
           /\ UNCHANGED end
        \/ /\ oldest - 1 >= WindowStart
           /\ oldest - 1 < end
           /\ end' = oldest - 1
           /\ UNCHANGED <<phase, verdict>>

(* The walk stops on the count of what passed the filters.                 *)
PageArrivesOnFilteredCount ==
  /\ phase = "asking"
  /\ ~ctxDone
  /\ \E page \in Pages(end) :
       /\ kept' = kept \cup (page \cap passes)
       /\ attempt' = 0
       /\ \/ /\ Cardinality(page \cap passes) < PageLimit
             /\ Answer("complete")
             /\ UNCHANGED <<end, edges>>
          \/ /\ Cardinality(page \cap passes) >= PageLimit
             /\ \E t, u \in Window : Oldest(page, t) /\ Newest(page, u) /\ Narrow(t, u)
  /\ UNCHANGED <<source, ctxDone>>

(* An attempt answered: the page is filtered and the walk terminates or    *)
(* narrows on the raw count.  A new request starts with a fresh retry      *)
(* budget.  Every request carries the context: none answers once it is     *)
(* done.                                                                   *)
PageArrives ==
  /\ phase = "asking"
  /\ ~ctxDone
  /\ \E page \in Pages(end) :
       /\ kept' = kept \cup (page \cap passes)
       /\ attempt' = 0
       /\ \/ /\ Cardinality(page) < PageLimit
             /\ Answer("complete")
             /\ UNCHANGED <<end, edges>>
          \/ /\ Cardinality(page) >= PageLimit
             /\ \E t, u \in Window : Oldest(page, t) /\ Newest(page, u) /\ Narrow(t, u)
  /\ UNCHANGED <<source, ctxDone>>

(* A transport error or a 5xx answer is retried while the budget lasts; a  *)
(* 4xx, a malformed answer or a done context is not.  A page that failed   *)
(* fails the walk, whatever earlier pages held.                            *)
AttemptFails ==
  /\ phase = "asking"
  /\ \/ /\ attempt < ClientRetries
        /\ phase' = "backoff"
        /\ UNCHANGED verdict
     \/ Answer("error")
  /\ UNCHANGED <<source, ctxDone, end, attempt, kept, edges>>

(* sleepBackoff: the timer fires, or the context ends the wait first.      *)
BackoffEnds ==
  /\ phase = "backoff"
  /\ \/ /\ phase' = "asking"
        /\ attempt' = attempt + 1
        /\ UNCHANGED verdict
     \/ /\ ctxDone
        /\ Answer("error")
        /\ UNCHANGED attempt
  /\ UNCHANGED <<source, ctxDone, end, kept, edges>>

CancelContext ==
  /\ ~ctxDone
  /\ phase # "returned"
  /\ ctxDone' = TRUE
  /\ UNCHANGED <<source, end, attempt, phase, kept, verdict, edges>>

Done ==
  /\ phase = "returned"
  /\ UNCHANGED vars

Next == PageArrives \/ AttemptFails \/ BackoffEnds \/ CancelContext \/ Done

(* Every request carries a client timeout and every backoff a timer, so an *)
(* attempt ends and a backoff ends.                                        *)
Fairness == WF_vars(PageArrives \/ AttemptFails) /\ WF_vars(BackoffEnds)

Spec == Init /\ [][Next]_vars /\ Fairness
-----------------------------------------------------------------------------
(* A complete walk returns every entry of the window that passes the       *)
(* filters, except possibly further entries at the very instant a full     *)
(* page ended on.  In particular the entries the filters drop never make   *)
(* the walk stop early: termination is on the raw count.                   *)
CompleteButForPageEdges ==
  verdict = "complete" /\ honoursEnd =>
    \A e \in passes \ kept : e.at \in edges

(* What page.go says of Result.Complete: it "is false when the walk could  *)
(* not enumerate the whole window", so a complete walk holds every entry   *)
(* that passes the filters.                                                *)
CompleteIsWholeWindow ==
  verdict = "complete" /\ honoursEnd => kept = passes

(* The walk ends, even against a server that ignores the end bound: every  *)
(* round narrows the window or returns.                                    *)
Terminates == <>(phase = "returned")
=============================================================================
