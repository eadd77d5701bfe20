---------------------------- MODULE BoundedRead ----------------------------
(***************************************************************************)
(* The two log walks that a max_entries bound can cut short, and what they *)
(* then say of their completeness: cloudwatch's fetchAll over its paged    *)
(* log groups, and stackdriver's drainEntries over one iterator.  PodLogs  *)
(* adds the walk of k8s-logs, whose bounds the apiserver applies.          *)
(*                                                                         *)
(* A spent bound is not a truncated source: the walk asserts INCOMPLETE    *)
(* only when it saw that something was left, so it looks.  cloudwatch      *)
(* pages on from the cursor and through the groups it has not read, one    *)
(* event at a time; stackdriver pulls one more entry.                      *)
(*                                                                         *)
(* The service is external.  It holds a fixed sequence of events per log   *)
(* group, of which the collector's own filters keep some; a page holds at  *)
(* most as many as were asked for, possibly none, and its token may be     *)
(* live after the last event.  Events are named by group and position.     *)
(***************************************************************************)
EXTENDS Integers, FiniteSets

CONSTANTS
  Readers,    \* the collectors to model
  Groups,     \* how many log groups the parameters name
  MaxEvents,  \* how many events a group holds at most
  Bounds,     \* the values of max_entries; 0 is none
  PageLimit,  \* pageLimit: how many events one request asks for
  HalfRange,  \* an int32 is in -HalfRange .. HalfRange - 1
  MaxEmpty    \* how many empty pages with a live token the service answers

ASSUME ReadersAssumption ==
  Readers \subseteq {"cloudwatch", "stackdriver", "k8slogs"}
ASSUME GroupsAssumption == Groups \in Nat \ {0}
ASSUME EventsAssumption == MaxEvents \in Nat
ASSUME BoundsAssumption == Bounds \subseteq Nat
ASSUME LimitAssumption ==
  HalfRange \in Nat /\ PageLimit \in Nat /\ 0 < PageLimit /\ PageLimit < HalfRange
ASSUME EmptyAssumption == MaxEmpty \in Nat

Events == (1..Groups) \X (1..MaxEvents)

VARIABLES
  reader,     \* which collector this is
  bound,      \* entryBound() or MaxEntries
  held,       \* how many events each group holds
  keeps,      \* the events that pass the collector's filters
  ctxDone,    \* the collect's context is done
  pc,         \* where the walk is
  group,      \* the group being read or asked
  cursor,     \* how many of its events were delivered
  remaining,  \* the budget fetchGroup was given, 0 for none
  limit,      \* input.Limit of the next request
  empties,    \* empty pages so far
  entries,    \* the events in the result
  verdict     \* what the walk returned

source == <<reader, bound, held, keeps>>
vars == <<source, ctxDone, pc, group, cursor, remaining, limit, empties,
          entries, verdict>>

(* The events of the source that the walk is for.                          *)
Wanted == {e \in keeps : e[2] <= held[e[1]]}

(* In particular a bound wider than the request's limit field never       *)
(* reaches it: every request asks for an event at least, a page at most.   *)
TypeOK ==
  /\ reader \in Readers
  /\ bound \in Bounds
  /\ held \in [1..Groups -> 0..MaxEvents]
  /\ keeps \in SUBSET Events
  /\ ctxDone \in BOOLEAN
  /\ pc \in {"group", "page", "probe", "ask", "pull", "list", "open", "line",
             "returned"}
  /\ group \in 1..(Groups + 1)
  /\ cursor \in 0..MaxEvents
  /\ remaining \in Nat
  /\ limit \in 1..PageLimit
  /\ empties \in 0..MaxEmpty
  /\ entries \in SUBSET Wanted
  /\ verdict \in {"none", "error", "complete", "truncated"}

Init ==
  /\ reader \in Readers
  /\ bound \in Bounds
  /\ held \in [1..Groups -> 0..MaxEvents]
  /\ reader = "stackdriver" => \A g \in 2..Groups : held[g] = 0
  /\ keeps \in SUBSET {e \in Events : e[2] <= held[e[1]]}
  /\ ctxDone = FALSE
  /\ pc = CASE reader = "cloudwatch" -> "group"
            [] reader = "stackdriver" -> "pull"
            [] reader = "k8slogs" -> "list"
  /\ group = 1
  /\ cursor = 0
  /\ remaining = 0
  /\ limit = PageLimit
  /\ empties = 0
  /\ entries = {}
  /\ verdict = "none"
-----------------------------------------------------------------------------
Answer(v) == pc' = "returned" /\ verdict' = v

Spent == bound > 0 /\ Cardinality(entries) >= bound

(* The conversion int32(n).                                                *)
Narrow(n) == ((n + HalfRange) % (2 * HalfRange)) - HalfRange

(* A page of n events, and those of them the filters keep.                 *)
Page(n) == {<<group, i>> : i \in (cursor + 1)..(cursor + n)}
Kept(n) == Page(n) \cap keeps

(* The first n events of a page's.                                         *)
First(n, page) == {e \in page : Cardinality({f \in page : f[2] <= e[2]}) <= n}

(* What one request may be answered with: n events, and a token or none.   *)
(* Only the last page comes without a token.  No request answers under a   *)
(* context that is done.                                                   *)
Delivers(n, live) ==
  /\ ~ctxDone
  /\ n \in 0..(held[group] - cursor)
  /\ n <= limit
  /\ live \/ cursor + n = held[group]
  /\ live /\ n = 0 => empties < MaxEmpty
  /\ empties' = IF live /\ n = 0 THEN empties + 1 ELSE empties

(* Faults: what the definitions below would be with one plausible mistake  *)
(* each.  They are not part of Next; put in the place of what they vary,   *)
(* each breaks one property.                                               *)

(* The bound is narrowed before it is compared.                            *)
PageSizeNarrowedFirst(n) ==
  IF n > 0 /\ Narrow(n) < PageLimit THEN Narrow(n) ELSE PageLimit

(* A budget that lands on the end of a page is taken for the end of the    *)
(* group.                                                                  *)
CloseAtBudgetUnprobed(n, live) ==
  LET take == remaining - Cardinality({e \in entries : e[1] = group}) IN
  /\ entries' = entries \cup First(take, Kept(n))
  /\ cursor' = cursor + n
  /\ \/ /\ Cardinality(Kept(n)) > take
        /\ Answer("truncated")
        /\ UNCHANGED <<group, limit>>
     \/ /\ Cardinality(Kept(n)) <= take
        /\ group' = group + 1
        /\ pc' = "group"
        /\ UNCHANGED <<verdict, limit>>

(* The probes count the events the filters exclude.                        *)
HoldsAnEntryUnfiltered(n) == Page(n) # {}

(* The request is sent again with the token it was sent with.              *)
AdvanceNot(n) == cursor
-----------------------------------------------------------------------------
(* buildFilterInput's limit: the page limit, or what remains of a smaller  *)
(* budget.                                                                 *)
PageSize(n) == IF n > 0 /\ n < PageLimit THEN Narrow(n) ELSE PageLimit

(* fetchAll's loop: the walk ends after the last group; a spent bound asks *)
(* the groups left; otherwise the group is read under what remains.        *)
NextGroup ==
  /\ pc = "group"
  /\ \/ /\ group > Groups
        /\ Answer("complete")
        /\ UNCHANGED <<cursor, remaining, limit>>
     \/ /\ group <= Groups
        /\ Spent
        /\ pc' = "ask"
        /\ cursor' = 0
        /\ limit' = PageSize(1)
        /\ UNCHANGED <<remaining, verdict>>
     \/ /\ group <= Groups
        /\ ~Spent
        /\ pc' = "page"
        /\ cursor' = 0
        /\ remaining' = IF bound > 0 THEN bound - Cardinality(entries) ELSE 0
        /\ limit' = PageSize(remaining')
        /\ UNCHANGED verdict
  /\ UNCHANGED <<source, ctxDone, group, empties, entries>>

(* closeAtBudget: what still fits is kept; entries past it on this page    *)
(* are a truncation, and a live token is followed.                         *)
CloseAtBudget(n, live) ==
  LET take == remaining - Cardinality({e \in entries : e[1] = group}) IN
  /\ entries' = entries \cup First(take, Kept(n))
  /\ cursor' = cursor + n
  /\ \/ /\ Cardinality(Kept(n)) > take
        /\ Answer("truncated")
        /\ UNCHANGED <<group, limit>>
     \/ /\ Cardinality(Kept(n)) <= take
        /\ live
        /\ pc' = "probe"
        /\ limit' = 1
        /\ UNCHANGED <<group, verdict>>
     \/ /\ Cardinality(Kept(n)) <= take
        /\ ~live
        /\ group' = group + 1
        /\ pc' = "group"
        /\ UNCHANGED <<verdict, limit>>

(* One round of fetchGroup's loop.                                         *)
ReadPage ==
  /\ pc = "page"
  /\ \E n \in 0..MaxEvents, live \in BOOLEAN :
       /\ Delivers(n, live)
       /\ LET got == Cardinality({e \in entries : e[1] = group}) + Cardinality(Kept(n)) IN
          \/ /\ remaining > 0
             /\ got >= remaining
             /\ CloseAtBudget(n, live)
          \/ /\ remaining > 0 => got < remaining
             /\ entries' = entries \cup Kept(n)
             /\ cursor' = cursor + n
             /\ group' = IF live THEN group ELSE group + 1
             /\ pc' = IF live THEN "page" ELSE "group"
             /\ UNCHANGED <<limit, verdict>>
  /\ UNCHANGED <<source, ctxDone, remaining>>

(* The probes ask for an entry this collect would have kept.               *)
HoldsAnEntry(n) == Kept(n) # {}

(* The token of the answer is what the next probe carries.                 *)
Advance(n) == cursor + n

(* cursorHoldsAnEntry, from the token the budget was spent at.             *)
ProbeCursor ==
  /\ pc = "probe"
  /\ \E n \in 0..MaxEvents, live \in BOOLEAN :
       /\ Delivers(n, live)
       /\ cursor' = Advance(n)
       /\ \/ /\ HoldsAnEntry(n)
             /\ Answer("truncated")
             /\ UNCHANGED group
          \/ /\ ~HoldsAnEntry(n)
             /\ group' = IF live THEN group ELSE group + 1
             /\ pc' = IF live THEN "probe" ELSE "group"
             /\ UNCHANGED verdict
  /\ UNCHANGED <<source, ctxDone, remaining, limit, entries>>

(* anyGroupHasEntry, over the groups that were not read.                   *)
AskGroup ==
  /\ pc = "ask"
  /\ \E n \in 0..MaxEvents, live \in BOOLEAN :
       /\ Delivers(n, live)
       /\ \/ /\ HoldsAnEntry(n)
             /\ Answer("truncated")
             /\ cursor' = Advance(n)
             /\ UNCHANGED group
          \/ /\ ~HoldsAnEntry(n)
             /\ live
             /\ cursor' = Advance(n)
             /\ UNCHANGED <<pc, group, verdict>>
          \/ /\ ~HoldsAnEntry(n)
             /\ ~live
             /\ group < Groups
             /\ group' = group + 1
             /\ cursor' = 0
             /\ UNCHANGED <<pc, verdict>>
          \/ /\ ~HoldsAnEntry(n)
             /\ ~live
             /\ group = Groups
             /\ Answer("complete")
             /\ cursor' = Advance(n)
             /\ UNCHANGED group
  /\ UNCHANGED <<source, ctxDone, remaining, limit, entries>>

(* A request of cloudwatch's fails: the collect fails with it, whatever    *)
(* was read, whichever question it asked.                                  *)
RequestFails ==
  /\ pc \in {"page", "probe", "ask"}
  /\ Answer("error")
  /\ UNCHANGED <<source, ctxDone, group, cursor, remaining, limit, empties,
                 entries>>
-----------------------------------------------------------------------------
(* drainEntries: one pull of the iterator, which hides pages and tokens.   *)
PullEntry ==
  /\ pc = "pull"
  /\ ~Spent
  /\ ~ctxDone
  /\ \/ /\ cursor = held[group]
        /\ Answer("complete")
        /\ UNCHANGED <<cursor, entries>>
     \/ /\ cursor < held[group]
        /\ cursor' = cursor + 1
        /\ entries' = entries \cup Kept(1)
        /\ UNCHANGED <<pc, verdict>>
  /\ UNCHANGED <<source, ctxDone, group, remaining, limit, empties>>

PullFails ==
  /\ pc = "pull"
  /\ ~Spent
  /\ Answer("error")
  /\ UNCHANGED <<source, ctxDone, group, cursor, remaining, limit, empties,
                 entries>>

(* moreRemains: the pull past the bound.  An entry the client filter would *)
(* exclude counts, and so does a pull that fails.                          *)
Peek ==
  /\ pc = "pull"
  /\ Spent
  /\ \/ cursor = held[group] /\ ~ctxDone /\ Answer("complete")
     \/ cursor < held[group] /\ ~ctxDone /\ Answer("truncated")
     \/ Answer("truncated")
  /\ UNCHANGED <<source, ctxDone, group, cursor, remaining, limit, empties,
                 entries>>
-----------------------------------------------------------------------------
CancelContext ==
  /\ ~ctxDone
  /\ pc # "returned"
  /\ ctxDone' = TRUE
  /\ UNCHANGED <<source, pc, group, cursor, remaining, limit, empties,
                 entries, verdict>>

Done ==
  /\ pc = "returned"
  /\ UNCHANGED vars

Answered ==
  NextGroup \/ ReadPage \/ ProbeCursor \/ AskGroup \/ PullEntry \/ Peek

Failed == RequestFails \/ PullFails

Next == Answered \/ Failed \/ CancelContext \/ Done

(* Every request ends: with an answer or, under a context that is done,    *)
(* with its error.                                                         *)
Fairness == WF_vars(Answered) /\ WF_vars(ctxDone /\ Failed)

Spec == Init /\ [][Next]_vars /\ Fairness
-----------------------------------------------------------------------------
(* A complete walk of cloudwatch or stackdriver carries every event of the *)
(* source that the filters keep: a bound that was spent, in the middle of  *)
(* a page, at its end or between two groups, hides nothing from the probes *)
(* behind it.  What a complete walk of k8s-logs carries is in PodLogs.     *)
CompleteIsWhole ==
  verdict = "complete" /\ reader # "k8slogs" => entries = Wanted

(* What a walk calls truncated was cut by its bound: it carries exactly as *)
(* many entries as the bound allows.  And of cloudwatch's, whose probes    *)
(* filter, an entry the collect would have kept really was left behind, so *)
(* a bound equal to what the source holds does not disable deletions.      *)
TruncatedLeftSome ==
  verdict = "truncated" =>
    /\ reader # "k8slogs" => bound > 0 /\ Cardinality(entries) = bound
    /\ reader = "cloudwatch" => entries # Wanted

(* The walk ends: every request moves the cursor, or is the last, or is    *)
(* one of the service's empty pages.                                       *)
Terminates == <>(pc = "returned")
=============================================================================
