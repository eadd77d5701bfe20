------------------------- MODULE BoundedRead_proof -------------------------
(***************************************************************************)
(* Proofs about BoundedRead and PodLogs, for every number of groups (or    *)
(* containers) and events, every bound and byte limit, every page limit    *)
(* and width of the limit field.                                           *)
(***************************************************************************)
EXTENDS PodLogs, FiniteSetTheorems, FunctionTheorems, TLAPS

(* The events the walk has gone past.                                      *)
Behind(e) ==
  \/ e[1] < group
  \/ pc # "group" /\ e[1] = group /\ e[2] <= cursor

InGroup ==
  pc \in {"page", "probe", "ask", "pull"} =>
    group \in 1..Groups /\ cursor <= held[group]

OneScope ==
  pc = "pull" => group = 1 /\ \A g \in 2..Groups : held[g] = 0

(* Until the walk returns, what it went past and should keep, it keeps.    *)
NothingSkipped ==
  pc # "returned" => \A e \in Wanted : Behind(e) => e \in entries

IInv ==
  /\ TypeOK
  /\ keeps = Wanted
  /\ pc # "returned" => verdict = "none"
  /\ InGroup
  /\ OneScope
  /\ NothingSkipped
  /\ CompleteIsWhole

USE GroupsAssumption, EventsAssumption, BoundsAssumption, LimitAssumption,
    EmptyAssumption

(* The limit field holds what is smaller than a page.                      *)
LEMMA PageSizeInPage == \A n \in Nat : PageSize(n) \in 1..PageLimit
<1> SUFFICES ASSUME NEW n \in Nat PROVE PageSize(n) \in 1..PageLimit
  OBVIOUS
<1>1. n < HalfRange => Narrow(n) = n
  BY DEF Narrow
<1> QED BY <1>1 DEF PageSize

LEMMA FiniteEvents == \A s \in SUBSET Events : IsFiniteSet(s) /\ Cardinality(s) \in Nat
<1>1. IsFiniteSet(1..Groups) /\ IsFiniteSet(1..MaxEvents)
  BY FS_Interval
<1>2. IsFiniteSet(Events)
  BY <1>1, FS_Product DEF Events
<1> QED BY <1>2, FS_Subset, FS_CardinalityType

(* The first n of no more than n events are all of them.                   *)
LEMMA FirstIsAll ==
  ASSUME NEW s \in SUBSET Events, NEW n \in Int, Cardinality(s) <= n
  PROVE  First(n, s) = s
<1>1. ASSUME NEW e \in s
      PROVE  Cardinality({f \in s : f[2] <= e[2]}) <= n
  <2>1. IsFiniteSet(s) /\ Cardinality(s) \in Nat
    BY FiniteEvents
  <2>2. {f \in s : f[2] <= e[2]} \in SUBSET s
    OBVIOUS
  <2>3. Cardinality({f \in s : f[2] <= e[2]}) <= Cardinality(s)
        /\ Cardinality({f \in s : f[2] <= e[2]}) \in Nat
    BY <2>1, <2>2, FS_Subset, FS_CardinalityType
  <2> QED BY <2>1, <2>3
<1> QED BY <1>1 DEF First

LEMMA InitInv == Init => IInv
<1> SUFFICES ASSUME Init PROVE IInv
  OBVIOUS
<1>1. ctxDone \in BOOLEAN
  BY Zenon DEF Init
<1>2. keeps \in SUBSET {e \in Events : e[2] <= held[e[1]]}
  BY DEF Init
<1>3. keeps \in SUBSET Events /\ keeps = Wanted
  BY <1>2 DEF Wanted
<1>4. verdict = "none" /\ cursor = 0 /\ entries = {}
      /\ group = 1 /\ held \in [1..Groups -> 0..MaxEvents]
  BY DEF Init
<1>a. reader \in {"cloudwatch", "stackdriver", "k8slogs"}
  BY ReadersAssumption DEF Init
<1>b. pc \in {"group", "pull", "list"}
  <2>1. CASE reader = "cloudwatch"
    BY <2>1 DEF Init
  <2>2. CASE reader = "stackdriver"
    BY <2>2 DEF Init
  <2>3. CASE reader = "k8slogs"
    BY <2>3 DEF Init
  <2> QED BY <1>a, <2>1, <2>2, <2>3
<1>5. TypeOK
  <2>1. /\ reader \in Readers /\ bound \in Bounds /\ remaining = 0 /\ limit = PageLimit
        /\ empties = 0
    BY DEF Init
  <2> QED BY <1>1, <1>3, <1>4, <1>b, <2>1 DEF TypeOK
<1>6. InGroup /\ CompleteIsWhole
  BY <1>4, <1>b DEF InGroup, CompleteIsWhole
<1>7. OneScope
  <2>1. pc = "pull" => reader = "stackdriver"
    BY ReadersAssumption DEF Init
  <2> QED BY <2>1, <1>4 DEF Init, OneScope
<1>8. NothingSkipped
  <2>1. \A e \in Wanted : e[1] \in 1..Groups /\ e[2] \in 1..MaxEvents
    BY <1>3 DEF Events
  <2> QED BY <2>1, <1>4 DEF NothingSkipped, Behind
<1> QED BY <1>3, <1>4, <1>5, <1>6, <1>7, <1>8 DEF IInv

(* What an answer brings: the wanted events it goes past are those kept of *)
(* its page, and without a token it goes past the whole group.             *)
LEMMA PageFacts ==
  ASSUME IInv, pc \in {"page", "probe", "ask", "pull"},
         NEW n \in Nat, n <= held[group] - cursor
  PROVE  /\ cursor + n \in 0..MaxEvents
         /\ cursor + n <= held[group]
         /\ Kept(n) \in SUBSET Wanted
         /\ \A e \in Wanted :
              e[1] < group \/ (e[1] = group /\ e[2] <= cursor + n) =>
                e \in entries \/ e \in Kept(n)
         /\ cursor + n = held[group] =>
              \A e \in Wanted : e[1] < group + 1 =>
                e[1] < group \/ (e[1] = group /\ e[2] <= cursor + n)
<1>1. group \in 1..Groups /\ cursor \in Nat /\ held[group] \in 0..MaxEvents
  BY DEF IInv, InGroup, TypeOK
<1>2. keeps = Wanted /\ keeps \in SUBSET Events
  BY DEF IInv, TypeOK
<1>3. \A e \in Wanted : /\ e[1] \in 1..Groups
                       /\ e[2] \in 1..MaxEvents
                       /\ e = <<e[1], e[2]>>
                       /\ e[2] <= held[e[1]]
  BY <1>2 DEF Events, Wanted
<1>4. Kept(n) \in SUBSET Wanted
  BY <1>2 DEF Kept
<1>5. ASSUME NEW e \in Wanted, e[1] < group \/ (e[1] = group /\ e[2] <= cursor + n)
      PROVE  e \in entries \/ e \in Kept(n)
  <2>1. CASE e[1] < group \/ e[2] <= cursor
    BY <1>5, <2>1 DEF IInv, NothingSkipped, Behind
  <2>2. CASE ~(e[1] < group \/ e[2] <= cursor)
    <3>1. e[1] = group /\ e[2] \in (cursor + 1)..(cursor + n)
      BY <1>1, <1>3, <1>5, <2>2
    <3>2. e \in Page(n)
      BY <1>3, <3>1 DEF Page
    <3> QED BY <1>2, <3>2 DEF Kept
  <2> QED BY <2>1, <2>2
<1> QED BY <1>1, <1>3, <1>4, <1>5

(* Where a walk that has looked into every group and kept all it should    *)
(* ends, it ends whole.                                                    *)
LEMMA WholeAtTheEnd ==
  ASSUME IInv, \A e \in Wanted : e \in entries
  PROVE  entries = Wanted
BY DEF IInv, TypeOK

LEMMA NextInv == IInv /\ [Next]_vars => IInv'
<1> SUFFICES ASSUME IInv, [Next]_vars PROVE IInv'
  OBVIOUS
<1> USE DEF IInv, Answer, source
<1>a. /\ UNCHANGED source => Wanted' = Wanted
      /\ \A e \in Wanted : e[1] \in 1..Groups /\ e[2] \in 1..MaxEvents
  BY DEF Wanted, TypeOK, Events
<1>b. Cardinality(entries) \in Nat
  <2>1. entries \in SUBSET Events
    BY DEF TypeOK
  <2> QED BY <2>1, FiniteEvents
<1>1. CASE NextGroup
  <2>1. UNCHANGED <<source, ctxDone, group, empties, entries>> /\ pc = "group"
        /\ verdict = "none"
    BY <1>1 DEF NextGroup
  <2>2. \A e \in Wanted : e[1] < group => e \in entries
    BY <2>1 DEF NothingSkipped, Behind
  <2>3. CASE group > Groups /\ Answer("complete") /\ UNCHANGED <<cursor, remaining, limit>>
    <3>1. entries = Wanted
      BY <1>a, <2>2, <2>3, WholeAtTheEnd DEF TypeOK
    <3> QED BY <1>a, <2>1, <2>3, <3>1
            DEF TypeOK, InGroup, OneScope, NothingSkipped, CompleteIsWhole
  <2>4. CASE /\ group <= Groups /\ cursor' = 0 /\ pc' \in {"ask", "page"}
             /\ UNCHANGED verdict
             /\ remaining' \in Nat /\ limit' \in 1..PageLimit
    <3>1. TypeOK'
      BY <1>a, <2>1, <2>4 DEF TypeOK
    <3>2. InGroup'
      BY <2>1, <2>4 DEF TypeOK, InGroup
    <3>3. NothingSkipped'
      BY <1>a, <2>1, <2>2, <2>4 DEF NothingSkipped, Behind, TypeOK
    <3> QED BY <1>a, <2>1, <2>4, <3>1, <3>2, <3>3 DEF OneScope, CompleteIsWhole
  <2>5. CASE group <= Groups /\ Spent /\ pc' = "ask" /\ cursor' = 0
             /\ limit' = PageSize(1) /\ UNCHANGED <<remaining, verdict>>
    BY <2>4, <2>5, PageSizeInPage DEF TypeOK
  <2>6. CASE /\ group <= Groups /\ ~Spent /\ pc' = "page" /\ cursor' = 0
             /\ remaining' = (IF bound > 0 THEN bound - Cardinality(entries) ELSE 0)
             /\ limit' = PageSize(remaining')
             /\ UNCHANGED verdict
    <3>1. bound \in Nat
      BY DEF TypeOK
    <3>2. remaining' \in Nat
      BY <1>b, <2>6, <3>1 DEF Spent
    <3> QED BY <2>4, <2>6, <3>2, PageSizeInPage
  <2> QED BY <1>1, <2>3, <2>5, <2>6 DEF NextGroup
<1>2. CASE ReadPage
  <2>1. UNCHANGED <<source, ctxDone, remaining>> /\ pc = "page" /\ verdict = "none"
    BY <1>2 DEF ReadPage
  <2>2. PICK n \in 0..MaxEvents, live \in BOOLEAN :
          /\ Delivers(n, live)
          /\ \/ CloseAtBudget(n, live)
             \/ /\ entries' = entries \cup Kept(n)
                /\ cursor' = cursor + n
                /\ group' = IF live THEN group ELSE group + 1
                /\ pc' = IF live THEN "page" ELSE "group"
                /\ UNCHANGED <<limit, verdict>>
    BY <1>2 DEF ReadPage
  <2>3. n \in Nat /\ n <= held[group] - cursor /\ empties' \in 0..MaxEmpty
        /\ (live \/ cursor + n = held[group])
    BY <2>2 DEF Delivers, TypeOK
  <2>4. /\ cursor + n \in 0..MaxEvents
        /\ cursor + n <= held[group]
        /\ Kept(n) \in SUBSET Wanted
        /\ \A e \in Wanted :
             e[1] < group \/ (e[1] = group /\ e[2] <= cursor + n) =>
               e \in entries \/ e \in Kept(n)
        /\ cursor + n = held[group] =>
             \A e \in Wanted : e[1] < group + 1 =>
               e[1] < group \/ (e[1] = group /\ e[2] <= cursor + n)
    BY <2>1, <2>3, PageFacts
  <2>5. group \in 1..Groups
    BY <2>1 DEF InGroup
  <2>6. CASE /\ entries' = entries \cup Kept(n)
             /\ cursor' = cursor + n
             /\ \/ live /\ group' = group /\ pc' \in {"page", "probe"}
                \/ ~live /\ group' = group + 1 /\ pc' = "group"
             /\ limit' \in 1..PageLimit
             /\ UNCHANGED verdict
    <3>1. TypeOK'
      <4>1. entries' \in SUBSET Wanted'
        BY <1>a, <2>1, <2>4, <2>6 DEF TypeOK
      <4>2. group' \in 1..(Groups + 1) /\ pc' \in {"group", "page", "probe"}
        BY <2>5, <2>6
      <4> QED BY <2>1, <2>3, <2>4, <2>6, <4>1, <4>2 DEF TypeOK
    <3>2. InGroup'
      BY <2>1, <2>4, <2>5, <2>6 DEF InGroup
    <3>3. NothingSkipped'
      <4>1. CASE live
        BY <1>a, <2>1, <2>4, <2>6, <4>1 DEF NothingSkipped, Behind
      <4>2. CASE ~live
        BY <1>a, <2>1, <2>3, <2>4, <2>6, <4>2 DEF NothingSkipped, Behind
      <4> QED BY <4>1, <4>2
    <3> QED BY <1>a, <2>1, <2>6, <3>1, <3>2, <3>3 DEF OneScope, CompleteIsWhole
  <2>7. CASE CloseAtBudget(n, live)
    <3> DEFINE take == remaining - Cardinality({e \in entries : e[1] = group})
    <3>1. Kept(n) \in SUBSET Events
      BY <2>4 DEF TypeOK
    <3>2. First(take, Kept(n)) \in SUBSET Kept(n)
      BY DEF First
    <3>3. CASE Cardinality(Kept(n)) > take /\ Answer("truncated") /\ UNCHANGED <<group, limit>>
      <4>1. entries' \in SUBSET Wanted' /\ cursor' = cursor + n
        BY <1>a, <2>1, <2>4, <2>7, <3>2 DEF TypeOK, CloseAtBudget
      <4> QED BY <1>a, <2>1, <2>3, <2>4, <3>3, <4>1
              DEF TypeOK, InGroup, OneScope, NothingSkipped, CompleteIsWhole
    <3>4. CASE Cardinality(Kept(n)) <= take
      <4>1. take \in Int
        <5>1. {e \in entries : e[1] = group} \in SUBSET Events
          BY DEF TypeOK
        <5> QED BY <5>1, FiniteEvents DEF TypeOK
      <4>2. First(take, Kept(n)) = Kept(n)
        BY <3>1, <3>4, <4>1, FirstIsAll
      <4>3. entries' = entries \cup Kept(n) /\ cursor' = cursor + n
        BY <2>7, <4>2 DEF CloseAtBudget
      <4>4. Cardinality(Kept(n)) \in Nat
        BY <3>1, FiniteEvents
      <4>5. \/ live /\ pc' = "probe" /\ limit' = 1 /\ UNCHANGED <<group, verdict>>
            \/ ~live /\ group' = group + 1 /\ pc' = "group" /\ UNCHANGED <<verdict, limit>>
        BY <2>7, <3>4, <4>1, <4>4 DEF CloseAtBudget
      <4>6. limit' \in 1..PageLimit
        BY <4>5 DEF TypeOK
      <4> QED BY <2>6, <4>3, <4>5, <4>6
    <3> QED BY <2>7, <3>3, <3>4 DEF CloseAtBudget
  <2>8. CASE /\ entries' = entries \cup Kept(n)
             /\ cursor' = cursor + n
             /\ group' = IF live THEN group ELSE group + 1
             /\ pc' = IF live THEN "page" ELSE "group"
             /\ UNCHANGED <<limit, verdict>>
    <3>1. limit' \in 1..PageLimit
      BY <2>8 DEF TypeOK
    <3> QED BY <2>6, <2>8, <3>1
  <2> QED BY <2>2, <2>7, <2>8
<1>3. CASE ProbeCursor
  <2>1. UNCHANGED <<source, ctxDone, remaining, limit, entries>> /\ pc = "probe"
        /\ verdict = "none"
    BY <1>3 DEF ProbeCursor
  <2>2. PICK n \in 0..MaxEvents, live \in BOOLEAN :
          /\ Delivers(n, live)
          /\ cursor' = cursor + n
          /\ \/ /\ Kept(n) # {}
                /\ Answer("truncated")
                /\ UNCHANGED group
             \/ /\ Kept(n) = {}
                /\ group' = IF live THEN group ELSE group + 1
                /\ pc' = IF live THEN "probe" ELSE "group"
                /\ UNCHANGED verdict
    BY <1>3 DEF ProbeCursor, HoldsAnEntry, Advance
  <2>3. n \in Nat /\ n <= held[group] - cursor /\ empties' \in 0..MaxEmpty
        /\ (live \/ cursor + n = held[group])
    BY <2>2 DEF Delivers, TypeOK
  <2>4. /\ cursor + n \in 0..MaxEvents
        /\ cursor + n <= held[group]
        /\ \A e \in Wanted :
             e[1] < group \/ (e[1] = group /\ e[2] <= cursor + n) =>
               e \in entries \/ e \in Kept(n)
        /\ cursor + n = held[group] =>
             \A e \in Wanted : e[1] < group + 1 =>
               e[1] < group \/ (e[1] = group /\ e[2] <= cursor + n)
    BY <2>1, <2>3, PageFacts
  <2>5. group \in 1..Groups
    BY <2>1 DEF InGroup
  <2>6. TypeOK'
    <3>1. group' \in 1..(Groups + 1) /\ pc' \in {"group", "probe", "returned"}
          /\ verdict' \in {"none", "truncated"}
      BY <2>1, <2>2, <2>5
    <3> QED BY <1>a, <2>1, <2>2, <2>3, <2>4, <3>1 DEF TypeOK
  <2>7. InGroup'
    BY <2>1, <2>2, <2>4, <2>5 DEF InGroup
  <2>8. NothingSkipped'
    <3>1. CASE live
      BY <1>a, <2>1, <2>2, <2>4, <3>1 DEF NothingSkipped, Behind
    <3>2. CASE ~live
      BY <1>a, <2>1, <2>2, <2>3, <2>4, <3>2 DEF NothingSkipped, Behind
    <3> QED BY <3>1, <3>2
  <2> QED BY <1>a, <2>1, <2>2, <2>6, <2>7, <2>8 DEF OneScope, CompleteIsWhole
<1>4. CASE AskGroup
  <2>1. UNCHANGED <<source, ctxDone, remaining, limit, entries>> /\ pc = "ask"
        /\ verdict = "none"
    BY <1>4 DEF AskGroup
  <2>2. PICK n \in 0..MaxEvents, live \in BOOLEAN :
          /\ Delivers(n, live)
          /\ \/ /\ Kept(n) # {}
                /\ Answer("truncated")
                /\ cursor' = cursor + n
                /\ UNCHANGED group
             \/ /\ Kept(n) = {}
                /\ cursor' = cursor + n
                /\ UNCHANGED <<pc, group, verdict>>
             \/ /\ Kept(n) = {}
                /\ ~live
                /\ group < Groups
                /\ group' = group + 1
                /\ cursor' = 0
                /\ UNCHANGED <<pc, verdict>>
             \/ /\ Kept(n) = {}
                /\ ~live
                /\ group = Groups
                /\ Answer("complete")
                /\ cursor' = cursor + n
                /\ UNCHANGED group
    BY <1>4 DEF AskGroup, HoldsAnEntry, Advance
  <2>3. n \in Nat /\ n <= held[group] - cursor /\ empties' \in 0..MaxEmpty
        /\ (live \/ cursor + n = held[group])
    BY <2>2 DEF Delivers, TypeOK
  <2>4. /\ cursor + n \in 0..MaxEvents
        /\ cursor + n <= held[group]
        /\ \A e \in Wanted :
             e[1] < group \/ (e[1] = group /\ e[2] <= cursor + n) =>
               e \in entries \/ e \in Kept(n)
        /\ cursor + n = held[group] =>
             \A e \in Wanted : e[1] < group + 1 =>
               e[1] < group \/ (e[1] = group /\ e[2] <= cursor + n)
    BY <2>1, <2>3, PageFacts
  <2>5. group \in 1..Groups
    BY <2>1 DEF InGroup
  <2>6. TypeOK'
    <3>1. group' \in 1..(Groups + 1) /\ pc' \in {"ask", "returned"}
          /\ verdict' \in {"none", "truncated", "complete"}
          /\ cursor' \in 0..MaxEvents
      BY <2>1, <2>2, <2>4, <2>5
    <3> QED BY <1>a, <2>1, <2>3, <3>1 DEF TypeOK
  <2>7. InGroup'
    <3>1. \A g \in 1..Groups : held[g] \in 0..MaxEvents
      BY DEF TypeOK
    <3> QED BY <2>1, <2>2, <2>4, <2>5, <3>1 DEF InGroup
  <2>8. CASE ~live /\ Kept(n) = {}
    <3>1. \A e \in Wanted : e[1] < group + 1 => e \in entries
      BY <2>3, <2>4, <2>8
    <3>2. NothingSkipped'
      BY <1>a, <2>1, <2>2, <2>4, <2>5, <2>8, <3>1 DEF NothingSkipped, Behind
    <3>3. CompleteIsWhole'
      <4>1. group = Groups => entries = Wanted
        BY <1>a, <3>1, WholeAtTheEnd
      <4> QED BY <1>a, <2>1, <2>2, <4>1 DEF CompleteIsWhole
    <3> QED BY <1>a, <2>1, <2>2, <2>6, <2>7, <3>2, <3>3 DEF OneScope
  <2>9. CASE live \/ Kept(n) # {}
    <3>1. NothingSkipped'
      BY <1>a, <2>1, <2>2, <2>4, <2>9 DEF NothingSkipped, Behind
    <3> QED BY <1>a, <2>1, <2>2, <2>6, <2>7, <2>9, <3>1 DEF OneScope, CompleteIsWhole
  <2> QED BY <2>8, <2>9
<1>5. CASE PullEntry
  <2>1. UNCHANGED <<source, ctxDone, group, remaining, limit, empties>> /\ pc = "pull"
        /\ verdict = "none"
    BY <1>5 DEF PullEntry
  <2>2. group = 1 /\ 1 \in 1..Groups /\ cursor \in Nat /\ cursor <= held[group]
        /\ held[group] \in 0..MaxEvents /\ \A g \in 2..Groups : held[g] = 0
    BY <2>1 DEF OneScope, InGroup, TypeOK
  <2>3. CASE cursor = held[group] /\ Answer("complete") /\ UNCHANGED <<cursor, entries>>
    <3>1. \A e \in Wanted : e[1] = 1 /\ e[2] <= held[1]
      BY <1>a, <2>2 DEF Wanted, TypeOK
    <3>2. entries = Wanted
      BY <2>1, <2>2, <2>3, <3>1, WholeAtTheEnd DEF NothingSkipped, Behind
    <3> QED BY <1>a, <2>1, <2>3, <3>2
            DEF TypeOK, InGroup, OneScope, NothingSkipped, CompleteIsWhole
  <2>4. CASE cursor < held[group] /\ cursor' = cursor + 1
             /\ entries' = entries \cup Kept(1) /\ UNCHANGED <<pc, verdict>>
    <3>1. /\ cursor + 1 \in 0..MaxEvents
          /\ cursor + 1 <= held[group]
          /\ Kept(1) \in SUBSET Wanted
          /\ \A e \in Wanted :
               e[1] < group \/ (e[1] = group /\ e[2] <= cursor + 1) =>
                 e \in entries \/ e \in Kept(1)
      BY <2>1, <2>2, <2>4, PageFacts
    <3>2. entries' \in SUBSET Wanted'
      BY <1>a, <2>1, <2>4, <3>1 DEF TypeOK
    <3>3. TypeOK'
      BY <2>1, <2>4, <3>1, <3>2 DEF TypeOK
    <3>4. NothingSkipped'
      BY <1>a, <2>1, <2>4, <3>1 DEF NothingSkipped, Behind
    <3> QED BY <1>a, <2>1, <2>2, <2>4, <3>1, <3>3, <3>4
            DEF InGroup, OneScope, CompleteIsWhole
  <2> QED BY <1>5, <2>3, <2>4 DEF PullEntry
<1>6. CASE Peek
  <2>1. UNCHANGED <<source, ctxDone, group, cursor, remaining, limit, empties, entries>>
        /\ pc = "pull" /\ pc' = "returned"
        /\ (verdict' = "truncated" \/ (verdict' = "complete" /\ cursor = held[group]))
    BY <1>6 DEF Peek
  <2>2. cursor = held[group] => entries = Wanted
    <3>1. group = 1 /\ \A g \in 2..Groups : held[g] = 0
      BY <2>1 DEF OneScope
    <3>2. \A e \in Wanted : e[1] = 1 /\ e[2] <= held[1]
      BY <1>a, <3>1 DEF Wanted, TypeOK
    <3> QED BY <2>1, <3>1, <3>2, WholeAtTheEnd DEF NothingSkipped, Behind
  <2> QED BY <1>a, <2>1, <2>2
          DEF TypeOK, InGroup, OneScope, NothingSkipped, CompleteIsWhole
<1>7. CASE Failed
  BY <1>7, <1>a DEF Failed, RequestFails, PullFails, TypeOK, InGroup, OneScope,
                    NothingSkipped, CompleteIsWhole
<1>8. CASE CancelContext
  <2>1. ctxDone' \in BOOLEAN
        /\ UNCHANGED <<source, pc, group, cursor, remaining, limit, empties, entries, verdict>>
    BY <1>8 DEF CancelContext
  <2> QED BY <1>a, <2>1 DEF TypeOK, InGroup, OneScope, NothingSkipped, Behind,
                            CompleteIsWhole
<1>9. CASE UNCHANGED vars
  BY <1>9, <1>a DEF vars, TypeOK, InGroup, OneScope, NothingSkipped, Behind,
                    CompleteIsWhole
<1> QED
  BY <1>1, <1>2, <1>3, <1>4, <1>5, <1>6, <1>7, <1>8, <1>9
  DEF Next, Answered, Done

(* The walk's state has its type; in particular no request of fetch.go     *)
(* asks for less than one event or more than a page, whatever the bound    *)
(* and however narrow the field.                                           *)
THEOREM TypeCorrect == Spec => []TypeOK
<1>1. IInv => TypeOK
  BY DEF IInv
<1> QED BY InitInv, NextInv, <1>1, PTL DEF Spec

(* A complete walk of fetchAll or drainEntries carries every event its     *)
(* filters keep, wherever the bound fell.                                  *)
THEOREM CompleteCarriesAll == Spec => []CompleteIsWhole
<1>1. IInv => CompleteIsWhole
  BY DEF IInv
<1> QED BY InitInv, NextInv, <1>1, PTL DEF Spec
-----------------------------------------------------------------------------
(* What k8s-logs adds to the state has its type, and is only used by it.   *)
PodTypes ==
  /\ limitBytes \in Nat
  /\ from \in Nat
  /\ pc \in {"list", "open", "line"} => reader = "k8slogs" /\ verdict = "none"
  /\ reader = "k8slogs" => pc \in {"list", "open", "line", "returned"}

(* The tail the apiserver sends begins where the bound says.               *)
InStream ==
  /\ pc \in {"open", "line"} => group \in 1..Groups
  /\ pc = "line" => from = TailCut(group) /\ cursor \in from..held[group]

(* What is carried is of the containers the walk has gone past.            *)
NothingAhead == pc \in {"list", "open", "line"} => \A e \in entries : e[1] < group

(* The events of one container, and those of a stream cut after line k.    *)
Of(s, g) == {e \in s : e[1] = g}
StreamTo(g, k) == {e \in Of(Wanted, g) : TailCut(g) < e[2] /\ e[2] <= k}

(* Of container g the walk carries the window, or a stream that was cut    *)
(* short.                                                                  *)
Told(g) ==
  \/ Of(entries, g) = Of(Wanted, g)
  \/ \E k \in 0..held[g] : ShortCut(g, k) /\ Of(entries, g) = StreamTo(g, k)

(* While no container gave a reason, all behind the walk is told.          *)
NoReasonNoLoss ==
  pc \in {"list", "open", "line"} /\ incomplete = {} =>
    \A g \in 1..Groups : g < group => Told(g)

PInv ==
  /\ TypeOK
  /\ keeps = Wanted
  /\ PodTypes
  /\ InStream
  /\ NothingAhead
  /\ NoReasonNoLoss
  /\ CompleteIsWhole
  /\ CompleteButForShortCuts
  /\ reader # "k8slogs" => IInv

USE ByteLimitsAssumption, ByteSlackAssumption

LEMMA CompleteIsTold ==
  CompleteButForShortCuts <=>
    (verdict = "complete" /\ reader = "k8slogs" => \A g \in 1..Groups : Told(g))
BY DEF CompleteButForShortCuts, Told, Of, StreamTo

(* The source and the byte limit stay, so what was told is.                *)
LEMMA ToldOf ==
  ASSUME UNCHANGED <<source, limitBytes>>, NEW g,
         \/ Of(entries', g) = Of(Wanted, g)
         \/ \E k \in 0..held[g] : ShortCut(g, k) /\ Of(entries', g) = StreamTo(g, k)
  PROVE  Told(g)'
<1>1. held' = held /\ Wanted' = Wanted /\ TailCut(g)' = TailCut(g)
  BY DEF source, Wanted, TailCut
<1>2. \A k : ShortCut(g, k)' <=> ShortCut(g, k)
  BY <1>1 DEF ShortCut
<1>3. \A k : StreamTo(g, k)' = StreamTo(g, k)
  BY <1>1 DEF StreamTo
<1>4. Of(entries, g)' = Of(entries', g) /\ Of(Wanted, g)' = Of(Wanted, g)
  BY <1>1 DEF Of
<1> QED BY <1>1, <1>2, <1>3, <1>4 DEF Told

LEMMA ToldStays ==
  ASSUME UNCHANGED <<source, limitBytes>>, NEW g, Of(entries', g) = Of(entries, g), Told(g)
  PROVE  Told(g)'
BY ToldOf DEF Told

LEMMA PodInitInv == PodInit => PInv
<1> SUFFICES ASSUME PodInit PROVE PInv
  OBVIOUS
<1>1. IInv
  BY InitInv DEF PodInit
<1>2. /\ pc \in {"group", "pull", "list"} /\ (pc = "list" <=> reader = "k8slogs")
      /\ verdict = "none" /\ group = 1
  BY ReadersAssumption DEF PodInit, Init
<1>3. PodTypes
  BY <1>2 DEF PodInit, PodTypes
<1>4. NoReasonNoLoss
  BY <1>2 DEF NoReasonNoLoss
<1>5. NothingAhead
  BY DEF PodInit, Init, NothingAhead
<1>6. CompleteButForShortCuts
  BY <1>2 DEF CompleteButForShortCuts
<1> QED BY <1>1, <1>2, <1>3, <1>4, <1>5, <1>6 DEF PInv, IInv, InStream

(* A stream that ended without a bound engaged was the whole log, or was   *)
(* cut short.                                                              *)
LEMMA WholeStream ==
  ASSUME PInv, pc = "line", StreamMayEnd, ~BoundEngaged
  PROVE  \/ from = 0 /\ cursor = held[group]
         \/ ShortCut(group, cursor)
<1>1. /\ group \in 1..Groups /\ held[group] \in Nat /\ cursor \in Nat /\ from \in Nat
      /\ bound \in Nat /\ limitBytes \in Nat /\ ByteSlack \in Nat
      /\ from = TailCut(group) /\ from <= cursor /\ cursor <= held[group]
  BY DEF PInv, TypeOK, PodTypes, InStream
<1>2. CASE cursor = held[group]
  <2>1. from = 0
    BY <1>1, <1>2 DEF TailCut, BoundEngaged, Least
  <2> QED BY <1>2, <2>1
<1>3. CASE /\ limitBytes > 0
           /\ cursor - from \in (limitBytes - ByteSlack)..(limitBytes + ByteSlack)
  BY <1>1, <1>3 DEF ShortCut, BoundEngaged
<1> QED BY <1>2, <1>3 DEF StreamMayEnd

(* With no line skipped, what scanLog kept is the stream.                  *)
LEMMA LinesAll ==
  ASSUME PInv, ~Skipped, from = TailCut(group), group \in 1..Groups, from \in Nat,
         cursor \in from..held[group]
  PROVE  Lines(group) = StreamTo(group, cursor)
<1>1. cursor \in Nat /\ keeps = Wanted /\ Wanted \in SUBSET Events
  BY DEF PInv, TypeOK
<1>2. ASSUME NEW e \in Wanted, e[1] = group, e[2] \in (from + 1)..cursor
      PROVE  e \notin garbled
  <2>1. e = <<group, e[2]>>
    BY <1>1, <1>2 DEF Events
  <2> QED BY <1>2, <2>1 DEF Skipped
<1>3. \A e \in Wanted : e[2] \in Nat
  BY <1>1 DEF Events
<1>4. \A e \in Wanted : e[2] \in (from + 1)..cursor <=> (from < e[2] /\ e[2] <= cursor)
  BY <1>1, <1>3
<1> QED BY <1>1, <1>2, <1>4 DEF Lines, StreamTo, Of

LEMMA ReadPodsInv == PInv /\ ReadPods => PInv'
<1> SUFFICES ASSUME PInv, ReadPods PROVE PInv'
  OBVIOUS
<1> USE DEF PInv, Answer, source
<1>1. /\ pc \in {"list", "open", "line"} /\ reader = "k8slogs" /\ verdict = "none"
      /\ UNCHANGED <<source, ctxDone, remaining, limit, empties, limitBytes, garbled>>
  BY DEF ReadPods, ListNamespace, OpenStream, ScanLine, StreamEnds, StreamFails,
         Completeness, PodTypes, podVars
<1>2. /\ Wanted' = Wanted
      /\ \A e \in Wanted : e[1] \in 1..Groups /\ e[2] \in 1..MaxEvents
                           /\ e[2] <= held[e[1]]
  BY <1>1 DEF Wanted, TypeOK, Events
<1>3. CompleteIsWhole'
  BY <1>1 DEF CompleteIsWhole
<1>b. PInv' <=> /\ TypeOK' /\ PodTypes' /\ InStream' /\ NothingAhead' /\ NoReasonNoLoss'
                /\ CompleteButForShortCuts'
  BY <1>1, <1>2, <1>3
<1>c. ASSUME verdict' # "complete" PROVE CompleteButForShortCuts'
  BY <1>c DEF CompleteButForShortCuts
<1>d. ASSUME UNCHANGED <<entries, group, incomplete>> PROVE NothingAhead' /\ NoReasonNoLoss'
  <2>1. ASSUME NEW g \in 1..Groups, Told(g) PROVE Told(g)'
    BY <1>1, <1>d, <2>1, ToldStays
  <2> QED BY <1>1, <1>d, <2>1 DEF NothingAhead, NoReasonNoLoss
<1>4. /\ bound \in Nat /\ group \in Nat /\ from \in Nat /\ limitBytes \in Nat
      /\ \A g \in 1..Groups : held[g] \in 0..MaxEvents /\ TailCut(g) \in 0..held[g]
  BY DEF TypeOK, PodTypes, TailCut, Least
<1>5. ASSUME FailsNamespace, UNCHANGED <<entries>>, group \in 1..Groups,
             cursor' \in 0..MaxEvents, from' \in Nat
      PROVE  PInv'
  <2>1. group' \in 1..(Groups + 1) /\ pc' \in {"list", "returned"}
        /\ verdict' \in {"none", "error"} /\ (pc' # "returned" => verdict' = "none")
    BY <1>1, <1>5 DEF FailsNamespace, NextNamespace, TypeOK
  <2>2. TypeOK' /\ PodTypes'
    BY <1>1, <1>2, <1>5, <2>1 DEF TypeOK, PodTypes
  <2>3. pc' = "list" => incomplete' # {} /\ group' = group + 1
    BY <1>1, <1>5 DEF FailsNamespace, NextNamespace
  <2>4. NothingAhead'
    <3>1. \A e \in entries : e[1] < group /\ e[1] \in Nat
      BY <1>1, <1>2 DEF NothingAhead, TypeOK
    <3> QED BY <1>4, <1>5, <2>1, <2>3, <3>1 DEF NothingAhead
  <2> QED BY <1>b, <1>c, <2>1, <2>2, <2>3, <2>4 DEF InStream, NoReasonNoLoss
<1>6. CASE ListNamespace
  <2>1. group \in 1..Groups /\ UNCHANGED <<cursor, entries, from>>
    BY <1>6 DEF ListNamespace, TypeOK
  <2>2. CASE pc' = "open" /\ UNCHANGED <<group, incomplete, verdict>>
    <3>1. TypeOK' /\ PodTypes' /\ InStream'
      BY <1>1, <1>2, <2>1, <2>2 DEF TypeOK, PodTypes, InStream
    <3> QED BY <1>1, <1>b, <1>c, <1>d, <2>1, <2>2, <3>1
  <2>3. CASE FailsNamespace
    <3>1. cursor' \in 0..MaxEvents /\ from' \in Nat
      BY <2>1, <1>4 DEF TypeOK
    <3> QED BY <1>5, <2>1, <2>3, <3>1
  <2> QED BY <1>6, <2>2, <2>3 DEF ListNamespace
<1>7. CASE OpenStream
  <2>1. group \in 1..Groups /\ UNCHANGED entries
    BY <1>7 DEF OpenStream, InStream
  <2>2. CASE /\ pc' = "line" /\ from' = TailCut(group) /\ cursor' = TailCut(group)
             /\ UNCHANGED <<group, incomplete, verdict>>
    <3>1. from' \in Nat /\ cursor' \in 0..MaxEvents /\ cursor' <= held[group]
      BY <1>4, <2>1, <2>2
    <3>2. InStream'
      BY <1>1, <1>4, <2>1, <2>2, <3>1 DEF InStream, TailCut
    <3>3. TypeOK' /\ PodTypes'
      BY <1>1, <1>2, <2>1, <2>2, <3>1 DEF TypeOK, PodTypes
    <3> QED BY <1>1, <1>b, <1>c, <1>d, <2>1, <2>2, <3>2, <3>3
  <2>3. CASE FailsNamespace /\ UNCHANGED <<from, cursor>>
    <3>1. cursor' \in 0..MaxEvents /\ from' \in Nat
      BY <2>3, <1>4 DEF TypeOK
    <3> QED BY <1>5, <2>1, <2>3, <3>1
  <2> QED BY <1>7, <2>2, <2>3 DEF OpenStream
<1>8. CASE ScanLine
  <2>1. /\ pc = "line" /\ cursor < held[group] /\ cursor' = cursor + 1
        /\ UNCHANGED <<pc, group, entries, verdict, from, incomplete>>
    BY <1>8 DEF ScanLine, MoreComes, podVars
  <2>2. group \in 1..Groups /\ from = TailCut(group) /\ cursor \in from..held[group]
    BY <2>1 DEF InStream
  <2>3. cursor + 1 \in from..held[group] /\ cursor + 1 \in 0..MaxEvents
    BY <1>4, <2>1, <2>2
  <2>4. InStream'
    BY <1>1, <2>1, <2>2, <2>3 DEF InStream, TailCut
  <2>5. TypeOK' /\ PodTypes'
    BY <1>1, <1>2, <2>1, <2>3 DEF TypeOK, PodTypes
  <2> QED BY <1>1, <1>b, <1>c, <1>d, <2>1, <2>4, <2>5
<1>9. CASE StreamEnds
  <2>1. /\ pc = "line" /\ StreamMayEnd
        /\ entries' = entries \cup Lines(group)
        /\ incomplete' = IF BoundEngaged \/ Skipped THEN incomplete \cup {group} ELSE incomplete
        /\ group' = group + 1 /\ pc' = "list" /\ verdict' = "none"
        /\ UNCHANGED <<cursor, from>>
    BY <1>1, <1>9 DEF StreamEnds, NextNamespace
  <2>2. group \in 1..Groups /\ from = TailCut(group) /\ cursor \in from..held[group]
    BY <2>1 DEF InStream
  <2>3. Lines(group) \subseteq Wanted /\ \A e \in Lines(group) : e[1] = group
    BY DEF Lines
  <2>4. TypeOK' /\ PodTypes' /\ InStream'
    BY <1>1, <1>2, <2>1, <2>2, <2>3 DEF TypeOK, PodTypes, InStream
  <2>5. \A e \in entries : e[1] \in Nat /\ e[1] < group
    BY <1>2, <2>1 DEF NothingAhead, TypeOK
  <2>6. NothingAhead'
    BY <1>4, <2>1, <2>3, <2>5 DEF NothingAhead
  <2>7. ASSUME incomplete' = {}, NEW g \in 1..Groups, g < group + 1
        PROVE  Told(g)'
    <3>1. ~BoundEngaged /\ ~Skipped /\ incomplete = {}
      BY <2>1, <2>7
    <3>2. CASE g < group
      <4>1. Of(entries', g) = Of(entries, g)
        BY <2>1, <2>3, <3>2, <1>4 DEF Of
      <4> QED BY <1>1, <2>1, <2>7, <3>1, <3>2, <4>1, ToldStays DEF NoReasonNoLoss
    <3>3. CASE g = group
      <4>1. Of(entries', g) = Lines(group)
        BY <1>4, <2>1, <2>3, <2>5, <3>3 DEF Of
      <4>2. Lines(group) = StreamTo(g, cursor)
        BY <1>4, <2>2, <3>1, <3>3, LinesAll
      <4>3. CASE from = 0 /\ cursor = held[group]
        <5>1. StreamTo(g, cursor) = Of(Wanted, g)
          BY <1>2, <2>2, <3>3, <4>3 DEF StreamTo, Of
        <5> QED BY <1>1, <4>1, <4>2, <5>1, ToldOf
      <4>4. CASE ShortCut(group, cursor)
        <5>1. cursor \in 0..held[g]
          BY <1>4, <2>2, <3>3
        <5> QED BY <1>1, <3>3, <4>1, <4>2, <4>4, <5>1, ToldOf
      <4> QED BY <2>1, <3>1, <4>3, <4>4, WholeStream
    <3> QED BY <1>4, <2>7, <3>2, <3>3
  <2>8. NoReasonNoLoss'
    BY <2>1, <2>7 DEF NoReasonNoLoss
  <2> QED BY <1>b, <1>c, <2>1, <2>4, <2>6, <2>8
<1>10. CASE StreamFails
  <2>1. group \in 1..Groups /\ FailsNamespace /\ UNCHANGED <<cursor, entries, from>>
    BY <1>10 DEF StreamFails, InStream
  <2>2. cursor' \in 0..MaxEvents /\ from' \in Nat
    BY <1>4, <2>1 DEF TypeOK
  <2> QED BY <1>5, <2>1, <2>2
<1>11. CASE Completeness
  <2>1. /\ pc = "list" /\ group > Groups /\ pc' = "returned"
        /\ verdict' = IF incomplete = {} THEN "complete" ELSE "truncated"
        /\ UNCHANGED <<group, cursor, entries, podVars>>
    BY <1>11 DEF Completeness
  <2>2. ASSUME incomplete = {}, NEW g \in 1..Groups PROVE Told(g)'
    <3>1. Told(g)
      BY <1>4, <2>1, <2>2 DEF NoReasonNoLoss
    <3> QED BY <1>1, <2>1, <3>1, ToldStays
  <2>3. CompleteButForShortCuts'
    <3>1. verdict' = "complete" => \A g \in 1..Groups : Told(g)'
      BY <2>1, <2>2
    <3> QED BY <3>1 DEF CompleteButForShortCuts, Told, Of, StreamTo
  <2>4. TypeOK' /\ PodTypes'
    BY <1>1, <1>2, <2>1 DEF TypeOK, PodTypes, podVars
  <2> QED BY <1>b, <2>1, <2>3, <2>4 DEF InStream, NothingAhead, NoReasonNoLoss
<1> QED BY <1>6, <1>7, <1>8, <1>9, <1>10, <1>11 DEF ReadPods

LEMMA PodNextInv == PInv /\ [PodNext]_podAll => PInv'
<1> SUFFICES ASSUME PInv, [PodNext]_podAll PROVE PInv'
  OBVIOUS
<1>1. CASE ReadPods
  BY <1>1, ReadPodsInv
<1>2. CASE [Next]_vars /\ UNCHANGED podVars
  <2>1. CASE reader # "k8slogs"
    <3>1. IInv' /\ reader' = reader
      <4>1. IInv'
        BY <1>2, <2>1, NextInv DEF PInv
      <4>2. reader' = reader
        BY <1>2 DEF Next, Answered, Failed, Done, NextGroup, ReadPage, ProbeCursor, AskGroup,
                    PullEntry, Peek, RequestFails, PullFails, CancelContext, source, vars
      <4> QED BY <4>1, <4>2
    <3>2. pc' \notin {"list", "open", "line"}
      <4>1. pc \notin {"list", "open", "line"}
        BY <2>1 DEF PInv, PodTypes
      <4> QED BY <1>2, <4>1
              DEF Next, Answered, Failed, Done, NextGroup, ReadPage, CloseAtBudget, ProbeCursor,
                  AskGroup, PullEntry, Peek, RequestFails, PullFails, CancelContext, Answer, vars
    <3> QED BY <1>2, <2>1, <3>1, <3>2
            DEF PInv, IInv, PodTypes, podVars, InStream, NothingAhead, NoReasonNoLoss,
                CompleteButForShortCuts
  <2>2. CASE reader = "k8slogs"
    <3>1. pc \in {"list", "open", "line", "returned"}
      BY <2>2 DEF PInv, PodTypes
    <3>2. \/ CancelContext
          \/ UNCHANGED vars
      BY <1>2, <3>1 DEF Next, Answered, Failed, Done, NextGroup, ReadPage, ProbeCursor, AskGroup,
                        PullEntry, Peek, RequestFails, PullFails
    <3>3. ctxDone' \in BOOLEAN
          /\ UNCHANGED <<source, pc, group, cursor, remaining, limit, empties, entries, verdict>>
      BY <3>2 DEF CancelContext, vars, PInv, TypeOK
    <3>4. ASSUME NEW g \in 1..Groups, Told(g) PROVE Told(g)'
      BY <1>2, <3>3, <3>4, ToldStays DEF podVars
    <3>5. NothingAhead' /\ NoReasonNoLoss'
      BY <1>2, <3>3, <3>4 DEF PInv, podVars, NothingAhead, NoReasonNoLoss
    <3>6. CompleteButForShortCuts'
      <4>1. verdict = "complete" => \A g \in 1..Groups : Told(g)
        BY <2>2, CompleteIsTold DEF PInv
      <4>2. verdict' = "complete" => \A g \in 1..Groups : Told(g)'
        BY <3>3, <3>4, <4>1
      <4> QED BY <4>2 DEF CompleteButForShortCuts, Told, Of, StreamTo
    <3> QED BY <1>2, <2>2, <3>3, <3>5, <3>6
            DEF PInv, source, podVars, Wanted, TypeOK, PodTypes, InStream, TailCut,
                CompleteIsWhole
  <2> QED BY <2>1, <2>2
<1> QED BY <1>1, <1>2 DEF PodNext, podAll

(* The three walks are well formed, for any source, bounds and byte limits *)
(* and however the requests of each fail.                                  *)
THEOREM PodsTypeCorrect == PodSpec => []TypeOK
<1>1. PInv => TypeOK
  BY DEF PInv
<1> QED BY PodInitInv, PodNextInv, <1>1, PTL DEF PodSpec

(* A complete walk of k8s-logs carries every line of the window of each    *)
(* container, but for one whose stream the apiserver cut short of the byte *)
(* limit: of that it carries the stream without a gap.  A container cut at *)
(* the limit or by the tail bound, one that could not be read and one with *)
(* a line that had no timestamp all end in an incomplete walk.             *)
THEOREM PodsCompleteCarriesAll == PodSpec => []CompleteButForShortCuts
<1>1. PInv => CompleteButForShortCuts
  BY DEF PInv
<1> QED BY PodInitInv, PodNextInv, <1>1, PTL DEF PodSpec
-----------------------------------------------------------------------------
(* The entries of the group being read.                                    *)
Here == {e \in entries : e[1] = group}

(* While cloudwatch reads, it carries nothing of what lies ahead; and what *)
(* the bound leaves of the budget is what is not carried yet.              *)
OnlyBehind == pc \in {"group", "page", "probe", "ask"} => \A e \in entries : Behind(e)

BudgetKept ==
  /\ pc \in {"group", "pull"} /\ bound > 0 => Cardinality(entries) <= bound
  /\ pc \in {"probe", "ask"} => bound > 0 /\ Cardinality(entries) = bound
  /\ pc = "page" =>
       \/ bound = 0 /\ remaining = 0
       \/ /\ Cardinality(Here) < remaining
          /\ Cardinality(entries) + remaining = bound + Cardinality(Here)

PullIsStackdriver == pc = "pull" => reader = "stackdriver"

CutInv ==
  /\ OnlyBehind
  /\ BudgetKept
  /\ PullIsStackdriver
  /\ TruncatedLeftSome

(* Of at least n events of one group, First takes exactly n: each has a    *)
(* rank of its own, so the ranks are 1 to their number.                    *)
LEMMA FirstCounts ==
  ASSUME NEW g, NEW s \in SUBSET Events, \A e \in s : e[1] = g,
         NEW n \in Nat, n <= Cardinality(s)
  PROVE  Cardinality(First(n, s)) = n
<1> DEFINE UpTo(e) == {f \in s : f[2] <= e[2]}
           rank == [e \in s |-> Cardinality(UpTo(e))]
           taken == [e \in First(n, s) |-> rank[e]]
<1>1. IsFiniteSet(s) /\ Cardinality(s) \in Nat
  BY FiniteEvents
<1>2. \A e \in s : e = <<g, e[2]>> /\ e[2] \in Nat
  BY DEF Events
<1>3. ASSUME NEW e \in s
      PROVE  IsFiniteSet(UpTo(e)) /\ Cardinality(UpTo(e)) \in 1..Cardinality(s)
  <2>1. UpTo(e) \in SUBSET s /\ e \in UpTo(e)
    BY <1>2
  <2>2. IsFiniteSet(UpTo(e)) /\ Cardinality(UpTo(e)) <= Cardinality(s)
    BY <1>1, <2>1, FS_Subset
  <2>3. Cardinality(UpTo(e)) \in Nat /\ Cardinality(UpTo(e)) # 0
    BY <2>1, <2>2, FS_CardinalityType, FS_EmptySet
  <2> QED BY <1>1, <2>2, <2>3
<1>4. ASSUME NEW e \in s, NEW f \in s, e[2] < f[2]
      PROVE  rank[e] # rank[f]
  <2>1. UpTo(e) \in SUBSET UpTo(f) /\ f \in UpTo(f) /\ f \notin UpTo(e)
    BY <1>2, <1>4
  <2> QED BY <1>3, <2>1, FS_Subset
<1>5. rank \in Injection(s, 1..Cardinality(s))
  <2>1. rank \in [s -> 1..Cardinality(s)]
    BY <1>3
  <2>2. ASSUME NEW e \in s, NEW f \in s, rank[e] = rank[f] PROVE e = f
    <3>1. e[2] = f[2]
      BY <1>2, <1>4, <2>2
    <3> QED BY <1>2, <3>1
  <2> HIDE DEF rank
  <2> QED BY <2>1, <2>2, Fun_IsInj
<1>6. rank \in Surjection(s, 1..Cardinality(s))
  <2>1. IsFiniteSet(1..Cardinality(s)) /\ Cardinality(1..Cardinality(s)) = Cardinality(s)
    BY <1>1, FS_Interval
  <2> HIDE DEF rank
  <2> QED BY <1>5, <2>1, FS_Injection
<1>7. First(n, s) = {e \in s : rank[e] <= n}
  BY DEF First
<1>8. \A e, f \in s : rank[e] = rank[f] => e = f
  <2> HIDE DEF rank
  <2> QED BY <1>5, Fun_InjectionProperties
<1>9. \A k \in 1..Cardinality(s) : \E e \in s : rank[e] = k
  <2> HIDE DEF rank
  <2> QED BY <1>6, Fun_SurjectionProperties
<1>10. \A e \in s : rank[e] \in 1..Cardinality(s)
  BY <1>3
<1> HIDE DEF rank
<1>11. taken \in Bijection(First(n, s), 1..n)
  <2>1. taken \in [First(n, s) -> 1..n]
    BY <1>7, <1>10
  <2>2. \A e, f \in First(n, s) : taken[e] = taken[f] => e = f
    BY <1>7, <1>8
  <2>3. \A k \in 1..n : \E e \in First(n, s) : taken[e] = k
    BY <1>1, <1>7, <1>9
  <2> HIDE DEF taken
  <2>4. taken \in Injection(First(n, s), 1..n)
    BY <2>1, <2>2, Fun_IsInj
  <2>5. taken \in Surjection(First(n, s), 1..n)
    BY <2>1, <2>3, Fun_IsSurj
  <2> QED BY <2>4, <2>5 DEF Bijection
<1>12. IsFiniteSet(First(n, s))
  BY <1>1, <1>7, FS_Subset
<1>13. Cardinality(1..n) = n
  BY FS_Interval
<1>14. ExistsBijection(First(n, s), 1..n)
  BY <1>11 DEF ExistsBijection
<1> QED BY <1>12, <1>13, <1>14, FS_Bijection

LEMMA CardAdds ==
  ASSUME NEW s \in SUBSET Events, NEW t \in SUBSET Events, s \cap t = {}
  PROVE  Cardinality(s \cup t) = Cardinality(s) + Cardinality(t)
<1>1. IsFiniteSet(s) /\ IsFiniteSet(t) /\ Cardinality(s) \in Nat /\ Cardinality(t) \in Nat
  BY FiniteEvents
<1>2. Cardinality(s \cup t) = Cardinality(s) + Cardinality(t) - Cardinality(s \cap t)
  BY <1>1, FS_Union
<1>3. Cardinality(s \cap t) = 0
  BY FS_EmptySet
<1> QED BY <1>1, <1>2, <1>3

(* What a page brings is wanted, of the group being read, and not carried. *)
LEMMA KeptIsNew ==
  ASSUME IInv, OnlyBehind, pc \in {"page", "probe", "ask"}, NEW n \in Nat
  PROVE  /\ Kept(n) \in SUBSET Wanted /\ Kept(n) \in SUBSET Events
         /\ Kept(n) \cap entries = {}
         /\ \A e \in Kept(n) : e[1] = group /\ cursor < e[2] /\ e[2] <= cursor + n
<1>1. keeps = Wanted /\ keeps \in SUBSET Events /\ cursor \in Nat /\ group \in Nat
  BY DEF IInv, TypeOK
<1>2. \A e \in Kept(n) : e[1] = group /\ cursor < e[2] /\ e[2] <= cursor + n
  BY <1>1 DEF Kept, Page
<1>3. \A e \in entries : ~(e[1] = group /\ cursor < e[2])
  <2>1. \A e \in entries : e[1] \in Nat /\ e[2] \in Nat
    BY <1>1 DEF IInv, TypeOK, Events
  <2> QED BY <1>1, <2>1 DEF OnlyBehind, Behind
<1> QED BY <1>1, <1>2, <1>3 DEF Kept

LEMMA CutInit == Init => CutInv
<1> SUFFICES ASSUME Init PROVE CutInv
  OBVIOUS
<1>1. entries = {} /\ verdict = "none" /\ Cardinality(entries) = 0 /\ bound \in Nat
  <2>1. entries = {} /\ verdict = "none"
    BY DEF Init
  <2>2. bound \in Nat
    BY DEF Init
  <2> QED BY <2>1, <2>2, FS_EmptySet
<1>2. reader \in {"cloudwatch", "stackdriver", "k8slogs"}
  BY ReadersAssumption DEF Init
<1>3. /\ reader = "cloudwatch" => pc = "group"
      /\ reader = "stackdriver" => pc = "pull"
      /\ reader = "k8slogs" => pc = "list"
  BY DEF Init
<1> QED BY <1>1, <1>2, <1>3
        DEF CutInv, OnlyBehind, BudgetKept, PullIsStackdriver, TruncatedLeftSome

LEMMA CutReadPage == IInv /\ CutInv /\ ReadPage => CutInv'
<1> SUFFICES ASSUME IInv, CutInv, ReadPage PROVE CutInv'
  OBVIOUS
<1> DEFINE take == remaining - Cardinality(Here)
<1>1. /\ pc = "page" /\ verdict = "none"
      /\ UNCHANGED <<reader, bound, held, keeps, remaining>>
  BY DEF ReadPage, IInv, source
<1>2. PICK n \in 0..MaxEvents, live \in BOOLEAN :
        LET got == Cardinality(Here) + Cardinality(Kept(n)) IN
        \/ remaining > 0 /\ got >= remaining /\ CloseAtBudget(n, live)
        \/ /\ remaining > 0 => got < remaining
           /\ entries' = entries \cup Kept(n)
           /\ cursor' = cursor + n
           /\ group' = IF live THEN group ELSE group + 1
           /\ pc' = IF live THEN "page" ELSE "group"
           /\ UNCHANGED <<limit, verdict>>
  BY DEF ReadPage, Here
<1>3. /\ Kept(n) \in SUBSET Wanted /\ Kept(n) \in SUBSET Events
      /\ Kept(n) \cap entries = {}
      /\ \A e \in Kept(n) : e[1] = group /\ cursor < e[2] /\ e[2] <= cursor + n
  BY <1>1, KeptIsNew DEF CutInv
<1>4. entries \in SUBSET Events /\ Here \in SUBSET Events
  BY DEF IInv, TypeOK, Here
<1>5. /\ Cardinality(entries) \in Nat /\ Cardinality(Here) \in Nat
      /\ Cardinality(Kept(n)) \in Nat /\ bound \in Nat /\ remaining \in Nat
  <2>1. bound \in Nat /\ remaining \in Nat
    BY DEF IInv, TypeOK
  <2> QED BY <1>3, <1>4, <2>1, FiniteEvents
<1>6. /\ cursor \in Nat /\ group \in Nat
      /\ \A e \in entries : e[1] < group \/ (e[1] = group /\ e[2] <= cursor)
      /\ \A e \in Events : e[1] \in Nat /\ e[2] \in Nat
  BY <1>1 DEF IInv, TypeOK, CutInv, OnlyBehind, Behind, Events
<1>7. \/ bound = 0 /\ remaining = 0
      \/ /\ Cardinality(Here) < remaining
         /\ Cardinality(entries) + remaining = bound + Cardinality(Here)
  BY <1>1 DEF CutInv, BudgetKept
<1>8. CASE /\ remaining > 0 => Cardinality(Here) + Cardinality(Kept(n)) < remaining
           /\ entries' = entries \cup Kept(n)
           /\ cursor' = cursor + n
           /\ group' = IF live THEN group ELSE group + 1
           /\ pc' = IF live THEN "page" ELSE "group"
           /\ UNCHANGED <<limit, verdict>>
  <2>1. Cardinality(entries') = Cardinality(entries) + Cardinality(Kept(n))
    BY <1>3, <1>4, <1>8, CardAdds
  <2>2. OnlyBehind'
    BY <1>3, <1>4, <1>6, <1>8 DEF OnlyBehind, Behind
  <2>3. CASE live
    <3>1. Here' = Here \cup Kept(n)
      BY <1>3, <1>8, <2>3 DEF Here
    <3>2. Cardinality(Here') = Cardinality(Here) + Cardinality(Kept(n))
      BY <1>3, <1>4, <3>1, CardAdds DEF Here
    <3> QED BY <1>1, <1>5, <1>7, <1>8, <2>1, <2>2, <2>3, <3>2
            DEF CutInv, BudgetKept, PullIsStackdriver, TruncatedLeftSome
  <2>4. CASE ~live
    BY <1>1, <1>5, <1>7, <1>8, <2>1, <2>2, <2>4
       DEF CutInv, BudgetKept, PullIsStackdriver, TruncatedLeftSome
  <2> QED BY <2>3, <2>4
<1>9. CASE /\ remaining > 0 /\ Cardinality(Here) + Cardinality(Kept(n)) >= remaining
           /\ CloseAtBudget(n, live)
  <2>1. bound > 0 /\ take \in Nat /\ take <= Cardinality(Kept(n))
        /\ Cardinality(entries) + take = bound
    BY <1>5, <1>7, <1>9
  <2>2. /\ entries' = entries \cup First(take, Kept(n))
        /\ cursor' = cursor + n
    BY <1>9 DEF CloseAtBudget, Here
  <2>3. First(take, Kept(n)) \in SUBSET Kept(n)
    BY DEF First
  <2>4. Cardinality(First(take, Kept(n))) = take
    BY <1>3, <2>1, FirstCounts
  <2>5. Cardinality(entries') = bound
    <3>1. Cardinality(entries') = Cardinality(entries) + Cardinality(First(take, Kept(n)))
      BY <1>3, <1>4, <2>2, <2>3, CardAdds
    <3> QED BY <2>1, <2>4, <3>1
  <2>6. CASE Cardinality(Kept(n)) > take /\ Answer("truncated")
    <3>1. PICK e \in Kept(n) : e \notin First(take, Kept(n))
      <4>1. First(take, Kept(n)) # Kept(n)
        BY <1>5, <2>1, <2>4, <2>6
      <4> QED BY <2>3, <4>1
    <3>2. e \in Wanted' /\ e \notin entries'
      BY <1>1, <1>3, <2>2, <3>1 DEF Wanted
    <3> QED BY <1>1, <2>1, <2>5, <2>6, <3>2
            DEF CutInv, OnlyBehind, BudgetKept, PullIsStackdriver, TruncatedLeftSome, Answer
  <2>7. CASE \/ pc' = "probe" /\ UNCHANGED <<group, verdict>>
             \/ pc' = "group" /\ group' = group + 1 /\ UNCHANGED verdict
    <3>1. OnlyBehind'
      BY <1>3, <1>4, <1>6, <2>2, <2>3, <2>7 DEF OnlyBehind, Behind
    <3> QED BY <1>1, <1>5, <2>1, <2>5, <2>7, <3>1
            DEF CutInv, BudgetKept, PullIsStackdriver, TruncatedLeftSome
  <2> QED BY <1>9, <2>6, <2>7 DEF CloseAtBudget, Here
<1> QED BY <1>2, <1>8, <1>9

LEMMA CutNext == IInv /\ CutInv /\ [Next]_vars => CutInv'
<1> SUFFICES ASSUME IInv, CutInv, [Next]_vars PROVE CutInv'
  OBVIOUS
<1> USE DEF CutInv, Answer, source, PullIsStackdriver
<1>1. /\ entries \in SUBSET Events /\ Cardinality(entries) \in Nat /\ bound \in Nat
      /\ group \in Nat /\ cursor \in Nat
      /\ \A e \in entries : e[1] \in Nat /\ e[2] \in Nat
  <2>1. entries \in SUBSET Events
    BY DEF IInv, TypeOK
  <2>2. Cardinality(entries) \in Nat
    BY <2>1, FiniteEvents
  <2>3. bound \in Nat /\ group \in Nat /\ cursor \in Nat
    BY DEF IInv, TypeOK
  <2>4. \A e \in entries : e[1] \in Nat /\ e[2] \in Nat
    BY <2>1 DEF Events
  <2> QED BY <2>1, <2>2, <2>3, <2>4
<1>2. pc # "returned" => verdict = "none"
  BY DEF IInv
<1>3. ASSUME pc \in {"probe", "ask"}, NEW n \in Nat, Kept(n) # {},
             UNCHANGED <<source, entries>>, Answer("truncated")
      PROVE  CutInv'
  <2>1. Kept(n) \in SUBSET Wanted /\ Kept(n) \cap entries = {}
    BY <1>3, KeptIsNew
  <2>2. entries' # Wanted'
    BY <1>3, <2>1 DEF Wanted
  <2> QED BY <1>3, <2>2 DEF OnlyBehind, BudgetKept, TruncatedLeftSome
<1>4. ASSUME UNCHANGED <<source, entries>>, pc' \in {"group", "probe", "ask"},
             pc \in {"probe", "ask"}, verdict' = "none",
             \/ group' = group /\ pc' = pc /\ cursor' \in Nat /\ cursor' >= cursor
             \/ group' = group + 1
      PROVE  CutInv'
  <2>1. OnlyBehind'
    BY <1>1, <1>4 DEF OnlyBehind, Behind
  <2> QED BY <1>1, <1>4, <2>1 DEF BudgetKept, TruncatedLeftSome
<1>5. CASE NextGroup
  <2>1. pc = "group" /\ UNCHANGED <<source, group, entries>>
    BY <1>5 DEF NextGroup
  <2>2. \A e \in entries : e[1] < group
    BY <2>1 DEF OnlyBehind, Behind
  <2>3. CASE Answer("complete")
    BY <2>1, <2>3 DEF OnlyBehind, BudgetKept, TruncatedLeftSome
  <2>4. CASE Spent /\ pc' = "ask" /\ UNCHANGED verdict
    BY <1>1, <1>2, <2>1, <2>2, <2>4
       DEF OnlyBehind, Behind, BudgetKept, TruncatedLeftSome, Spent
  <2>5. CASE /\ ~Spent /\ pc' = "page" /\ UNCHANGED verdict
             /\ remaining' = IF bound > 0 THEN bound - Cardinality(entries) ELSE 0
    <3>1. Here' = {}
      BY <1>1, <2>1, <2>2 DEF Here
    <3>2. Cardinality(Here') = 0
      BY <3>1, FS_EmptySet
    <3> QED BY <1>1, <1>2, <2>1, <2>2, <2>5, <3>2
            DEF OnlyBehind, Behind, BudgetKept, TruncatedLeftSome, Spent
  <2> QED BY <1>5, <2>3, <2>4, <2>5 DEF NextGroup
<1>6. CASE ReadPage
  BY <1>6, CutReadPage
<1>7. CASE ProbeCursor
  <2>1. UNCHANGED <<source, entries>> /\ pc = "probe" /\ verdict = "none"
    BY <1>2, <1>7 DEF ProbeCursor
  <2>2. PICK n \in 0..MaxEvents, live \in BOOLEAN :
          /\ cursor' = cursor + n
          /\ \/ Kept(n) # {} /\ Answer("truncated")
             \/ /\ group' = IF live THEN group ELSE group + 1
                /\ pc' = IF live THEN "probe" ELSE "group"
                /\ UNCHANGED verdict
    BY <1>7 DEF ProbeCursor, HoldsAnEntry, Advance
  <2>3. CASE Kept(n) # {} /\ Answer("truncated")
    BY <1>3, <2>1, <2>3
  <2>4. CASE /\ group' = IF live THEN group ELSE group + 1
             /\ pc' = IF live THEN "probe" ELSE "group"
             /\ UNCHANGED verdict
    BY <1>1, <1>4, <2>1, <2>2, <2>4
  <2> QED BY <2>2, <2>3, <2>4
<1>8. CASE AskGroup
  <2>1. UNCHANGED <<source, entries>> /\ pc = "ask" /\ verdict = "none"
    BY <1>2, <1>8 DEF AskGroup
  <2>2. PICK n \in 0..MaxEvents :
          \/ Kept(n) # {} /\ Answer("truncated")
          \/ cursor' = cursor + n /\ UNCHANGED <<pc, group, verdict>>
          \/ group' = group + 1 /\ UNCHANGED <<pc, verdict>>
          \/ Answer("complete")
    BY <1>8 DEF AskGroup, HoldsAnEntry, Advance
  <2>3. CASE Kept(n) # {} /\ Answer("truncated")
    BY <1>3, <2>1, <2>3
  <2>4. CASE \/ cursor' = cursor + n /\ UNCHANGED <<pc, group, verdict>>
             \/ group' = group + 1 /\ UNCHANGED <<pc, verdict>>
    BY <1>1, <1>4, <2>1, <2>4
  <2>5. CASE Answer("complete")
    BY <2>1, <2>5 DEF OnlyBehind, BudgetKept, TruncatedLeftSome
  <2> QED BY <2>2, <2>3, <2>4, <2>5
<1>9. CASE PullEntry
  <2>1. pc = "pull" /\ ~Spent /\ UNCHANGED source /\ verdict = "none"
    BY <1>2, <1>9 DEF PullEntry
  <2>2. CASE Answer("complete") /\ UNCHANGED entries
    BY <2>1, <2>2 DEF OnlyBehind, BudgetKept, TruncatedLeftSome
  <2>3. CASE entries' = entries \cup Kept(1) /\ UNCHANGED <<pc, verdict>>
    <3>1. Kept(1) \in SUBSET {<<group, cursor + 1>>}
      BY <1>1 DEF Kept, Page
    <3>2. Cardinality(entries') <= Cardinality(entries) + 1
      <4>1. entries' = entries \/ entries' = entries \cup {<<group, cursor + 1>>}
        BY <2>3, <3>1
      <4>2. IsFiniteSet(entries)
        BY <1>1, FiniteEvents
      <4>3. \/ entries \cup {<<group, cursor + 1>>} = entries
            \/ Cardinality(entries \cup {<<group, cursor + 1>>}) = Cardinality(entries) + 1
        BY <4>2, FS_AddElement
      <4>4. CASE entries' = entries
        BY <1>1, <4>4
      <4>5. CASE Cardinality(entries') = Cardinality(entries) + 1
        BY <1>1, <4>5
      <4> QED BY <4>1, <4>3, <4>4, <4>5
    <3>3. Cardinality(entries') \in Nat
      <4>1. IsFiniteSet(entries) /\ IsFiniteSet(Kept(1))
        BY <1>1, <3>1, FiniteEvents, FS_Singleton, FS_Subset
      <4> QED BY <2>3, <4>1, FS_Union, FS_CardinalityType
    <3> QED BY <1>1, <2>1, <2>3, <3>2, <3>3 DEF OnlyBehind, BudgetKept, TruncatedLeftSome, Spent
  <2> QED BY <1>9, <2>2, <2>3 DEF PullEntry
<1>10. CASE Peek
  <2>1. /\ pc = "pull" /\ Spent /\ UNCHANGED <<source, entries>>
        /\ Answer("complete") \/ Answer("truncated")
    BY <1>10 DEF Peek
  <2> QED BY <1>1, <2>1 DEF OnlyBehind, BudgetKept, TruncatedLeftSome, Spent
<1>11. CASE Failed
  BY <1>11 DEF Failed, RequestFails, PullFails, OnlyBehind, BudgetKept, TruncatedLeftSome
<1>12. CASE CancelContext \/ UNCHANGED vars
  <2>1. UNCHANGED <<source, pc, group, cursor, remaining, entries, verdict>>
    BY <1>12 DEF CancelContext, vars
  <2> QED BY <2>1 DEF OnlyBehind, Behind, BudgetKept, Here, TruncatedLeftSome, Wanted
<1> QED
  BY <1>5, <1>6, <1>7, <1>8, <1>9, <1>10, <1>11, <1>12 DEF Next, Answered, Done

(* A truncated walk of cloudwatch or stackdriver carries exactly as many   *)
(* entries as its bound, and cloudwatch left one behind that its filters   *)
(* keep, for any source, bound and page limit.                             *)
THEOREM TruncatedWasCut == PodSpec => []TruncatedLeftSome
<1> DEFINE Cut == PInv /\ (reader # "k8slogs" => CutInv) /\ TruncatedLeftSome
<1>1. PodInit => Cut
  BY PodInitInv, CutInit DEF PodInit, CutInv
<1>2. Cut /\ [PodNext]_podAll => Cut'
  <2> SUFFICES ASSUME Cut, [PodNext]_podAll PROVE Cut'
    OBVIOUS
  <2>1. PInv'
    BY PodNextInv
  <2>2. reader' = reader
    BY DEF PodNext, podAll, Next, Answered, Failed, Done, NextGroup, ReadPage, ProbeCursor,
           AskGroup, PullEntry, Peek, RequestFails, PullFails, CancelContext, source, vars,
           ReadPods, ListNamespace, OpenStream, ScanLine, StreamEnds, StreamFails, Completeness
  <2>3. CASE reader = "k8slogs"
    BY <2>1, <2>2, <2>3 DEF TruncatedLeftSome
  <2>4. CASE reader # "k8slogs"
    <3>1. [Next]_vars
      BY <2>4 DEF PodNext, podAll, ReadPods, ListNamespace, OpenStream, ScanLine, StreamEnds,
                  StreamFails, Completeness, PInv, PodTypes
    <3>2. CutInv'
      BY <2>4, <3>1, CutNext DEF PInv
    <3> QED BY <2>1, <3>2 DEF CutInv
  <2> QED BY <2>3, <2>4
<1> QED BY <1>1, <1>2, PTL DEF PodSpec
=============================================================================
