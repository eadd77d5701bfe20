--------------------------- MODULE LokiWalk_proof ---------------------------
(***************************************************************************)
(* Proofs about LokiWalk, for every window, page size and retry budget,    *)
(* and about SearchWalk, which adds the walks of hubspot, notion and       *)
(* slack, for every result cap, set of waits and retry deadline.           *)
(***************************************************************************)
EXTENDS SearchWalk, FiniteSetTheorems, TLAPS

(* While the walk goes on, an entry it has not kept is still ahead of it,  *)
(* or lies at the instant a full page ended on.                            *)
AheadOrAtEdge ==
  honoursEnd /\ verdict \in {"none", "complete"} =>
    \A e \in passes \ kept :
      e.at \in edges \/ (verdict = "none" /\ e.at <= end)

IInv ==
  /\ TypeOK
  /\ phase # "returned" => verdict = "none"
  /\ phase = "backoff" => attempt < ClientRetries
  /\ AheadOrAtEdge

USE WindowAssumption, PageLimitAssumption, PerInstantAssumption, RetriesAssumption
    DEF Window, Entries

LEMMA InitInv == Init => IInv
<1> SUFFICES ASSUME Init PROVE IInv
  OBVIOUS
<1>1. passes \in SUBSET held
  BY DEF Init, Filters
<1>2. ctxDone \in BOOLEAN /\ honoursEnd \in BOOLEAN
  BY Zenon DEF Init
<1>3. TypeOK
  <2>1. end \in Window /\ attempt \in 0..ClientRetries
    BY DEF Init
  <2>2. held \in SUBSET Entries
    BY DEF Init
  <2> QED BY <1>1, <1>2, <2>1, <2>2 DEF Init, TypeOK
<1>4. AheadOrAtEdge
  BY <1>1 DEF Init, AheadOrAtEdge
<1>5. verdict = "none" /\ phase = "asking"
  BY DEF Init
<1> QED BY <1>3, <1>4, <1>5 DEF IInv

LEMMA NextInv == IInv /\ [Next]_vars => IInv'
<1> SUFFICES ASSUME IInv, [Next]_vars PROVE IInv'
  OBVIOUS
<1> USE DEF IInv, Answer, source
<1>1. CASE PageArrives
  <2>1. PICK page \in Pages(end) :
          /\ kept' = kept \cup (page \cap passes)
          /\ attempt' = 0
          /\ \/ /\ Cardinality(page) < PageLimit
                /\ Answer("complete")
                /\ UNCHANGED <<end, edges>>
             \/ \E t, u \in Window :
                  Oldest(page, t) /\ Newest(page, u) /\ Narrow(t, u)
    BY <1>1 DEF PageArrives
  <2>2. UNCHANGED <<held, passes, honoursEnd, ctxDone>> /\ phase = "asking"
    BY <1>1 DEF PageArrives
  <2>3. verdict = "none" /\ page \subseteq Asked(end)
        /\ (Cardinality(page) < PageLimit => page = Asked(end))
        /\ \A e \in page, f \in Asked(end) \ page : e.at >= f.at
    BY <2>2 DEF Pages
  <2>4. kept' \in SUBSET passes'
    BY <2>1, <2>2 DEF TypeOK
  <2>5. CASE Cardinality(page) < PageLimit /\ Answer("complete")
             /\ UNCHANGED <<end, edges>>
    <3>1. TypeOK'
      BY <2>1, <2>2, <2>4, <2>5 DEF TypeOK
    <3>2. AheadOrAtEdge'
      BY <2>1, <2>2, <2>3, <2>5 DEF AheadOrAtEdge, Asked, TypeOK
    <3> QED BY <2>5, <3>1, <3>2
  <2>6. ASSUME NEW t \in Window, NEW u \in Window,
               Oldest(page, t), Newest(page, u), Narrow(t, u)
        PROVE  IInv'
    <3>1. /\ end' \in Window
          /\ edges' \in SUBSET Window
          /\ phase' \in {"asking", "returned"}
          /\ verdict' \in {"none", "error", "complete", "incomplete"}
          /\ phase' # "returned" => verdict' = "none"
      <4>1. /\ end \in Window
            /\ edges \in SUBSET Window
            /\ verdict = "none" /\ phase = "asking"
        BY <2>2, <2>3 DEF TypeOK
      <4>2. CASE t = u
        <5>1. Answer("incomplete") /\ UNCHANGED <<end, edges>>
          BY <2>6, <4>2 DEF Narrow
        <5> QED BY ONLY <4>1, <5>1 DEF Answer
      <4>3. CASE t # u
        <5>1. /\ edges' = edges \cup {t}
              /\ \/ Answer("complete") /\ UNCHANGED end
                 \/ Answer("incomplete") /\ UNCHANGED end
                 \/ /\ t - 1 >= WindowStart /\ t - 1 < end
                    /\ end' = t - 1
                    /\ UNCHANGED <<phase, verdict>>
          BY <2>6, <4>3 DEF Narrow
        <5>2. edges' \in SUBSET Window /\ end' \in Window
          BY <4>1, <5>1
        <5> QED BY <4>1, <5>1, <5>2
      <4> QED BY <4>2, <4>3
    <3>2. TypeOK'
      BY <2>1, <2>2, <2>4, <3>1 DEF TypeOK
    <3>3. ASSUME honoursEnd, NEW e \in passes \ kept'
          PROVE  e.at \in edges \/ e.at <= t
      <4>1. e \in passes \ kept /\ e \notin page /\ e \in held /\ e.at \in Int
        BY <2>1, <3>3 DEF TypeOK
      <4>2. CASE e.at <= end
        <5>1. e \in Asked(end) \ page
          BY <3>3, <4>1, <4>2 DEF Asked
        <5> QED BY <2>3, <2>6, <5>1 DEF Oldest
      <4>3. CASE e.at \in edges
        BY <4>3
      <4> QED BY <2>3, <3>3, <4>1, <4>2, <4>3 DEF AheadOrAtEdge
    <3>4. AheadOrAtEdge'
      <4> SUFFICES ASSUME honoursEnd, verdict' \in {"none", "complete"},
                          NEW e \in passes \ kept'
                   PROVE  e.at \in edges' \/ (verdict' = "none" /\ e.at <= end')
        BY <2>2 DEF AheadOrAtEdge
      <4>1. edges' = edges \cup {t}
        BY <2>6 DEF Narrow
      <4>2. e.at \in WindowStart..WindowEnd
        <5>1. e \in Entries
          BY DEF TypeOK
        <5> QED BY <5>1
      <4>3. e.at \in edges' \/ e.at < t
        <5>1. e.at \in edges \/ e.at <= t
          BY <3>3, Zenon
        <5>2. t \in Int
          OBVIOUS
        <5> QED BY <4>1, <4>2, <5>1, <5>2
      <4>4. t - 1 < WindowStart \/ (verdict' = verdict /\ end' = t - 1)
        BY <2>6 DEF Narrow
      <4>5. CASE e.at \in edges'
        BY <4>5
      <4>6. CASE e.at < t
        <5>1. ~(t - 1 < WindowStart)
          BY ONLY <4>2, <4>6, t \in Window, WindowAssumption DEF Window
        <5>2. e.at <= end'
          BY <4>2, <4>4, <4>6, <5>1
        <5> QED BY <2>3, <4>4, <5>1, <5>2
      <4> QED BY <4>3, <4>5, <4>6
    <3> QED BY <3>1, <3>2, <3>4
  <2> QED BY <2>1, <2>5, <2>6
<1>2. CASE AttemptFails
  <2>1. /\ UNCHANGED <<held, passes, honoursEnd, ctxDone, end, attempt, kept, edges>>
        /\ verdict = "none"
        /\ \/ phase' = "backoff" /\ verdict' = "none" /\ attempt < ClientRetries
           \/ phase' = "returned" /\ verdict' = "error"
    BY <1>2 DEF AttemptFails
  <2>2. TypeOK'
    BY <2>1 DEF TypeOK
  <2>3. AheadOrAtEdge'
    BY <2>1 DEF AheadOrAtEdge
  <2> QED BY <2>1, <2>2, <2>3
<1>3. CASE BackoffEnds
  <2>1. /\ UNCHANGED <<held, passes, honoursEnd, ctxDone, end, kept, edges>>
        /\ verdict = "none"
        /\ phase' \in {"asking", "returned"}
        /\ verdict' \in {"none", "error"}
        /\ phase' # "returned" => verdict' = "none"
    BY <1>3 DEF BackoffEnds
  <2>2. attempt' \in 0..ClientRetries
    BY <1>3 DEF BackoffEnds, TypeOK
  <2>3. TypeOK'
    BY <2>1, <2>2 DEF TypeOK
  <2>4. AheadOrAtEdge'
    BY <2>1 DEF AheadOrAtEdge
  <2> QED BY <2>1, <2>3, <2>4
<1>4. CASE CancelContext
  BY <1>4 DEF CancelContext, TypeOK, AheadOrAtEdge
<1>5. CASE Done \/ UNCHANGED vars
  <2>1. UNCHANGED vars
    BY <1>5 DEF Done
  <2> QED BY <2>1 DEF vars, TypeOK, AheadOrAtEdge
<1> QED BY <1>1, <1>2, <1>3, <1>4, <1>5 DEF Next

(* The state of every reachable walk is well formed.                       *)
THEOREM TypeCorrect == Spec => []TypeOK
<1>1. IInv => TypeOK
  BY DEF IInv
<1> QED BY InitInv, NextInv, <1>1, PTL DEF Spec

(* What a complete walk misses lies at the instants full pages ended on,   *)
(* for every window, page size, filter and number of retries.              *)
THEOREM CompleteMissesOnlyPageEdges == Spec => []CompleteButForPageEdges
<1>1. IInv => CompleteButForPageEdges
  BY DEF IInv, AheadOrAtEdge, CompleteButForPageEdges
<1> QED BY InitInv, NextInv, <1>1, PTL DEF Spec
-----------------------------------------------------------------------------
SearchTypes ==
  /\ TypeOK
  /\ walk \in Walks \ {"loki"}
  /\ walk # "slackSearch" => passes = held
  /\ stage \in {"page", "window", "entries", "last"}
  /\ since \in Entries \cup {NoEntry}
  /\ delivered \in SUBSET Selected
  /\ live \in BOOLEAN
  /\ capped \in BOOLEAN
  /\ met \in SUBSET passes
  /\ todo \in SUBSET met
  /\ waited \in 0..RetryDeadline
  /\ reasons \in BOOLEAN
  /\ phase # "returned" => verdict = "none"
  /\ phase = "backoff" => attempt < ClientRetries

(* The service's order: what the query returned comes before the rest.     *)
Sorted == \A e \in delivered, f \in Ahead : ~Before(f, e)

(* Without a reason, what was met is read or due, and what was not met is  *)
(* still ahead of the query.  Where a service says that it cut an answer,  *)
(* an answer that was not said to be cut left nothing ahead.               *)
NothingDropped ==
  ~reasons =>
    /\ met \subseteq kept \cup todo
    /\ passes \subseteq met \cup (IF stage = "last" THEN {} ELSE Ahead)
    /\ verdict = "complete" => stage = "last" /\ todo = {}

CutIsTold ==
  stage = "window" \/ (stage = "entries" /\ ~live) =>
    /\ walk = "notion" /\ ~capped => Ahead = {}
    /\ walk = "slackChannel" /\ ~reasons => Ahead = {}

SearchInv ==
  /\ SearchTypes
  /\ Sorted
  /\ NothingDropped
  /\ CutIsTold
  /\ verdict = "complete" => ~reasons

WalkInv ==
  /\ walk \in Walks
  /\ walk = "loki" => IInv
  /\ walk # "loki" => SearchInv

USE WalksAssumption, CapAssumption, BatchAssumption, MaxHeldAssumption, WaitsAssumption,
    DeadlineAssumption

LEMMA EntriesFinite == IsFiniteSet(Entries)
<1> DEFINE P == Window \X (1..PerInstant)
           f == [p \in P |-> [at |-> p[1], nr |-> p[2]]]
<1>1. IsFiniteSet(P)
  <2>1. IsFiniteSet(Window) /\ IsFiniteSet(1..PerInstant)
    BY FS_Interval
  <2> QED BY <2>1, FS_Product
<1>2. f \in Surjection(P, Entries)
  <2>1. f \in [P -> Entries]
    OBVIOUS
  <2>2. ASSUME NEW e \in Entries PROVE \E p \in P : f[p] = e
    <3>1. <<e.at, e.nr>> \in P /\ f[<<e.at, e.nr>>] = e
      OBVIOUS
    <3> QED BY <3>1
  <2> QED BY <2>1, <2>2 DEF Surjection
<1> QED BY <1>1, <1>2, FS_Surjection

(* A query that returned as many entries as it selects returned them all.  *)
LEMMA TotalRead ==
  ASSUME held \in SUBSET Entries, delivered \in SUBSET Selected,
         ~(Cardinality(Selected) > Cardinality(delivered))
  PROVE  Ahead = {}
<1>1. IsFiniteSet(Selected)
  BY EntriesFinite, FS_Subset DEF Selected
<1>2. Cardinality(Selected) \in Nat /\ Cardinality(delivered) \in Nat
  BY <1>1, FS_Subset, FS_CardinalityType
<1>3. delivered = Selected
  BY <1>1, <1>2, FS_Subset
<1> QED BY <1>3 DEF Ahead

LEMMA WalkInit == SearchInit => WalkInv
<1> SUFFICES ASSUME SearchInit PROVE WalkInv
  OBVIOUS
<1>1. IInv /\ walk \in Walks
  BY InitInv DEF SearchInit
<1>2. ASSUME walk # "loki" PROVE SearchInv
  <2>1. SearchTypes
    <3>1. live \in BOOLEAN /\ capped \in BOOLEAN /\ reasons \in BOOLEAN
      BY Zenon DEF SearchInit
    <3>2. /\ stage = "page" /\ since = NoEntry /\ waited = 0
          /\ delivered = {} /\ met = {} /\ todo = {}
      BY DEF SearchInit
    <3>3. walk # "slackSearch" => passes = held
      BY <1>2 DEF SearchInit
    <3> QED BY <1>1, <1>2, <3>1, <3>2, <3>3 DEF SearchTypes, IInv
  <2>2. Ahead = held /\ delivered = {}
    BY DEF SearchInit, Ahead, Selected, InWindow
  <2>3. verdict = "none" /\ stage = "page" /\ passes \subseteq held
    BY <1>1 DEF SearchInit, Init, IInv, TypeOK
  <2> QED BY <2>1, <2>2, <2>3
       DEF SearchInit, SearchInv, Sorted, NothingDropped, CutIsTold
<1> QED BY <1>1, <1>2 DEF WalkInv

(* What a step leaves of the query when it does not touch it.              *)
LEMMA QueryKept ==
  ASSUME UNCHANGED <<held, walk, query>>
  PROVE  /\ Selected' = Selected
         /\ Ahead' = Ahead
         /\ Sorted => Sorted'
<1>1. Selected' = Selected
  BY DEF Selected, InWindow, Before, query
<1>2. Ahead' = Ahead
  BY <1>1 DEF Ahead, query
<1>3. \A e, f : Before(e, f)' = Before(e, f)
  BY DEF Before
<1> QED BY <1>1, <1>2, <1>3 DEF Sorted, query

LEMMA FailSoftlyKeeps ==
  ASSUME SearchInv, FailSoftly, phase # "returned",
         UNCHANGED <<fixed, query, ctxDone, kept, verdict>>
  PROVE  SearchInv'
<1>1. /\ todo' \in SUBSET todo
      /\ stage' \in {"page", "window", "entries", "last"}
      /\ reasons' = TRUE /\ attempt' = 0 /\ waited' = 0 /\ phase' = "asking"
      /\ stage' = "last" \/ stage' = stage
  BY DEF FailSoftly, Mark, NextCall, QueryEnds, SearchInv, SearchTypes
<1>2. Selected' = Selected /\ Ahead' = Ahead /\ Sorted'
  BY QueryKept DEF SearchInv, fixed, source
<1>3. SearchTypes'
  <2>1. TypeOK'
    BY <1>1 DEF SearchInv, SearchTypes, TypeOK, fixed, source
  <2> QED BY <1>1, <1>2, <2>1 DEF SearchInv, SearchTypes, fixed, source, query
<1>4. CutIsTold'
  BY <1>1, <1>2 DEF SearchInv, CutIsTold, fixed, query
<1>5. verdict' = "none"
  BY DEF SearchInv, SearchTypes
<1> QED BY <1>1, <1>2, <1>3, <1>4, <1>5 DEF SearchInv, NothingDropped

LEMMA StoppedKeeps ==
  ASSUME SearchInv, Stopped PROVE SearchInv'
<1>1. /\ todo' = {} /\ stage' = "last" /\ reasons' = TRUE /\ phase = "asking"
      /\ UNCHANGED <<fixed, query, ctxDone, attempt, waited, phase, kept, verdict>>
  BY DEF Stopped, Mark, QueryEnds
<1>2. Selected' = Selected /\ Ahead' = Ahead /\ Sorted'
  BY <1>1, QueryKept DEF SearchInv, fixed, source
<1>3. SearchTypes'
  BY <1>1, <1>2 DEF SearchInv, SearchTypes, TypeOK, fixed, source, query
<1> QED BY <1>1, <1>2, <1>3
     DEF SearchInv, SearchTypes, NothingDropped, CutIsTold

LEMMA QueryAnswersKeeps ==
  ASSUME SearchInv, QueryAnswers PROVE SearchInv'
<1>1. PICK page \in SUBSET Ahead, more \in BOOLEAN, signal \in BOOLEAN :
        /\ Serves(page, more, signal)
        /\ delivered' = delivered \cup page
        /\ \/ HubspotPage(page, more)
           \/ NotionPage(page, more, signal)
           \/ SlackMatches(page, more)
           \/ SlackHistory(page, more, signal)
  BY DEF QueryAnswers
<1>2. /\ phase = "asking" /\ stage = "page" /\ verdict = "none"
      /\ UNCHANGED <<fixed, ctxDone, since, kept, verdict>>
      /\ attempt' = 0 /\ waited' = 0 /\ phase' = "asking"
  BY DEF QueryAnswers, NextCall, SearchInv, SearchTypes
<1>3. UNCHANGED <<held, passes, honoursEnd, end, edges, walk, admits>>
  BY <1>2 DEF fixed, source
<1>4. /\ Selected' = Selected
      /\ Ahead' = Ahead \ page
      /\ \A e, f : Before(e, f)' = Before(e, f)
  <2>1. \A e, f : Before(e, f)' = Before(e, f)
    BY <1>3 DEF Before
  <2>2. Selected' = Selected
    BY <1>2, <1>3 DEF Selected, InWindow, Before
  <2> QED BY <1>1, <2>1, <2>2 DEF Ahead
<1>5. /\ met' = met \cup (page \cap passes)
      /\ todo' = todo \cup ((page \cap passes) \ met)
  <2>1. walk # "slackSearch" => page \cap passes = page
    BY <1>1 DEF SearchInv, SearchTypes, Ahead, Selected
  <2> QED BY <1>1, <2>1 DEF Meet, HubspotPage, NotionPage, SlackMatches, SlackHistory
<1>6. stage' \in {"page", "window", "entries"}
  BY <1>1 DEF Loop, HubspotPage, NotionPage, SlackMatches, SlackHistory
<1>7. live' \in BOOLEAN /\ capped' \in BOOLEAN /\ reasons' \in BOOLEAN
  <2>1. capped \in BOOLEAN /\ reasons \in BOOLEAN
    BY DEF SearchInv, SearchTypes
  <2>2. CASE HubspotPage(page, more)
    BY <2>1, <2>2, Zenon DEF HubspotPage, Loop
  <2>3. CASE NotionPage(page, more, signal)
    BY <2>1, <2>3, Zenon DEF NotionPage
  <2>4. CASE SlackMatches(page, more)
    BY <2>1, <2>4, Zenon DEF SlackMatches, Loop
  <2>5. CASE SlackHistory(page, more, signal)
    BY <2>1, <2>5, Zenon DEF SlackHistory, Loop
  <2> QED BY <1>1, <2>2, <2>3, <2>4, <2>5
<1>8. SearchTypes'
  <2>1. TypeOK'
    BY <1>2, <1>3 DEF SearchInv, SearchTypes, TypeOK
  <2>2. /\ delivered' \in SUBSET Selected'
        /\ met' \in SUBSET passes'
        /\ todo' \in SUBSET met'
    BY <1>1, <1>3, <1>4, <1>5 DEF SearchInv, SearchTypes, Ahead
  <2> QED BY <1>2, <1>3, <1>6, <1>7, <2>1, <2>2 DEF SearchInv, SearchTypes
<1>9. Sorted'
  BY <1>1, <1>4 DEF SearchInv, Sorted, Serves
<1>10. ~reasons' => ~reasons
  <2>1. reasons' = reasons \/ reasons' = (reasons \/ signal)
    BY <1>1 DEF HubspotPage, NotionPage, SlackMatches, SlackHistory
  <2> QED BY <2>1
<1>11. NothingDropped'
  <2> SUFFICES ASSUME ~reasons'
               PROVE  /\ met' \subseteq kept \cup todo'
                      /\ passes \subseteq met' \cup (Ahead \ page)
    BY <1>2, <1>3, <1>4, <1>6 DEF NothingDropped
  <2>1. met \subseteq kept \cup todo /\ passes \subseteq met \cup Ahead
    BY <1>2, <1>10 DEF SearchInv, NothingDropped
  <2> QED BY <1>5, <2>1
<1>12. CutIsTold'
  <2> SUFFICES ASSUME stage' = "window" \/ (stage' = "entries" /\ ~live')
               PROVE  /\ walk = "notion" /\ ~capped' => Ahead' = {}
                      /\ walk = "slackChannel" /\ ~reasons' => Ahead' = {}
    BY <1>3 DEF CutIsTold
  <2>1. ASSUME walk = "notion", ~capped' PROVE Ahead' = {}
    <3>1. ~more /\ ~signal
      <4>1. NotionPage(page, more, signal)
        BY <1>1, <2>1 DEF HubspotPage, SlackMatches, SlackHistory
      <4>2. live' = more /\ capped' = (capped \/ signal) /\ stage' = "entries"
        BY <4>1 DEF NotionPage
      <4> QED BY <2>1, <4>2
    <3> QED BY <1>1, <1>4, <2>1, <3>1 DEF Serves
  <2>2. ASSUME walk = "slackChannel", ~reasons' PROVE Ahead' = {}
    <3>1. ~more /\ ~signal
      <4>1. SlackHistory(page, more, signal)
        BY <1>1, <2>2 DEF HubspotPage, SlackMatches, NotionPage
      <4>2. /\ reasons' = (reasons \/ signal)
            /\ stage' = IF more THEN "page" ELSE "window"
        BY <4>1 DEF SlackHistory, Loop
      <4> QED BY <2>2, <4>2
    <3> QED BY <1>1, <1>4, <2>2, <3>1 DEF Serves
  <2> QED BY <2>1, <2>2
<1> QED BY <1>2, <1>8, <1>9, <1>11, <1>12 DEF SearchInv

LEMMA EntriesAnswerKeeps ==
  ASSUME SearchInv, EntriesAnswer PROVE SearchInv'
<1>1. PICK b \in SUBSET todo : \E returned \in SUBSET b :
        /\ kept' = kept \cup returned
        /\ todo' = todo \ b
        /\ reasons' = (reasons \/ returned # b)
  BY DEF EntriesAnswer
<1>2. PICK returned \in SUBSET b :
        /\ kept' = kept \cup returned
        /\ todo' = todo \ b
        /\ reasons' = (reasons \/ returned # b)
  BY <1>1
<1>3. /\ UNCHANGED <<fixed, query, ctxDone, stage, verdict>>
      /\ verdict = "none"
      /\ attempt' = 0 /\ waited' = 0 /\ phase' = "asking"
  BY DEF EntriesAnswer, NextCall, SearchInv, SearchTypes
<1>4. Selected' = Selected /\ Ahead' = Ahead /\ Sorted'
  BY <1>3, QueryKept DEF SearchInv, fixed, source
<1>5. reasons' \in BOOLEAN
  BY <1>2, Zenon DEF SearchInv, SearchTypes
<1>6. ~reasons' => ~reasons /\ returned = b
  BY <1>2
<1>7. SearchTypes'
  <2>1. returned \in SUBSET passes
    BY DEF SearchInv, SearchTypes
  <2>2. TypeOK'
    BY <1>2, <1>3, <2>1 DEF SearchInv, SearchTypes, TypeOK, fixed, source
  <2> QED BY <1>2, <1>3, <1>4, <1>5, <2>2
       DEF SearchInv, SearchTypes, fixed, source, query
<1>8. NothingDropped'
  BY <1>2, <1>3, <1>4, <1>6 DEF SearchInv, NothingDropped, fixed, source, query
<1>9. CutIsTold'
  BY <1>3, <1>4, <1>6 DEF SearchInv, CutIsTold, fixed, query
<1> QED BY <1>3, <1>4, <1>7, <1>8, <1>9 DEF SearchInv

(* A step that leaves the query, what was met and the reasons as they are. *)
LEMMA ControlKeeps ==
  ASSUME SearchInv,
         UNCHANGED <<fixed, query, kept, stage, todo, reasons>>,
         ctxDone' \in BOOLEAN,
         attempt' \in 0..ClientRetries,
         waited' \in 0..RetryDeadline,
         phase' \in {"asking", "backoff", "returned"},
         verdict' \in {"none", "error", "complete", "incomplete"},
         phase' # "returned" => verdict' = "none",
         phase' = "backoff" => attempt' < ClientRetries,
         verdict' = "complete" =>
           verdict = "complete" \/ (~reasons /\ stage = "last" /\ todo = {})
  PROVE  SearchInv'
<1>1. Selected' = Selected /\ Ahead' = Ahead /\ Sorted'
  BY QueryKept DEF SearchInv, fixed, source
<1>2. SearchTypes'
  BY <1>1 DEF SearchInv, SearchTypes, TypeOK, fixed, source, query
<1>3. NothingDropped'
  BY <1>1 DEF SearchInv, NothingDropped, fixed, source, query
<1>4. CutIsTold'
  BY <1>1 DEF SearchInv, CutIsTold, fixed, query
<1> QED BY <1>1, <1>2, <1>3, <1>4 DEF SearchInv

LEMMA CallKeeps ==
  ASSUME SearchInv, CallFails \/ RateLimited \/ WaitEnds
  PROVE  SearchInv'
<1>1. /\ UNCHANGED <<fixed, query, ctxDone, kept>>
      /\ phase # "returned"
  BY DEF CallFails, RateLimited, WaitEnds
<1>2. CASE FailSoftly /\ UNCHANGED verdict
  BY <1>1, <1>2, FailSoftlyKeeps
<1>3. CASE /\ Answer("error")
           /\ UNCHANGED <<stage, todo, waited, reasons, attempt>>
  <2>1. /\ phase' = "returned" /\ verdict' = "error"
        /\ attempt' \in 0..ClientRetries
        /\ waited' \in 0..RetryDeadline
    BY <1>3 DEF Answer, SearchInv, SearchTypes, TypeOK
  <2>2. ctxDone' \in BOOLEAN
    BY <1>1, Zenon DEF SearchInv, SearchTypes, TypeOK
  <2> QED BY <1>1, <1>3, <2>1, <2>2, ControlKeeps
<1>4. ASSUME NEW wait \in Waits, Admitted(wait),
             phase' = "backoff", waited' = waited + wait,
             UNCHANGED <<attempt, stage, todo, reasons, verdict>>
      PROVE  SearchInv'
  <2>1. waited' \in 0..RetryDeadline
    BY <1>4 DEF Admitted, SearchInv, SearchTypes
  <2>2. attempt < ClientRetries
    BY <1>4 DEF Admitted
  <2> QED BY <1>1, <1>4, <2>1, <2>2, ControlKeeps DEF SearchInv, SearchTypes, TypeOK
<1>5. CASE /\ phase = "backoff" /\ phase' = "asking" /\ attempt' = attempt + 1
           /\ UNCHANGED <<stage, todo, waited, reasons, verdict>>
  <2>1. attempt' \in 0..ClientRetries
    BY <1>5 DEF SearchInv, SearchTypes, TypeOK
  <2>2. waited' \in 0..RetryDeadline /\ verdict' = "none"
    BY <1>5 DEF SearchInv, SearchTypes
  <2>3. ctxDone' \in BOOLEAN
    BY <1>1, Zenon DEF SearchInv, SearchTypes, TypeOK
  <2> QED BY <1>1, <1>5, <2>1, <2>2, <2>3, ControlKeeps
<1> QED BY <1>2, <1>3, <1>4, <1>5 DEF CallFails, RateLimited, WaitEnds

LEMMA MoveWindowKeeps ==
  ASSUME SearchInv, MoveWindow, phase = "asking", stage = "window",
         walk \in {"hubspot", "notion"},
         UNCHANGED <<fixed, ctxDone, attempt, phase, kept, verdict, todo, waited>>
  PROVE  SearchInv'
<1>1. PICK e \in delivered : Last(e) /\ since' = e
  BY DEF MoveWindow
<1>2. /\ delivered' = {} /\ live' = TRUE /\ capped' = FALSE /\ stage' = "page"
      /\ UNCHANGED <<reasons, met, held, passes, honoursEnd, end, edges, walk, admits>>
  BY DEF MoveWindow, fixed, source
<1>3. e \in held /\ e \in Entries /\ held \subseteq Entries
  BY DEF SearchInv, SearchTypes, TypeOK, Selected
<1>4. \A f \in Ahead : f \in Ahead'
  <2> TAKE f \in Ahead
  <2>1. f \in held /\ f \notin delivered /\ f \in Entries /\ f # e
    BY <1>3 DEF Ahead, Selected
  <2>2. ~Before(f, e)
    BY DEF SearchInv, Sorted
  <2>3. e.at \in Int /\ f.at \in Int /\ e.nr \in Int /\ f.nr \in Int
    BY <1>3, <2>1
  <2>4. walk = "hubspot" => Before(e, f)
    <3>1. e.at # f.at \/ e.nr # f.nr
      BY <1>3, <2>1
    <3> QED BY <2>2, <2>3, <3>1 DEF Before
  <2>5. walk = "notion" => f.at >= e.at
    BY <2>2, <2>3 DEF Before
  <2>6. InWindow(f)'
    BY <1>1, <1>2, <2>4, <2>5 DEF InWindow, Before
  <2> QED BY <1>2, <2>1, <2>6 DEF Ahead, Selected
<1>5. SearchTypes'
  <2>1. TypeOK'
    BY <1>2 DEF SearchInv, SearchTypes, TypeOK
  <2> QED BY <1>1, <1>2, <1>3, <2>1 DEF SearchInv, SearchTypes
<1>6. Sorted' /\ CutIsTold'
  BY <1>2 DEF Sorted, CutIsTold
<1>7. NothingDropped'
  BY <1>2, <1>4 DEF SearchInv, SearchTypes, NothingDropped
<1> QED BY <1>2, <1>5, <1>6, <1>7 DEF SearchInv

(* A query may end without a reason only with nothing ahead of it.         *)
LEMMA QueryEndKeeps ==
  ASSUME SearchInv, QueryEnds, UNCHANGED query,
         phase = "asking", stage = "window",
         reasons' \in BOOLEAN,
         ~reasons' => ~reasons /\ Ahead = {},
         UNCHANGED <<fixed, ctxDone, attempt, phase, kept, verdict, todo, waited>>
  PROVE  SearchInv'
<1>1. stage' = "last"
  BY DEF QueryEnds
<1>2. Selected' = Selected /\ Ahead' = Ahead /\ Sorted'
  BY QueryKept DEF SearchInv, fixed, source
<1>3. SearchTypes'
  BY <1>1, <1>2 DEF SearchInv, SearchTypes, TypeOK, fixed, source, query
<1>4. NothingDropped' /\ CutIsTold' /\ verdict' = "none"
  BY <1>1, <1>2 DEF SearchInv, SearchTypes, NothingDropped, CutIsTold, fixed,
                    source, query
<1> QED BY <1>2, <1>3, <1>4 DEF SearchInv

LEMMA AfterQueryKeeps ==
  ASSUME SearchInv, AfterQuery PROVE SearchInv'
<1>1. /\ phase = "asking" /\ stage = "window"
      /\ UNCHANGED <<fixed, ctxDone, attempt, phase, kept, verdict, todo, waited>>
  BY DEF AfterQuery
<1>2. held \in SUBSET Entries /\ delivered \in SUBSET Selected
  BY DEF SearchInv, SearchTypes, TypeOK
<1>3. ASSUME EndQuery(Cardinality(Selected) > Cardinality(delivered))
      PROVE  SearchInv'
  <2>1. /\ QueryEnds /\ UNCHANGED query
        /\ reasons' = (reasons \/ Cardinality(Selected) > Cardinality(delivered))
    BY <1>3 DEF EndQuery
  <2>2. reasons' \in BOOLEAN
    BY <2>1, Zenon DEF SearchInv, SearchTypes
  <2>3. ASSUME ~reasons' PROVE ~reasons /\ Ahead = {}
    <3>1. ~reasons /\ ~(Cardinality(Selected) > Cardinality(delivered))
      BY <2>1, <2>3
    <3> QED BY <1>2, <3>1, TotalRead
  <2> QED BY <1>1, <2>1, <2>2, <2>3, QueryEndKeeps
<1>4. ASSUME EndQuery(TRUE) PROVE SearchInv'
  <2>1. QueryEnds /\ UNCHANGED query /\ reasons' = TRUE
    BY <1>4 DEF EndQuery
  <2> QED BY <1>1, <2>1, QueryEndKeeps
<1>5. ASSUME EndQuery(FALSE), ~reasons => Ahead = {} PROVE SearchInv'
  <2>1. QueryEnds /\ UNCHANGED query /\ reasons' = (reasons \/ FALSE)
    BY <1>5 DEF EndQuery
  <2>2. reasons' \in BOOLEAN
    BY <2>1, Zenon DEF SearchInv, SearchTypes
  <2>3. ~reasons' => ~reasons /\ Ahead = {}
    BY <1>5, <2>1
  <2> QED BY <1>1, <2>1, <2>2, <2>3, QueryEndKeeps
<1>6. CASE walk = "hubspot" /\ HubspotWindow
  <2>1. CASE MoveWindow
    BY <1>1, <1>6, <2>1, MoveWindowKeeps
  <2> QED BY <1>3, <1>4, <1>6, <2>1 DEF HubspotWindow
<1>7. CASE walk = "notion" /\ NotionWindow
  <2>1. CASE ~capped /\ EndQuery(FALSE)
    <3>1. Ahead = {}
      BY <1>1, <1>7, <2>1 DEF SearchInv, CutIsTold
    <3> QED BY <1>5, <2>1, <3>1
  <2>2. CASE MoveWindow
    BY <1>1, <1>7, <2>2, MoveWindowKeeps
  <2> QED BY <1>4, <1>7, <2>1, <2>2 DEF NotionWindow
<1>8. CASE walk = "slackSearch" /\ SlackWindow
  <2>1. EndQuery(Cardinality(Selected) > Cardinality(delivered))
    BY <1>8 DEF SlackWindow, EndQuery
  <2> QED BY <1>3, <2>1
<1>9. CASE walk = "slackChannel" /\ SlackWindow
  <2>1. EndQuery(FALSE)
    BY <1>9 DEF SlackWindow, EndQuery
  <2>2. ~reasons => Ahead = {}
    BY <1>1, <1>9 DEF SearchInv, CutIsTold
  <2> QED BY <1>5, <2>1, <2>2
<1> QED BY <1>6, <1>7, <1>8, <1>9 DEF AfterQuery

LEMMA EntriesEndKeeps ==
  ASSUME SearchInv, EntriesEnd PROVE SearchInv'
<1>1. /\ stage = "entries" /\ todo = {}
      /\ stage' = IF live THEN "page" ELSE "window"
      /\ UNCHANGED <<fixed, query, ctxDone, attempt, phase, kept, verdict, todo,
                     waited, reasons>>
  BY DEF EntriesEnd
<1>2. Selected' = Selected /\ Ahead' = Ahead /\ Sorted'
  BY <1>1, QueryKept DEF SearchInv, fixed, source
<1>3. stage' \in {"page", "window"}
  BY <1>1
<1>4. SearchTypes'
  BY <1>1, <1>2, <1>3 DEF SearchInv, SearchTypes, TypeOK, fixed, source, query
<1>5. verdict = "complete" => reasons
  BY <1>1 DEF SearchInv, NothingDropped
<1>6. NothingDropped'
  BY <1>1, <1>2, <1>3, <1>5 DEF SearchInv, NothingDropped, fixed, source, query
<1>7. CutIsTold'
  BY <1>1, <1>2 DEF SearchInv, CutIsTold, fixed, query
<1> QED BY <1>1, <1>2, <1>4, <1>6, <1>7 DEF SearchInv

LEMMA CompletenessKeeps ==
  ASSUME SearchInv, Completeness PROVE SearchInv'
<1>1. /\ phase = "asking" /\ stage = "last" /\ todo = {}
      /\ phase' = "returned"
      /\ verdict' = IF reasons THEN "incomplete" ELSE "complete"
      /\ UNCHANGED <<fixed, query, ctxDone, attempt, kept, stage, todo, waited, reasons>>
  BY DEF Completeness, Answer
<1>2. /\ verdict' \in {"incomplete", "complete"}
      /\ verdict' = "complete" => ~reasons
  BY <1>1
<1> QED BY <1>1, <1>2, ControlKeeps DEF SearchInv, SearchTypes, TypeOK

LEMMA WalkNext == WalkInv /\ [SearchNext]_allVars => WalkInv'
<1> SUFFICES ASSUME WalkInv, [SearchNext]_allVars PROVE WalkInv'
  OBVIOUS
<1>1. CASE walk = "loki" /\ Next /\ UNCHANGED searchVars
  <2>1. IInv'
    BY <1>1, NextInv DEF WalkInv
  <2> QED BY <1>1, <2>1 DEF WalkInv, searchVars
<1>2. CASE walk # "loki" /\ Searching
  <2>1. SearchInv
    BY <1>2 DEF WalkInv
  <2>2. SearchInv'
    BY <1>2, <2>1, StoppedKeeps, QueryAnswersKeeps, EntriesAnswerKeeps, CallKeeps,
       AfterQueryKeeps, EntriesEndKeeps, CompletenessKeeps DEF Searching
  <2>3. walk' \in Walks /\ walk' # "loki"
    BY <2>2 DEF SearchInv, SearchTypes
  <2> QED BY <2>2, <2>3 DEF WalkInv
<1>3. CASE walk # "loki" /\ CancelContext /\ UNCHANGED searchVars
  <2>1. SearchInv
    BY <1>3 DEF WalkInv
  <2>2. SearchInv'
    BY <1>3, <2>1, ControlKeeps
       DEF CancelContext, SearchInv, SearchTypes, TypeOK, searchVars, fixed, source, query
  <2> QED BY <1>3, <2>2 DEF WalkInv, searchVars
<1>4. CASE UNCHANGED allVars \/ (Done /\ UNCHANGED searchVars)
  <2>1. UNCHANGED <<vars, searchVars>>
    BY <1>4 DEF Done, allVars
  <2>2. CASE walk = "loki"
    <3>1. IInv'
      BY <2>1, <2>2, NextInv DEF WalkInv
    <3> QED BY <2>1, <2>2, <3>1 DEF WalkInv, searchVars
  <2>3. CASE walk # "loki"
    <3>1. SearchInv
      BY <2>3 DEF WalkInv
    <3>2. SearchInv'
      BY <2>1, <3>1, ControlKeeps
         DEF vars, SearchInv, SearchTypes, TypeOK, searchVars, fixed, source, query
    <3> QED BY <2>1, <2>3, <3>2 DEF WalkInv, searchVars
  <2> QED BY <2>2, <2>3
<1> QED BY <1>1, <1>2, <1>3, <1>4 DEF SearchNext

(* The state of every reachable walk, of the searches too, is well formed. *)
THEOREM SearchTypeCorrect == SearchSpec => []TypeOK
<1>1. WalkInv => TypeOK
  BY DEF WalkInv, IInv, SearchInv, SearchTypes
<1> QED BY WalkInit, WalkNext, <1>1, PTL DEF SearchSpec

(* A complete search read everything the service holds for it, whatever    *)
(* the cap, the windows, the retries and the order of ties; loki's walk    *)
(* misses at most what lies at the edges of its pages.                     *)
THEOREM SearchesReadEverything == SearchSpec => []CompleteButForPageEdges
<1>1. WalkInv => CompleteButForPageEdges
  <2> SUFFICES ASSUME WalkInv PROVE CompleteButForPageEdges
    OBVIOUS
  <2>1. CASE walk = "loki"
    BY <2>1 DEF WalkInv, IInv, AheadOrAtEdge, CompleteButForPageEdges
  <2>2. CASE walk # "loki"
    <3>1. verdict = "complete" => passes \subseteq kept
      BY <2>2 DEF WalkInv, SearchInv, NothingDropped
    <3> QED BY <3>1 DEF CompleteButForPageEdges
  <2> QED BY <2>1, <2>2
<1> QED BY WalkInit, WalkNext, <1>1, PTL DEF SearchSpec
=============================================================================
