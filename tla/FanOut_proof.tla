---------------------------- MODULE FanOut_proof ----------------------------
(***************************************************************************)
(* Proofs about FanOut, for every number of enumerations and every limit   *)
(* on how many are in flight; and behind them about GitlabWalk: it is a    *)
(* walk of FanOut, whose theorems it inherits, and a complete one has read *)
(* the whole tree of groups, whatever the tree, the depth limit and the    *)
(* number of workers.                                                      *)
(***************************************************************************)
EXTENDS GitlabWalk, TLAPS

(* Why a complete verdict is trustworthy: an index the feeder has passed   *)
(* is held by one worker or has its outcome, one it has not reached is     *)
(* untouched, and the channel is closed only once every index was handed   *)
(* out or the cancellation was noted.                                      *)
Handed ==
  \A i \in Subs :
    IF i < next
    THEN outcome[i] # NotRun \/ \E w \in Workers : worker[w] = i
    ELSE outcome[i] = NotRun /\ \A w \in Workers : worker[w] # i

PhaseInv ==
  /\ phase = "starting" => next = 1 /\ phaseOne = "notrun" /\ ~cancelled
  /\ phase \in {"feeding", "closed"} =>
       (phaseOne = "notrun" <=> provider = "gitlab")
  /\ phase = "folded" => phaseOne # "notrun"
  /\ phase \in {"starting", "feeding"} => \A w \in Workers : worker[w] # Exited
  /\ phase \in {"closed", "folded"} => cancelled \/ next = N + 1
  /\ phase # "returned" <=> verdict = "none"

FoldInv ==
  phase \in {"folded", "returned"} =>
    /\ \A w \in Workers : worker[w] \notin Subs
    /\ verdict # "error" =>
         /\ \A i \in Subs : i \in carried <=> outcome[i].err \in {"nil", "marked"}
         /\ \A i \in Subs : i \in incomplete <=> outcome[i].err = "marked"
         /\ \A i \in Subs : i \in failures <=> outcome[i].err = "failed"
         /\ CancelledMark \in failures <=> cancelled

IInv ==
  /\ TypeOK
  /\ Handed
  /\ PhaseInv
  /\ FoldInv
  /\ SlotsNotShared
  /\ CompleteIsWhole

USE DEF Subs, Idle, Exited, CancelledMark

LEMMA InitInv == Init => IInv
<1> SUFFICES ASSUME Init PROVE IInv
  OBVIOUS
<1> USE NAssumption
<1>1. TypeOK
  <2>1. worker \in [Workers -> Subs \cup {Idle, Exited}]
    BY DEF Init
  <2>2. outcome \in [Subs -> Ran \cup {NotRun}]
    BY DEF Init
  <2>3. next \in 1..(N + 1) /\ phase \in Phases
    <3>1. next = 1 /\ phase = "starting"
      BY DEF Init
    <3> QED BY ONLY <3>1, NAssumption DEF Phases
  <2>4. /\ phaseOne \in {"nil", "marked", "notrun"}
        /\ verdict \in {"none", "error", "incomplete", "complete"}
        /\ incomplete \in SUBSET Subs
        /\ failures \in SUBSET (Subs \cup {CancelledMark})
        /\ carried \in SUBSET Subs
    BY DEF Init
  <2>5. provider \in Providers /\ ctxDone \in BOOLEAN /\ cancelled \in BOOLEAN
    BY Zenon DEF Init
  <2> QED BY ONLY <2>1, <2>2, <2>3, <2>4, <2>5, Zenon DEF TypeOK
<1>2. Handed /\ PhaseInv /\ FoldInv /\ SlotsNotShared /\ CompleteIsWhole
  BY DEF Init, Handed, PhaseInv, FoldInv, SlotsNotShared, CompleteIsWhole
<1> QED BY <1>1, <1>2 DEF IInv

LEMMA NextInv == IInv /\ [Next]_vars => IInv'
<1> SUFFICES ASSUME IInv, [Next]_vars PROVE IInv'
  OBVIOUS
<1> USE NAssumption DEF IInv
<1>1. CASE CancelContext
  BY <1>1 DEF CancelContext, feeding, folded, TypeOK, Handed, PhaseInv, FoldInv,
     SlotsNotShared, CompleteIsWhole
<1>2. CASE RefuseToStart
  BY <1>2 DEF RefuseToStart, feeding, folded, TypeOK, Handed, PhaseInv, FoldInv,
     SlotsNotShared, CompleteIsWhole, Phases
<1>3. CASE Start
  BY <1>3 DEF Start, feeding, folded, TypeOK, Handed, PhaseInv, FoldInv,
     SlotsNotShared, CompleteIsWhole, Phases
<1>4. ASSUME NEW w \in Workers, Feed(w) PROVE IInv'
  <2> USE <1>4 DEF Feed, folded
  <2>1. TypeOK'
    BY DEF TypeOK
  <2>2. Handed'
    BY DEF TypeOK, Handed
  <2>3. SlotsNotShared'
    BY DEF TypeOK, Handed, SlotsNotShared
  <2>4. PhaseInv' /\ FoldInv' /\ CompleteIsWhole'
    BY DEF TypeOK, PhaseInv, FoldInv, CompleteIsWhole
  <2> QED BY <2>1, <2>2, <2>3, <2>4
<1>5. CASE StopFeeding
  BY <1>5 DEF StopFeeding, folded, TypeOK, Handed, PhaseInv, FoldInv,
     SlotsNotShared, CompleteIsWhole, Phases
<1>6. CASE CloseWork
  BY <1>6 DEF CloseWork, feeding, folded, TypeOK, Handed, PhaseInv, FoldInv,
     SlotsNotShared, CompleteIsWhole, Phases
<1>7. ASSUME NEW w \in Workers, FinishSub(w) PROVE IInv'
  <2>1. PICK o \in Ran : outcome' = [outcome EXCEPT ![worker[w]] = o]
    BY <1>7 DEF FinishSub
  <2> DEFINE i == worker[w]
  <2>2. i \in Subs /\ o # NotRun /\ worker' = [worker EXCEPT ![w] = Idle]
    BY <1>7, <2>1 DEF FinishSub, Ran, NotRun
  <2>3. phase \notin {"folded", "returned"} /\ verdict = "none"
    BY <1>7 DEF FinishSub, SlotsNotShared, PhaseInv
  <2> USE <1>7, <2>1, <2>2, <2>3 DEF FinishSub, folded, feeding
  <2>4. TypeOK'
    BY DEF TypeOK
  <2>5. Handed'
    BY DEF TypeOK, Handed, SlotsNotShared
  <2>6. SlotsNotShared'
    BY DEF TypeOK, SlotsNotShared
  <2>7. PhaseInv' /\ FoldInv' /\ CompleteIsWhole'
    BY DEF TypeOK, PhaseInv, FoldInv, CompleteIsWhole
  <2> QED BY <2>4, <2>5, <2>6, <2>7
<1>8. ASSUME NEW w \in Workers, ExitWorker(w) PROVE IInv'
  <2> USE <1>8 DEF ExitWorker, folded, feeding
  <2>1. TypeOK'
    BY DEF TypeOK
  <2>2. Handed' /\ SlotsNotShared'
    BY DEF TypeOK, Handed, SlotsNotShared
  <2>3. PhaseInv' /\ FoldInv' /\ CompleteIsWhole'
    BY DEF TypeOK, PhaseInv, FoldInv, CompleteIsWhole
  <2> QED BY <2>1, <2>2, <2>3
<1>9. CASE Fold
  <2> USE <1>9 DEF Fold, feeding, Joined
  <2>1. TypeOK'
    BY DEF TypeOK, Phases
  <2>2. FoldInv'
    BY DEF TypeOK, FoldInv
  <2>3. Handed' /\ PhaseInv' /\ SlotsNotShared' /\ CompleteIsWhole'
    BY DEF TypeOK, Handed, PhaseInv, SlotsNotShared, CompleteIsWhole
  <2> QED BY <2>1, <2>2, <2>3
<1>10. CASE Return
  <2> USE <1>10 DEF Return, feeding, folded
  <2>1. verdict' \in {"error", "incomplete", "complete"}
    BY DEF Completeness
  <2>2. TypeOK'
    BY <2>1 DEF TypeOK, Phases
  <2>3. CompleteIsWhole'
    <3> SUFFICES ASSUME verdict' = "complete" PROVE CompleteIsWhole'
      BY DEF CompleteIsWhole
    <3>1. incomplete = {} /\ failures = {} /\ phaseOne = "nil"
      BY DEF Completeness
    <3>2. next = N + 1
      BY <3>1 DEF PhaseInv, FoldInv
    <3>3. ASSUME NEW i \in Subs PROVE outcome[i].err = "nil"
      <4>1. outcome[i] # NotRun
        BY <3>2 DEF TypeOK, Handed, FoldInv
      <4>2. outcome[i] \in Ran
        BY <4>1 DEF TypeOK
      <4>3. outcome[i].err # "marked" /\ outcome[i].err # "failed"
        BY <3>1 DEF FoldInv, PhaseInv
      <4> QED BY <4>2, <4>3 DEF Ran
    <3> QED BY <3>1, <3>3 DEF CompleteIsWhole
  <2>4. Handed' /\ PhaseInv' /\ FoldInv' /\ SlotsNotShared'
    BY <2>1 DEF TypeOK, Handed, PhaseInv, FoldInv, SlotsNotShared
  <2> QED BY <2>2, <2>3, <2>4
<1>11. CASE Done \/ UNCHANGED vars
  <2>1. UNCHANGED vars
    BY <1>11 DEF Done
  <2>2. TypeOK' /\ SlotsNotShared' /\ CompleteIsWhole'
    BY <2>1 DEF vars, TypeOK, SlotsNotShared, CompleteIsWhole
  <2>3. Handed' /\ PhaseInv' /\ FoldInv'
    BY <2>1 DEF vars, Handed, PhaseInv, FoldInv
  <2> QED BY <2>2, <2>3
<1> QED BY <1>1, <1>2, <1>3, <1>4, <1>5, <1>6, <1>7, <1>8, <1>9, <1>10, <1>11
        DEF Next

(* The state of every reachable walk is well formed.                       *)
THEOREM TypeCorrect == Spec => []TypeOK
<1>1. IInv => TypeOK
  BY DEF IInv
<1> QED BY InitInv, NextInv, <1>1, PTL DEF Spec

(* The slots of fanOut are written by one goroutine each and read after    *)
(* all of them are gone, for any number of enumerations and workers.       *)
THEOREM SlotsRaceFree == Spec => []SlotsNotShared
<1>1. IInv => SlotsNotShared
  BY DEF IInv
<1> QED BY InitInv, NextInv, <1>1, PTL DEF Spec

(* COMPLETE is asserted only when every enumeration came back whole, for   *)
(* any number of enumerations and workers and any cancellation.            *)
THEOREM CompleteMeansWhole == Spec => []CompleteIsWhole
<1>1. IInv => CompleteIsWhole
  BY DEF IInv
<1> QED BY InitInv, NextInv, <1>1, PTL DEF Spec
-----------------------------------------------------------------------------
Seen == {i \in Subs : outcome[i].err = "nil"}
          \cup (IF phaseOne = "nil" THEN {0} ELSE {})
Landed == IF verdict \in {"incomplete", "complete"} THEN carried \cup {0} ELSE {}

LEMMA InitContract == Init => Contract!Init
<1> SUFFICES ASSUME Init PROVE Contract!Init
  OBVIOUS
<1>1. Seen = {}
  BY DEF Init, Seen, NotRun
<1>2. Landed = {} /\ verdict = "none"
  BY DEF Init, Landed
<1> QED BY <1>1, <1>2 DEF Contract!Init, Seen, Landed

(* A step of the walk reads one part, returns, or is invisible to the      *)
(* server.                                                                 *)
LEMMA StepContract ==
  ASSUME IInv, IInv', [Next]_vars
  PROVE  [Contract!Next]_(Contract!vars)
<1> USE NAssumption
<1> DEFINE Stutter == Seen' = Seen /\ Landed' = Landed /\ verdict' = verdict
<1>0. Stutter => UNCHANGED Contract!vars
  BY DEF Contract!vars, Seen, Landed
<1>1. CASE CancelContext \/ StopFeeding \/ CloseWork \/ Done \/ UNCHANGED vars
  <2>1. UNCHANGED <<outcome, phaseOne, carried, verdict>>
    BY <1>1 DEF CancelContext, StopFeeding, CloseWork, Done, vars, folded
  <2> QED BY <1>0, <2>1 DEF Seen, Landed
<1>2. ASSUME NEW w \in Workers, Feed(w) \/ ExitWorker(w) PROVE Stutter
  <2>1. UNCHANGED <<outcome, phaseOne, carried, verdict>>
    BY <1>2 DEF Feed, ExitWorker, folded
  <2> QED BY <2>1 DEF Seen, Landed
<1>3. CASE RefuseToStart
  <2>1. Seen' = Seen /\ Landed' = {} /\ Landed = {}
    BY <1>3 DEF RefuseToStart, folded, Seen, Landed, IInv, PhaseInv
  <2>2. verdict = "none" /\ verdict' = "error"
    BY <1>3 DEF RefuseToStart, IInv, PhaseInv
  <2> QED BY <2>1, <2>2 DEF Contract!Next, Contract!Refuse, Seen, Landed
<1>4. CASE Start
  <2>1. verdict = "none" /\ verdict' = "none" /\ Landed = {} /\ Landed' = {}
    BY <1>4 DEF Start, IInv, PhaseInv, Landed
  <2>2. Seen' = Seen \/ Seen' = Seen \cup {0}
    BY <1>4 DEF Start, Seen, IInv, PhaseInv
  <2>3. CASE Seen' = Seen \cup {0}
    <3>1. 0 \in 0..N
      OBVIOUS
    <3> QED BY <2>1, <2>3, <3>1 DEF Contract!Next, Contract!Read, Seen, Landed
  <2> QED BY <1>0, <2>1, <2>2, <2>3
<1>5. ASSUME NEW w \in Workers, FinishSub(w) PROVE [Contract!Next]_(Contract!vars)
  <2>1. PICK o \in Ran : outcome' = [outcome EXCEPT ![worker[w]] = o]
    BY <1>5 DEF FinishSub
  <2> DEFINE i == worker[w]
  <2>2. i \in Subs /\ outcome[i] = NotRun /\ phaseOne' = phaseOne
    BY <1>5 DEF FinishSub, IInv, SlotsNotShared
  <2>3. verdict = "none" /\ verdict' = "none" /\ Landed = {} /\ Landed' = {}
    BY <1>5 DEF FinishSub, IInv, SlotsNotShared, PhaseInv, Landed
  <2>4. outcome \in [Subs -> Ran \cup {NotRun}]
    BY DEF IInv, TypeOK
  <2>5. CASE o.err = "nil"
    <3>1. Seen' = Seen \cup {i}
      BY <2>1, <2>2, <2>4, <2>5 DEF Seen
    <3>2. i \in 0..N
      BY <2>2
    <3> QED BY <2>3, <3>1, <3>2 DEF Contract!Next, Contract!Read, Seen, Landed
  <2>6. CASE o.err # "nil"
    <3>1. Seen' = Seen
      BY <2>1, <2>2, <2>4, <2>6 DEF Seen, NotRun
    <3> QED BY <1>0, <2>3, <3>1
  <2> QED BY <2>5, <2>6
<1>6. CASE Fold
  <2>1. verdict = "none" /\ verdict' = "none" /\ Landed = {} /\ Landed' = {}
    BY <1>6 DEF Fold, IInv, PhaseInv, Landed
  <2>2. Seen' = Seen \/ Seen' = Seen \cup {0}
    BY <1>6 DEF Fold, IInv, PhaseInv, Seen
  <2>3. CASE Seen' = Seen \cup {0}
    <3>1. 0 \in 0..N
      OBVIOUS
    <3> QED BY <2>1, <2>3, <3>1 DEF Contract!Next, Contract!Read, Seen, Landed
  <2> QED BY <1>0, <2>1, <2>2, <2>3
<1>7. CASE Return
  <2>1. verdict = "none" /\ Seen' = Seen /\ Landed = {} /\ carried' = carried
    BY <1>7 DEF Return, folded, IInv, PhaseInv, Seen, Landed
  <2>2. verdict' \in {"error", "incomplete", "complete"}
    BY <1>7 DEF Return, Completeness
  <2>3. CASE verdict' = "error"
    <3>1. Landed' = Landed
      BY <2>1, <2>3 DEF Landed
    <3> QED BY <2>1, <2>3, <3>1 DEF Contract!Next, Contract!Refuse, Seen, Landed
  <2>4. \A i \in Subs : i \in carried <=> outcome[i].err \in {"nil", "marked"}
    BY <1>7, <2>1 DEF Return, IInv, FoldInv
  <2>5. carried \subseteq Subs /\ Seen \subseteq carried \cup {0}
    BY <2>4 DEF Seen, IInv, TypeOK
  <2>6. CASE verdict' = "incomplete"
    <3>1. Landed' = carried \cup {0}
      BY <2>1, <2>6 DEF Landed
    <3>2. Landed' \in SUBSET (0..N) /\ Seen \subseteq Landed'
      BY <2>5, <3>1
    <3> QED BY <2>1, <2>6, <3>2
            DEF Contract!Next, Contract!AssertIncomplete, Seen, Landed
  <2>7. CASE verdict' = "complete"
    <3>1. phaseOne = "nil" /\ \A i \in Subs : outcome[i].err = "nil"
      <4>1. UNCHANGED <<phaseOne, outcome>>
        BY <1>7 DEF Return
      <4>2. CompleteIsWhole'
        BY DEF IInv
      <4> QED BY <2>7, <4>1, <4>2 DEF CompleteIsWhole
    <3>2. Seen = 0..N
      BY <3>1 DEF Seen
    <3>3. Landed' = 0..N
      <4>1. carried = Subs
        BY <2>4, <2>5, <3>1
      <4>2. Landed' = Subs \cup {0}
        BY <2>1, <2>7, <4>1 DEF Landed
      <4> QED BY <4>2
    <3> QED BY <2>1, <2>7, <3>2, <3>3
            DEF Contract!Next, Contract!AssertComplete, Seen, Landed
  <2> QED BY <2>2, <2>3, <2>6, <2>7
<1> QED BY <1>0, <1>1, <1>2, <1>3, <1>4, <1>5, <1>6, <1>7 DEF Next

(* The walk keeps the contract the server's deletion phase relies on, for  *)
(* any number of enumerations and workers and any cancellation.            *)
THEOREM WalkKeepsContract == Spec => KeepsContract
<1>1. Spec => []IInv
  BY InitInv, NextInv, PTL DEF Spec
<1>2. IInv /\ IInv' /\ [Next]_vars => [Contract!Next]_(Contract!vars)
  BY StepContract
<1> QED BY <1>1, <1>2, InitContract, PTL DEF Spec, KeepsContract, Contract!Spec
-----------------------------------------------------------------------------
(* The gitlab-ci walk.                                                    *)

Has(s, x) == \E k \in DOMAIN s : s[k] = x

LEMMA TailMembers ==
  ASSUME NEW S, NEW s \in Seq(S), s # <<>>
  PROVE  /\ Head(s) \in S /\ Tail(s) \in Seq(S)
         /\ \A x : Has(s, x) <=> x = Head(s) \/ Has(Tail(s), x)
<1>1. Head(s) \in S /\ Tail(s) \in Seq(S) /\ Len(s) \in Nat \ {0}
  OBVIOUS
<1>2. Len(Tail(s)) = Len(s) - 1 /\ \A j \in 1..(Len(s) - 1) : Tail(s)[j] = s[j + 1]
  OBVIOUS
<1>3. DOMAIN s = 1..Len(s) /\ DOMAIN Tail(s) = 1..(Len(s) - 1) /\ Head(s) = s[1]
  BY <1>1, <1>2
<1>4. ASSUME NEW k \in DOMAIN s, s[k] # Head(s) PROVE Has(Tail(s), s[k])
  <2>1. k # 1
    BY <1>3, <1>4
  <2>2. k - 1 \in DOMAIN Tail(s) /\ Tail(s)[k - 1] = s[(k - 1) + 1]
    BY <1>1, <1>2, <1>3, <2>1
  <2>3. (k - 1) + 1 = k
    BY <1>1, <1>3
  <2> QED BY <2>2, <2>3 DEF Has
<1>5. ASSUME NEW j \in DOMAIN Tail(s) PROVE Has(s, Tail(s)[j])
  <2>1. j + 1 \in DOMAIN s /\ Tail(s)[j] = s[j + 1]
    BY <1>1, <1>2, <1>3
  <2> QED BY <2>1 DEF Has
<1>6. Has(s, Head(s))
  <2>1. 1 \in DOMAIN s
    BY <1>1, <1>3
  <2> QED BY <1>3, <2>1 DEF Has
<1>7. \A x : Has(s, x) => x = Head(s) \/ Has(Tail(s), x)
  BY <1>4, Zenon DEF Has
<1>8. \A x : Has(Tail(s), x) => Has(s, x)
  BY <1>5, Zenon DEF Has
<1> QED BY <1>1, <1>6, <1>7, <1>8

LEMMA ConcatMembers ==
  ASSUME NEW S, NEW s \in Seq(S), NEW t \in Seq(S)
  PROVE  /\ s \o t \in Seq(S)
         /\ \A x : Has(s \o t, x) <=> Has(s, x) \/ Has(t, x)
<1>1. s \o t \in Seq(S) /\ Len(s) \in Nat /\ Len(t) \in Nat
  OBVIOUS
<1>2. /\ DOMAIN s = 1..Len(s) /\ DOMAIN t = 1..Len(t)
      /\ DOMAIN (s \o t) = 1..(Len(s) + Len(t))
      /\ \A j \in 1..(Len(s) + Len(t)) :
           (s \o t)[j] = IF j <= Len(s) THEN s[j] ELSE t[j - Len(s)]
  OBVIOUS
<1>3. ASSUME NEW k \in DOMAIN s PROVE Has(s \o t, s[k])
  <2>1. k \in DOMAIN (s \o t) /\ (s \o t)[k] = s[k]
    BY <1>1, <1>2
  <2> QED BY <2>1 DEF Has
<1>4. ASSUME NEW k \in DOMAIN t PROVE Has(s \o t, t[k])
  <2>1. k + Len(s) \in 1..(Len(s) + Len(t)) /\ ~(k + Len(s) <= Len(s))
    BY <1>1, <1>2
  <2>2. (k + Len(s)) - Len(s) = k
    BY <1>1, <1>2
  <2>3. (s \o t)[k + Len(s)] = t[k]
    BY <1>2, <2>1, <2>2
  <2> QED BY <1>2, <2>1, <2>3 DEF Has
<1>5. ASSUME NEW j \in DOMAIN (s \o t)
      PROVE  Has(s, (s \o t)[j]) \/ Has(t, (s \o t)[j])
  <2>1. CASE j <= Len(s)
    BY <1>1, <1>2, <2>1 DEF Has
  <2>2. CASE ~(j <= Len(s))
    <3>1. j - Len(s) \in DOMAIN t /\ (s \o t)[j] = t[j - Len(s)]
      BY <1>1, <1>2, <2>2
    <3> QED BY <3>1 DEF Has
  <2> QED BY <2>1, <2>2
<1>6. \A x : Has(s, x) \/ Has(t, x) => Has(s \o t, x)
  BY <1>3, <1>4, Zenon DEF Has
<1>7. \A x : Has(s \o t, x) => Has(s, x) \/ Has(t, x)
  BY <1>5, Zenon DEF Has
<1> QED BY <1>1, <1>6, <1>7
-----------------------------------------------------------------------------
USE DEF Subs, Idle, Exited

(* A step of this walk is a step of FanOut's, or is invisible there.       *)
LEMMA StepIsFanOut == ASSUME [WalkNext]_gvars PROVE [Next]_vars
<1>1. CASE UNCHANGED gvars
  BY <1>1 DEF gvars
<1>2. ASSUME NEW w \in Workers, AskLister(w) \/ FinishEnumeration(w) PROVE [Next]_vars
  BY <1>2 DEF AskLister, FinishEnumeration, Next
<1>3. CASE DiscoverNext \/ DiscoverEnd \/ FoldDiscovery
  BY <1>3 DEF DiscoverNext, DiscoverEnd, FoldDiscovery, Next
<1>4. CASE WalkNext
  BY <1>2, <1>3, <1>4 DEF WalkNext, Next
<1> QED BY <1>1, <1>4

LEMMA WalkKeepsIInv == WalkSpec => []IInv
<1>1. IInv /\ [WalkNext]_gvars => IInv'
  BY StepIsFanOut, NextInv
<1>2. WalkInit => IInv
  BY InitInv DEF WalkInit
<1> QED BY <1>1, <1>2, PTL DEF WalkSpec

(* FanOut's walk is what this walk does when the discovery is hidden: it   *)
(* has the type, the slots and the completeness proved there.              *)
THEOREM WalkIsFanOut == WalkSpec => Init /\ [][Next]_vars
<1>1. [WalkNext]_gvars => [Next]_vars
  BY StepIsFanOut
<1>2. WalkInit => Init
  BY DEF WalkInit
<1> QED BY <1>1, <1>2, PTL DEF WalkSpec

(* The shared discovery does not cost the walk its contract: what FanOut   *)
(* promises the server's deletion phase, the gitlab walk promises too.     *)
THEOREM GitlabKeepsContract == WalkSpec => KeepsContract
<1>1. IInv /\ IInv' /\ [WalkNext]_gvars => [Contract!Next]_(Contract!vars)
  BY StepIsFanOut, StepContract
<1>2. WalkInit => Contract!Init
  BY InitContract DEF WalkInit
<1> QED BY WalkKeepsIInv, <1>1, <1>2, PTL DEF WalkSpec, KeepsContract, Contract!Spec
-----------------------------------------------------------------------------
Pending(call, g) == \E x \in Listing : Has(todo, x) /\ x.call = call /\ x.of = g

(* While nothing was left out, a group whose projects are listed has its   *)
(* subgroups listed or due, and a subgroup that is known has its projects  *)
(* listed or due.                                                          *)
Frontier ==
  lister # "unasked" /\ partial = {} /\ ~listErr =>
    /\ group \in projects \/ Pending("projects", group)
    /\ \A g \in projects :
         \/ Pending("subgroups", g)
         \/ \A k \in DOMAIN SubgroupsOf[g] :
              \/ SubgroupsOf[g][k] \in projects
              \/ Pending("projects", SubgroupsOf[g][k])

(* The discovery never leaves the tree of the group it was asked for.      *)
WithinTree ==
  /\ projects \subseteq TreeOf(group)
  /\ \A x \in Listing : Has(todo, x) => x.of \in TreeOf(group)

(* The Once is over before anybody is handed a list, and only a worker     *)
(* inside an enumeration can be running it.                                *)
OnceInv ==
  /\ lister = "running" => \E w \in Workers : worker[w] \in Subs
  /\ lister = "done" => todo = <<>>
  /\ listErr => lister = "done"
  /\ lister # "unasked" => provider = "gitlab"

EmptyUnasked == lister = "unasked" => projects = {} /\ todo = <<>>

HandedInv ==
  provider = "gitlab" =>
    \A i \in Subs : outcome[i] # NotRun =>
      /\ lister = "done"
      /\ handed[i] = projects
      /\ listErr => outcome[i].err = "failed"

ReportInv ==
  provider = "gitlab" /\ phase \in {"folded", "returned"} /\ phaseOne = "nil"
    => partial = {}

DInv ==
  /\ ListerOK
  /\ Frontier
  /\ WithinTree
  /\ OnceInv
  /\ EmptyUnasked
  /\ HandedInv
  /\ ReportInv

LEMMA TreeFacts ==
  ASSUME NEW root \in Group
  PROVE  /\ root \in TreeOf(root)
         /\ \A g \in TreeOf(root) : g \in Group /\
              \A k \in DOMAIN SubgroupsOf[g] : SubgroupsOf[g][k] \in TreeOf(root)
         /\ \A S \in SUBSET Group : root \in S /\ Closed(S) => TreeOf(root) \subseteq S
<1>1. root \in TreeOf(root)
  BY DEF TreeOf
<1>2. ASSUME NEW g \in TreeOf(root), NEW k \in DOMAIN SubgroupsOf[g]
      PROVE  SubgroupsOf[g][k] \in TreeOf(root)
  <2>1. g \in Group
    BY DEF TreeOf
  <2>2. SubgroupsOf[g] \in Seq(Group)
    BY <2>1, GroupAssumption
  <2>3. SubgroupsOf[g][k] \in Group
    BY <2>2
  <2>4. ASSUME NEW S \in SUBSET Group, root \in S, Closed(S)
        PROVE  SubgroupsOf[g][k] \in S
    <3>1. g \in S
      BY <2>4 DEF TreeOf
    <3> QED BY <2>4, <3>1 DEF Closed
  <2> QED BY <2>3, <2>4 DEF TreeOf
<1>3. ASSUME NEW S \in SUBSET Group, root \in S, Closed(S) PROVE TreeOf(root) \subseteq S
  BY <1>3 DEF TreeOf
<1>4. \A g \in TreeOf(root) : g \in Group
  BY DEF TreeOf
<1> QED BY <1>1, <1>2, <1>3, <1>4

LEMMA DInit == WalkInit => DInv
<1> SUFFICES ASSUME WalkInit PROVE DInv
  OBVIOUS
<1> USE DEF WalkInit
<1>1. ListerOK
  <2>1. todo \in Seq(Listing)
    OBVIOUS
  <2>2. handed \in [Subs -> SUBSET Group]
    OBVIOUS
  <2> QED BY <2>1, <2>2 DEF ListerOK
<1>2. Frontier /\ WithinTree
  BY DEF Frontier, WithinTree, Has
<1>3. OnceInv /\ EmptyUnasked /\ HandedInv /\ ReportInv
  BY DEF OnceInv, EmptyUnasked, HandedInv, ReportInv, Init
<1> QED BY <1>1, <1>2, <1>3 DEF DInv

(* The steps of the fan-out leave the discovery as it is.                  *)
LEMMA FanOutStep ==
  ASSUME IInv, DInv, Undisturbed,
         \/ CancelContext \/ RefuseToStart \/ Start \/ StopFeeding
         \/ CloseWork \/ Return \/ Done
         \/ \E w \in Workers : Feed(w) \/ ExitWorker(w)
  PROVE  DInv'
<1> USE DEF Undisturbed, discovery
<1>1. ListerOK' /\ Frontier' /\ WithinTree' /\ EmptyUnasked'
  BY DEF DInv, ListerOK, Frontier, WithinTree, EmptyUnasked, Pending
<1>2. UNCHANGED <<provider, outcome>>
  BY DEF CancelContext, RefuseToStart, Start, StopFeeding, CloseWork, Return,
     Done, Feed, ExitWorker, vars
<1>3. HandedInv'
  BY <1>2 DEF DInv, HandedInv
<1>4. ASSUME NEW w \in Workers, worker[w] \in Subs
      PROVE  \E v \in Workers : worker'[v] \in Subs
  <2>1. CASE UNCHANGED worker
    BY <1>4, <2>1
  <2>2. ASSUME NEW v \in Workers, Feed(v) PROVE worker'[w] \in Subs
    <3>1. worker[v] = 0 /\ worker' = [worker EXCEPT ![v] = next]
      BY <2>2 DEF Feed
    <3>2. w # v
      BY <1>4, <3>1
    <3> QED BY <1>4, <3>1, <3>2 DEF IInv, TypeOK
  <2>3. ASSUME NEW v \in Workers, ExitWorker(v) PROVE worker'[w] \in Subs
    <3>1. worker[v] = 0 /\ worker' = [worker EXCEPT ![v] = -1]
      BY <2>3 DEF ExitWorker
    <3>2. w # v
      BY <1>4, <3>1
    <3> QED BY <1>4, <3>1, <3>2 DEF IInv, TypeOK
  <2> QED BY <1>4, <2>1, <2>2, <2>3 DEF CancelContext, RefuseToStart, Start,
             StopFeeding, CloseWork, Return, Done, vars
<1>5. OnceInv'
  BY <1>2, <1>4 DEF DInv, OnceInv
<1>6. ASSUME phase' \in {"folded", "returned"}, phaseOne' = "nil", provider = "gitlab"
      PROVE  partial = {}
  <2>1. phase \in {"folded", "returned"} /\ phaseOne = "nil"
    BY <1>6 DEF CancelContext, RefuseToStart, Start, StopFeeding, CloseWork,
       Return, Done, Feed, ExitWorker, vars, IInv, PhaseInv
  <2> QED BY <1>6, <2>1 DEF DInv, ReportInv
<1>7. ReportInv'
  BY <1>2, <1>6 DEF ReportInv
<1> QED BY <1>1, <1>3, <1>5, <1>7 DEF DInv

(* A listing succeeds, is left out, or fails at the group itself.          *)
LEMMA DiscoverStep == ASSUME IInv, DInv, DiscoverNext PROVE DInv'
<1> USE DEF DInv, ListerOK
<1>1. todo \in Seq(Listing) /\ todo # <<>> /\ lister = "running" /\ ~listErr
  BY DEF DiscoverNext, OnceInv
<1>a. PICK it \in Listing : it = Head(todo)
  BY <1>1, TailMembers
<1>b. PICK t \in Seq(Listing) : t = Tail(todo)
  BY <1>1, TailMembers
<1>2. \A x : Has(todo, x) <=> x = it \/ Has(t, x)
  BY <1>1, <1>a, <1>b, TailMembers
<1>3. UNCHANGED <<provider, phase, phaseOne, worker, outcome, group, handed>>
  BY DEF DiscoverNext, vars
<1>4. \A i \in Subs : provider = "gitlab" => outcome[i] = NotRun
  BY <1>1 DEF HandedInv
<1>5. phase \notin {"folded", "returned"}
  BY <1>1 DEF OnceInv, IInv, SlotsNotShared
<1>6. HandedInv' /\ ReportInv'
  BY <1>3, <1>4, <1>5 DEF HandedInv, ReportInv
<1>c. EmptyUnasked'
  BY <1>1 DEF DiscoverNext, ListFailed, SkipSubtree, Listed, EmptyUnasked
<1>7. it.of \in TreeOf(group) /\ group \in Group
  <2>1. Has(todo, it)
    BY <1>2
  <2> QED BY <2>1 DEF WithinTree
<1>8. CASE it.depth = 0 /\ ListFailed
  <2>1. ListerOK'
    <3>1. <<>> \in Seq(Listing)
      OBVIOUS
    <3> QED BY <1>3, <1>8, <3>1 DEF ListFailed
  <2>2. Frontier' /\ WithinTree' /\ OnceInv'
    BY <1>1, <1>3, <1>8 DEF ListFailed, Frontier, WithinTree, OnceInv, Has
  <2> QED BY <1>6, <1>c, <2>1, <2>2
<1>9. CASE SkipSubtree(it)
  <2>1. ListerOK'
    BY <1>b, <1>2, <1>3, <1>9 DEF SkipSubtree
  <2>2. Frontier'
    BY <1>9 DEF SkipSubtree, Frontier
  <2>3. WithinTree'
    BY <1>b, <1>2, <1>3, <1>9 DEF SkipSubtree, WithinTree
  <2>4. OnceInv'
    BY <1>1, <1>3, <1>9 DEF SkipSubtree, OnceInv
  <2> QED BY <1>6, <1>c, <2>1, <2>2, <2>3, <2>4
<1>10. ASSUME NEW s \in Seq(Listing), todo' = s \o t
       PROVE  /\ todo' \in Seq(Listing)
              /\ \A x : Has(s, x) \/ Has(t, x) <=> Has(todo', x)
  BY <1>10, ConcatMembers
<1>11. CASE Listed(it) /\ it.call = "projects"
  <2> DEFINE y == Subgroups(it.of, it.depth)
             s == <<y>>
  <2>0. y \in Listing /\ y.call = "subgroups" /\ y.of = it.of
    BY DEF Subgroups, Listing
  <2> HIDE DEF y
  <2>1. s \in Seq(Listing) /\ \A x : Has(s, x) <=> x = y
    BY <2>0 DEF Has
  <2>2. projects' = projects \cup {it.of} /\ todo' = s \o t
        /\ UNCHANGED <<lister, partial, listErr>>
    BY <1>b, <1>11 DEF Listed, y
  <2> HIDE DEF s
  <2>3. /\ todo' \in Seq(Listing)
        /\ \A x : Has(s, x) \/ Has(t, x) <=> Has(todo', x)
    BY <1>10, <2>1, <2>2
  <2>4. ListerOK'
    BY <1>2, <1>3, <2>2, <2>3 DEF Listing
  <2>5. Pending("subgroups", it.of)'
    BY <2>0, <2>1, <2>3 DEF Pending
  <2>6. \A g \in Group : Pending("projects", g) => g = it.of \/ Pending("projects", g)'
    BY <1>2, <2>3 DEF Pending
  <2>7. \A g \in Group : Pending("subgroups", g) => Pending("subgroups", g)'
    BY <1>2, <1>11, <2>3 DEF Pending
  <2>8. \A g \in Group : \A k \in DOMAIN SubgroupsOf[g] : SubgroupsOf[g][k] \in Group
    BY GroupAssumption
  <2>9. Frontier'
    <3> SUFFICES ASSUME partial = {}
                 PROVE  /\ group \in projects' \/ Pending("projects", group)'
                        /\ \A g \in projects' :
                             \/ Pending("subgroups", g)'
                             \/ \A k \in DOMAIN SubgroupsOf[g] :
                                  \/ SubgroupsOf[g][k] \in projects'
                                  \/ Pending("projects", SubgroupsOf[g][k])'
      BY <1>3, <2>2 DEF Frontier
    <3>1. group \in projects' \/ Pending("projects", group)'
      BY <1>1, <1>3, <1>7, <2>2, <2>6 DEF Frontier
    <3>2. ASSUME NEW g \in projects, ~Pending("subgroups", g)', NEW k \in DOMAIN SubgroupsOf[g]
          PROVE  SubgroupsOf[g][k] \in projects' \/ Pending("projects", SubgroupsOf[g][k])'
      <4>1. SubgroupsOf[g][k] \in projects \/ Pending("projects", SubgroupsOf[g][k])
        BY <1>1, <2>7, <3>2 DEF Frontier
      <4> QED BY <2>2, <2>6, <2>8, <3>2, <4>1
    <3> QED BY <2>2, <2>5, <3>1, <3>2
  <2>10. WithinTree'
    BY <1>2, <1>3, <1>7, <2>0, <2>1, <2>2, <2>3 DEF WithinTree
  <2>11. OnceInv'
    BY <1>1, <1>3, <2>2 DEF OnceInv
  <2> QED BY <1>6, <1>c, <2>4, <2>9, <2>10, <2>11
<1>12. CASE Listed(it) /\ it.call # "projects"
  <2> DEFINE sub == SubgroupsOf[it.of]
             y(k) == Projects(sub[k], it.depth + 1)
             s == [k \in DOMAIN sub |-> y(k)]
  <2>1. it.of \in Group /\ it.depth \in Nat /\ it.call = "subgroups"
    BY <1>12 DEF Listing
  <2>2. sub \in Seq(Group)
    BY <2>1, GroupAssumption
  <2>3. \A k \in DOMAIN sub : sub[k] \in Group
    BY <2>2
  <2>4. \A k \in DOMAIN sub : y(k) \in Listing /\ y(k).call = "projects" /\ y(k).of = sub[k]
    BY <2>1, <2>3 DEF Projects, Listing
  <2> HIDE DEF y
  <2>5. s \in Seq(Listing)
    <3>1. Len(sub) \in Nat /\ DOMAIN sub = 1..Len(sub)
      BY <2>2
    <3>2. s \in [1..Len(sub) -> Listing]
      BY <2>4, <3>1
    <3> QED BY <3>1, <3>2
  <2>6. \A x : Has(s, x) <=> \E k \in DOMAIN sub : x = y(k)
    BY DEF Has
  <2>7. projects' = projects /\ todo' = s \o t /\ UNCHANGED <<lister, partial, listErr>>
    BY <1>b, <1>12 DEF Listed, y
  <2> HIDE DEF s
  <2>8. /\ todo' \in Seq(Listing)
        /\ \A x : Has(s, x) \/ Has(t, x) <=> Has(todo', x)
    BY <1>10, <2>5, <2>7
  <2>9. ListerOK'
    BY <1>3, <2>7, <2>8
  <2>10. \A k \in DOMAIN sub : Pending("projects", sub[k])'
    BY <2>4, <2>6, <2>8 DEF Pending
  <2>11. \A g \in Group : Pending("projects", g) => Pending("projects", g)'
    BY <1>2, <2>1, <2>8 DEF Pending
  <2>12. \A g \in Group : Pending("subgroups", g) => g = it.of \/ Pending("subgroups", g)'
    BY <1>2, <2>8 DEF Pending
  <2>13. \A g \in Group : \A k \in DOMAIN SubgroupsOf[g] : SubgroupsOf[g][k] \in Group
    BY GroupAssumption
  <2>14. Frontier'
    <3> SUFFICES ASSUME partial = {}
                 PROVE  /\ group \in projects \/ Pending("projects", group)'
                        /\ \A g \in projects :
                             \/ Pending("subgroups", g)'
                             \/ \A k \in DOMAIN SubgroupsOf[g] :
                                  \/ SubgroupsOf[g][k] \in projects
                                  \/ Pending("projects", SubgroupsOf[g][k])'
      BY <1>3, <2>7 DEF Frontier
    <3>1. group \in projects \/ Pending("projects", group)'
      BY <1>1, <1>3, <1>7, <2>11 DEF Frontier
    <3>2. ASSUME NEW g \in projects, ~Pending("subgroups", g)', NEW k \in DOMAIN SubgroupsOf[g]
          PROVE  SubgroupsOf[g][k] \in projects \/ Pending("projects", SubgroupsOf[g][k])'
      <4>1. CASE g = it.of
        BY <2>10, <3>2, <4>1
      <4>2. CASE g # it.of
        <5>1. SubgroupsOf[g][k] \in projects \/ Pending("projects", SubgroupsOf[g][k])
          BY <1>1, <2>12, <3>2, <4>2 DEF Frontier
        <5> QED BY <2>11, <2>13, <3>2, <5>1
      <4> QED BY <4>1, <4>2
    <3> QED BY <3>1, <3>2
  <2>15. WithinTree'
    <3>1. \A k \in DOMAIN sub : sub[k] \in TreeOf(group)
      BY <1>7, TreeFacts
    <3> QED BY <1>2, <1>3, <2>4, <2>6, <2>7, <2>8, <3>1 DEF WithinTree
  <2>16. OnceInv'
    BY <1>1, <1>3, <2>7 DEF OnceInv
  <2> QED BY <1>6, <1>c, <2>9, <2>14, <2>15, <2>16
<1> QED BY <1>a, <1>8, <1>9, <1>11, <1>12 DEF DiscoverNext

LEMMA DNext == IInv /\ DInv /\ [WalkNext]_gvars => DInv'
<1> SUFFICES ASSUME IInv, DInv, [WalkNext]_gvars PROVE DInv'
  OBVIOUS
<1>1. CASE UNCHANGED gvars
  <2>1. ListerOK' /\ Frontier' /\ WithinTree' /\ EmptyUnasked'
    BY <1>1 DEF DInv, ListerOK, Frontier, WithinTree, EmptyUnasked, Pending, gvars, discovery
  <2>2. OnceInv' /\ HandedInv' /\ ReportInv'
    BY <1>1 DEF DInv, OnceInv, HandedInv, ReportInv, gvars, vars, discovery
  <2> QED BY <2>1, <2>2 DEF DInv
<1>2. ASSUME NEW w \in Workers, AskLister(w) PROVE DInv'
  <2> DEFINE y == Projects(group, 0)
  <2>1. y \in Listing /\ y.call = "projects" /\ y.of = group
    BY DEF DInv, ListerOK, Listing, Projects
  <2> USE <1>2 DEF AskLister
  <2>3. todo' = <<y>>
    OBVIOUS
  <2> HIDE DEF y
  <2>4. todo' \in Seq(Listing) /\ \A x : Has(todo', x) <=> x = y
    BY <2>1, <2>3 DEF Has
  <2>5. ListerOK'
    BY <2>4 DEF DInv, ListerOK
  <2>6. projects = {}
    BY DEF DInv, EmptyUnasked
  <2>7. Pending("projects", group)'
    BY <2>1, <2>4 DEF Pending
  <2>8. Frontier'
    BY <2>6, <2>7 DEF Frontier
  <2>9. WithinTree'
    <3>1. group \in TreeOf(group)
      BY TreeFacts DEF DInv, ListerOK
    <3> QED BY <2>1, <2>4, <2>6, <3>1 DEF WithinTree
  <2>10. OnceInv' /\ HandedInv' /\ ReportInv'
    BY DEF DInv, OnceInv, HandedInv, ReportInv, vars, EmptyUnasked
  <2> QED BY <2>5, <2>8, <2>9, <2>10 DEF DInv, EmptyUnasked
<1>3. CASE DiscoverNext
  BY <1>3, DiscoverStep
<1>4. CASE DiscoverEnd
  BY <1>4 DEF DiscoverEnd, DInv, ListerOK, Frontier, WithinTree, OnceInv,
     HandedInv, ReportInv, EmptyUnasked, Pending, vars
<1>5. ASSUME NEW w \in Workers, FinishEnumeration(w) PROVE DInv'
  <2>1. PICK o \in Ran : outcome' = [outcome EXCEPT ![worker[w]] = o]
    BY <1>5 DEF FinishEnumeration, FinishSub
  <2> DEFINE i == worker[w]
  <2>2. i \in Subs /\ phase \notin {"folded", "returned"}
        /\ UNCHANGED <<provider, phase, group, lister, todo, projects, partial, listErr>>
    BY <1>5 DEF FinishEnumeration, FinishSub, discovery, IInv, SlotsNotShared
  <2>3. provider = "gitlab" => /\ lister = "done"
                               /\ handed' = [handed EXCEPT ![i] = projects]
                               /\ listErr => outcome'[i].err = "failed"
    BY <1>5 DEF FinishEnumeration, Handover
  <2>4. provider # "gitlab" => handed' = handed
    BY <1>5 DEF FinishEnumeration
  <2>5. outcome \in [Subs -> Ran \cup {NotRun}] /\ handed \in [Subs -> SUBSET Group]
    BY DEF IInv, TypeOK, DInv, ListerOK
  <2>6. ListerOK'
    BY <2>2, <2>3, <2>4 DEF DInv, ListerOK
  <2>7. Frontier' /\ WithinTree' /\ EmptyUnasked'
    BY <2>2 DEF DInv, Frontier, WithinTree, EmptyUnasked, Pending
  <2>8. OnceInv' /\ ReportInv'
    BY <2>2, <2>3 DEF DInv, OnceInv, ReportInv
  <2>9. HandedInv'
    <3> SUFFICES ASSUME provider = "gitlab", NEW j \in Subs, outcome'[j] # NotRun
                 PROVE  /\ lister = "done"
                        /\ handed'[j] = projects
                        /\ listErr => outcome'[j].err = "failed"
      BY <2>2 DEF HandedInv
    <3>1. CASE j = i
      BY <2>3, <2>5, <3>1
    <3>2. CASE j # i
      BY <2>1, <2>2, <2>3, <2>5, <3>2 DEF DInv, HandedInv
    <3> QED BY <3>1, <3>2
  <2> QED BY <2>6, <2>7, <2>8, <2>9 DEF DInv
<1>6. CASE FoldDiscovery
  <2> USE <1>6 DEF FoldDiscovery, Undisturbed, discovery, Fold
  <2>1. ListerOK' /\ Frontier' /\ WithinTree' /\ EmptyUnasked'
    BY DEF DInv, ListerOK, Frontier, WithinTree, EmptyUnasked, Pending
  <2>2. OnceInv' /\ HandedInv'
    BY DEF DInv, OnceInv, HandedInv
  <2>3. ReportInv'
    BY DEF ReportInv
  <2> QED BY <2>1, <2>2, <2>3 DEF DInv
<1>7. ASSUME Undisturbed,
             \/ CancelContext \/ RefuseToStart \/ Start \/ StopFeeding
             \/ CloseWork \/ Return \/ Done
             \/ \E w \in Workers : Feed(w) \/ ExitWorker(w)
      PROVE  DInv'
  BY <1>7, FanOutStep
<1> QED BY <1>1, <1>2, <1>3, <1>4, <1>5, <1>6, <1>7 DEF WalkNext

LEMMA WholeTree == IInv /\ DInv => CompleteReadsTree
<1> SUFFICES ASSUME IInv, DInv, provider = "gitlab", verdict = "complete"
             PROVE  /\ projects = TreeOf(group)
                    /\ \A i \in Subs : handed[i] = TreeOf(group)
  BY DEF CompleteReadsTree
<1>1. phaseOne = "nil" /\ \A i \in Subs : outcome[i].err = "nil"
  BY DEF IInv, CompleteIsWhole
<1>2. \A i \in Subs : outcome[i] # NotRun
  BY <1>1 DEF NotRun
<1>3. lister = "done" /\ ~listErr
  <2>1. 1 \in Subs
    BY NAssumption, PlanAssumption
  <2> QED BY <1>1, <1>2, <2>1 DEF DInv, HandedInv
<1>4. partial = {}
  <2>1. phase = "returned"
    BY DEF IInv, PhaseInv
  <2> QED BY <1>1, <2>1 DEF DInv, ReportInv
<1>5. \A call : \A g : ~Pending(call, g)
  BY <1>3 DEF DInv, OnceInv, Pending, Has
<1>6. group \in projects /\ Closed(projects)
  BY <1>3, <1>4, <1>5 DEF DInv, Frontier, Closed
<1>7. TreeOf(group) \subseteq projects
  BY <1>6, TreeFacts DEF DInv, ListerOK
<1>8. projects = TreeOf(group)
  BY <1>7 DEF DInv, WithinTree
<1> QED BY <1>2, <1>8 DEF DInv, HandedInv

LEMMA WalkKeepsDInv == WalkSpec => [](IInv /\ DInv)
<1>1. WalkSpec => []IInv
  BY WalkKeepsIInv
<1> QED BY <1>1, DInit, DNext, PTL DEF WalkSpec

(* A complete gitlab walk has listed the projects of every group below the *)
(* one it was asked for and handed them to every enumeration, for any tree *)
(* of groups, depth limit, number of workers and cancellation.             *)
THEOREM CompleteReadsWholeTree == WalkSpec => []CompleteReadsTree
BY WholeTree, WalkKeepsDInv, PTL

(* Every enumeration of a walk that came back with findings was given the  *)
(* same projects, for any interleaving of askers and discovery.            *)
THEOREM EnumerationsGetOneList == WalkSpec => []EnumerationsAgree
<1>1. DInv => EnumerationsAgree
  BY DEF DInv, HandedInv, EnumerationsAgree, NotRun
<1> QED BY <1>1, WalkKeepsDInv, PTL

(* The state of the shared discovery is well formed in every walk.         *)
THEOREM ListerTypeCorrect == WalkSpec => []ListerOK
<1>1. DInv => ListerOK
  BY DEF DInv
<1> QED BY <1>1, WalkKeepsDInv, PTL
=============================================================================
