------------------------- MODULE ClusterWalk_proof -------------------------
(***************************************************************************)
(* Proofs about ServiceWalk and ClusterWalk: the walks of aws, azure and   *)
(* k8s, for every number of services, places and pages.                    *)
(***************************************************************************)
EXTENDS ClusterWalk, FiniteSetTheorems, TLAPS

USE NAssumption, ConcurrencyAssumption, MaxPagesAssumption, ProvidersAssumption

(* The services whose goroutine has a place of the semaphore.              *)
Busy == {"placed", "checked", "calling"}
Working(f) == {s \in Services : f[s] \in Busy}

PlacesCounted == held = Cardinality(Working(job))

(* The goroutines were started in order, and the kinds are listed in it.   *)
InOrder == \A s \in Services : s < next <=> job[s] # "unstarted"

(* Until its service ends, there is a page of the listing to come.         *)
PagesToCome ==
  \A s \in Services :
    /\ page[s] <= size[s]
    /\ job[s] # "ended" => page[s] < size[s] /\ page[s] < MaxPages
    /\ provider = "azure" => size[s] <= MaxPages

(* A walk that aws or azure may still call complete.                       *)
Stopped == provider = "aws" /\ ctxDone
Whole == failed = {} /\ subreads = {} /\ \A s \in Services : page[s] = size[s]

EndedWhole ==
  provider # "k8s" =>
    \A s \in Services : job[s] = "ended" => page[s] = size[s] \/ s \in failed \/ Stopped

PhaseInv ==
  /\ phase = "starting" => next = 1
  /\ provider # "k8s" /\ phase = "launched" => next = N + 1 \/ Stopped
  /\ phase \in {"joined", "returned"} => Joined
  /\ phase = "joined" => provider # "k8s" /\ (failures = {} => Whole)
  /\ phase # "returned" => verdict = "none"
  /\ phase = "starting" => failures = {}

(* The k8s walk has no goroutines, and a reason for what it did not read.  *)
KindsInv ==
  /\ fixed \in 0..N /\ known \in fixed..N /\ discovered \in BOOLEAN
  /\ provider = "k8s" =>
       /\ phase \in {"starting", "launching", "returned"}
       /\ \A s \in Services : job[s] \in {"unstarted", "ended"}
       /\ failed = {} /\ subreads = {}
       /\ next <= known + 1
       /\ ~discovered => known = fixed
       /\ discovered => known = N \/ DiscoveryMark \in failures
       /\ phase # "returned" =>
            \A s \in Services : s < next => page[s] = size[s] \/ s \in failures

IInv ==
  /\ TypeOK
  /\ PlacesCounted
  /\ InOrder
  /\ PagesToCome
  /\ EndedWhole
  /\ PhaseInv
  /\ KindsInv
  /\ CompleteIsWhole
-----------------------------------------------------------------------------
LEMMA ServicesFinite ==
  \A S \in SUBSET Services : IsFiniteSet(S) /\ Cardinality(S) \in Nat
<1>1. IsFiniteSet(Services)
  BY FS_Interval DEF Services
<1> QED BY <1>1, FS_Subset, FS_CardinalityType

(* A place is counted when a job begins to hold it, and given back when it *)
(* no longer does.                                                         *)
LEMMA PlaceChange ==
  ASSUME NEW f \in [Services -> Jobs], NEW s \in Services, NEW j \in Jobs
  PROVE  LET g == [f EXCEPT ![s] = j] IN
         /\ Cardinality(Working(f)) \in Nat
         /\ Cardinality(Working(g)) \in Nat
         /\ f[s] \notin Busy /\ j \in Busy =>
              Cardinality(Working(g)) = Cardinality(Working(f)) + 1
         /\ f[s] \in Busy /\ j \notin Busy =>
              Cardinality(Working(g)) = Cardinality(Working(f)) - 1
         /\ (f[s] \in Busy <=> j \in Busy) =>
              Cardinality(Working(g)) = Cardinality(Working(f))
<1> DEFINE g == [f EXCEPT ![s] = j]
<1>1. /\ IsFiniteSet(Working(f)) /\ Cardinality(Working(f)) \in Nat
      /\ IsFiniteSet(Working(g)) /\ Cardinality(Working(g)) \in Nat
  BY ServicesFinite DEF Working
<1>2. ASSUME f[s] \notin Busy, j \in Busy
      PROVE  Cardinality(Working(g)) = Cardinality(Working(f)) + 1
  <2>1. Working(g) = Working(f) \cup {s} /\ s \notin Working(f)
    BY <1>2 DEF Working
  <2> QED BY <1>1, <2>1, FS_AddElement
<1>3. ASSUME f[s] \in Busy, j \notin Busy
      PROVE  Cardinality(Working(g)) = Cardinality(Working(f)) - 1
  <2>1. Working(g) = Working(f) \ {s} /\ s \in Working(f)
    BY <1>3 DEF Working
  <2> QED BY <1>1, <2>1, FS_RemoveElement
<1>4. ASSUME f[s] \in Busy <=> j \in Busy
      PROVE  Cardinality(Working(g)) = Cardinality(Working(f))
  <2>1. Working(g) = Working(f)
    BY <1>4 DEF Working
  <2> QED BY <2>1
<1> QED BY <1>1, <1>2, <1>3, <1>4

LEMMA InitInv == ClusterInit => IInv
<1> SUFFICES ASSUME ClusterInit PROVE IInv
  OBVIOUS
<1>1. Working(job) = {}
  BY DEF ClusterInit, Init, Working, Busy
<1>2. PlacesCounted
  BY <1>1, FS_EmptySet DEF PlacesCounted, ClusterInit, Init
<1>3. TypeOK
  <2>1. /\ provider \in Providers /\ next \in 1..(N + 1) /\ held \in 0..Concurrency
        /\ size \in [Services -> 1..(MaxPages + 1)]
    BY DEF ClusterInit, Init
  <2>2. page \in [Services -> 0..MaxPages] /\ carried \in [Services -> 0..MaxPages]
    BY DEF ClusterInit, Init
  <2>3. job \in [Services -> Jobs]
    BY DEF ClusterInit, Init, Jobs
  <2>4. /\ ctxDone \in BOOLEAN
        /\ phase \in {"starting", "launching", "launched", "joined", "returned"}
        /\ failed \in SUBSET Services /\ subreads \in SUBSET Services
        /\ failures \in SUBSET (Services \cup {CancelledMark})
        /\ verdict \in {"none", "error", "incomplete", "complete"}
    BY DEF ClusterInit, Init
  <2> QED BY <2>1, <2>2, <2>3, <2>4 DEF TypeOK
<1>4. InOrder /\ PagesToCome /\ EndedWhole
  BY DEF ClusterInit, Init, InOrder, PagesToCome, EndedWhole, Services
<1>5. PhaseInv /\ CompleteIsWhole
  BY DEF ClusterInit, Init, PhaseInv, CompleteIsWhole
<1>6. KindsInv
  <2>1. fixed \in 0..N /\ known = fixed /\ discovered = FALSE
    BY DEF ClusterInit
  <2>2. /\ \A s \in Services : job[s] = "unstarted"
        /\ failed = {} /\ subreads = {} /\ next = 1 /\ phase = "starting"
    BY DEF ClusterInit, Init
  <2>3. known \in fixed..N /\ next <= known + 1 /\ \A s \in Services : ~(s < next)
    BY <2>1, <2>2 DEF Services
  <2> QED BY <2>1, <2>2, <2>3 DEF KindsInv
<1> QED BY <1>2, <1>3, <1>4, <1>5, <1>6 DEF IInv
-----------------------------------------------------------------------------
(* What every step of a service's goroutine is: it moves one job to j and  *)
(* its listing to p, keeps the count of places, and ends for a reason.     *)
Holds(j) == IF j \in Busy THEN 1 ELSE 0

JobMove(s, j, p) ==
  /\ job[s] \notin {"unstarted", "ended"}
  /\ job' = [job EXCEPT ![s] = j]
  /\ held' = held + Holds(j) - Holds(job[s])
  /\ held' <= Concurrency
  /\ page' = [page EXCEPT ![s] = p]
  /\ p <= size[s]
  /\ j # "ended" => p < size[s] /\ p < MaxPages
  /\ failed \subseteq failed' /\ failed' \subseteq Services
  /\ subreads' \subseteq Services
  /\ j = "ended" => p = size[s] \/ s \in failed' \/ Stopped
  /\ UNCHANGED <<source, ctxDone, phase, next, ending>>

LEMMA JobStep ==
  ASSUME IInv, provider # "k8s", UNCHANGED kinds,
         NEW s \in Services, NEW j \in Jobs \ {"unstarted"}, NEW p \in 0..MaxPages,
         JobMove(s, j, p)
  PROVE  IInv'
<1> USE DEF IInv
<1>0. ~Joined
  BY DEF Joined, JobMove
<1>1. phase \notin {"joined", "returned"}
  BY <1>0 DEF PhaseInv
<1>2. TypeOK /\ UNCHANGED <<provider, size, ctxDone, phase, next, failures, carried, verdict,
                           fixed, discovered, known>>
  BY DEF source, ending, kinds, JobMove
<1>3. job \in [Services -> Jobs] /\ job' \in [Services -> Jobs]
  BY <1>2 DEF TypeOK, JobMove
<1>4. page \in [Services -> 0..MaxPages] /\ page' \in [Services -> 0..MaxPages]
  BY <1>2 DEF TypeOK, JobMove
<1>5. PlacesCounted' /\ held' \in Nat
  <2>1. job' = [job EXCEPT ![s] = j] /\ held = Cardinality(Working(job))
        /\ held' = held + Holds(j) - Holds(job[s])
    BY DEF PlacesCounted, JobMove
  <2>2. /\ Cardinality(Working(job)) \in Nat /\ Cardinality(Working(job')) \in Nat
        /\ job[s] \notin Busy /\ j \in Busy =>
             Cardinality(Working(job')) = Cardinality(Working(job)) + 1
        /\ job[s] \in Busy /\ j \notin Busy =>
             Cardinality(Working(job')) = Cardinality(Working(job)) - 1
        /\ (job[s] \in Busy <=> j \in Busy) =>
             Cardinality(Working(job')) = Cardinality(Working(job))
    BY <1>3, <2>1, PlaceChange
  <2>3. held' = Cardinality(Working(job'))
    BY <2>1, <2>2 DEF Holds
  <2> QED BY <2>2, <2>3 DEF PlacesCounted
<1>6. TypeOK'
  BY <1>2, <1>3, <1>4, <1>5 DEF TypeOK, JobMove
<1>7. InOrder'
  BY <1>2, <1>3 DEF InOrder, JobMove
<1>8. PagesToCome'
  BY <1>2, <1>3, <1>4 DEF PagesToCome, JobMove
<1>9. EndedWhole'
  BY <1>2, <1>3, <1>4 DEF EndedWhole, Stopped, JobMove
<1>10. PhaseInv'
  BY <1>1, <1>2 DEF PhaseInv, Stopped
<1>11. KindsInv'
  BY <1>2 DEF KindsInv
<1>12. CompleteIsWhole'
  BY <1>1, <1>2 DEF CompleteIsWhole, PhaseInv
<1> QED BY <1>5, <1>6, <1>7, <1>8, <1>9, <1>10, <1>11, <1>12

LEMMA GoroutineStep ==
  ASSUME IInv, provider # "k8s", UNCHANGED kinds, NEW s \in Services,
         Take(s) \/ GiveUp(s) \/ CheckContext(s) \/ Call(s) \/ CallFails(s) \/ VisitPage(s)
  PROVE  IInv'
<1>1. /\ TypeOK /\ page \in [Services -> 0..MaxPages] /\ page[s] \in 0..MaxPages
      /\ failed \subseteq Services /\ subreads \subseteq Services
      /\ held \in Nat /\ held <= Concurrency /\ size[s] \in 1..(MaxPages + 1)
  BY DEF IInv, TypeOK
<1>2. page[s] <= size[s]
      /\ (job[s] # "ended" => page[s] < size[s] /\ page[s] < MaxPages)
      /\ (provider = "azure" => size[s] <= MaxPages)
  BY DEF IInv, PagesToCome
<1>3. page = [page EXCEPT ![s] = page[s]]
  BY <1>1
<1>4. Jobs \ {"unstarted"} = {"waiting", "placed", "checked", "calling", "ended"}
  BY DEF Jobs
<1>5. provider \in {"aws", "azure"}
  BY <1>1 DEF TypeOK
<1>6. CASE Take(s)
  <2>1. JobMove(s, "placed", page[s])
    BY <1>1, <1>2, <1>3, <1>6 DEF Take, JobMove, Holds, found, Busy
  <2> QED BY <1>1, <1>4, <2>1, JobStep
<1>7. CASE GiveUp(s)
  <2>1. JobMove(s, "ended", page[s])
    BY <1>1, <1>2, <1>3, <1>7 DEF GiveUp, JobMove, Holds, found, Busy, Stopped
  <2> QED BY <1>1, <1>4, <2>1, JobStep
<1>8. CASE CheckContext(s)
  <2>1. CASE ctxDone /\ End(s, {s})
    <3>1. JobMove(s, "ended", page[s])
      BY <1>1, <1>2, <1>3, <1>8, <2>1 DEF CheckContext, End, JobMove, Holds, Busy
    <3> QED BY <1>1, <1>4, <3>1, JobStep
  <2>2. CASE job' = [job EXCEPT ![s] = "checked"] /\ UNCHANGED <<held, failed>>
    <3>1. JobMove(s, "checked", page[s])
      BY <1>1, <1>2, <1>3, <1>8, <2>2 DEF CheckContext, JobMove, Holds, Busy
    <3> QED BY <1>1, <1>4, <3>1, JobStep
  <2> QED BY <1>8, <2>1, <2>2 DEF CheckContext
<1>9. CASE Call(s)
  <2>1. CASE End(s, {s})
    <3>1. JobMove(s, "ended", page[s])
      BY <1>1, <1>2, <1>3, <1>9, <2>1 DEF Call, End, JobMove, Holds, Busy
    <3> QED BY <1>1, <1>4, <3>1, JobStep
  <2>2. CASE job' = [job EXCEPT ![s] = "calling"] /\ UNCHANGED <<held, failed>>
    <3>1. JobMove(s, "calling", page[s])
      BY <1>1, <1>2, <1>3, <1>9, <2>2 DEF Call, JobMove, Holds, Busy
    <3> QED BY <1>1, <1>4, <3>1, JobStep
  <2> QED BY <1>9, <2>1, <2>2 DEF Call
<1>10. CASE CallFails(s)
  <2>1. JobMove(s, "ended", page[s])
    BY <1>1, <1>2, <1>3, <1>10 DEF CallFails, End, JobMove, Holds, Busy
  <2> QED BY <1>1, <1>4, <2>1, JobStep
<1>11. CASE VisitPage(s)
  <2>1. /\ job[s] = "calling" /\ page' = [page EXCEPT ![s] = page[s] + 1]
        /\ UNCHANGED <<source, ctxDone, phase, next, ending>>
    BY <1>11 DEF VisitPage
  <2>2. subreads' \subseteq Services
    BY <1>1, <1>11 DEF VisitPage
  <2>3. page[s] + 1 \in 0..MaxPages /\ page[s] + 1 <= size[s]
    BY <1>1, <1>2, <2>1
  <2>4. CASE (LastPage(s) /\ End(s, {})) \/ End(s, {s})
    <3>1. JobMove(s, "ended", page[s] + 1)
      BY <1>1, <2>1, <2>2, <2>3, <2>4 DEF LastPage, End, JobMove, Holds, Busy
    <3> QED BY <1>4, <2>3, <3>1, JobStep
  <2>5. CASE /\ ~LastPage(s) /\ ~TooManyPages(s)
             /\ job' = [job EXCEPT ![s] = IF provider = "aws" THEN "placed" ELSE "checked"]
             /\ UNCHANGED <<held, failed>>
    <3>1. page[s] + 1 < size[s] /\ page[s] + 1 < MaxPages
      BY <1>1, <1>2, <1>5, <2>3, <2>5 DEF LastPage, TooManyPages
    <3> DEFINE j == IF provider = "aws" THEN "placed" ELSE "checked"
    <3>2. j \in Busy /\ j # "ended" /\ j \in Jobs \ {"unstarted"}
      BY <1>4 DEF Busy
    <3>3. "calling" \in Busy
      BY DEF Busy
    <3>4. JobMove(s, j, page[s] + 1)
      BY <1>1, <2>1, <2>2, <2>3, <2>5, <3>1, <3>2, <3>3 DEF JobMove, Holds
    <3> HIDE DEF j
    <3> QED BY <2>3, <3>2, <3>4, JobStep
  <2> QED BY <1>11, <2>4, <2>5 DEF VisitPage
<1> QED BY <1>6, <1>7, <1>8, <1>9, <1>10, <1>11

LEMMA Stutter ==
  ASSUME IInv, UNCHANGED clusterVars
  PROVE  IInv'
BY DEF IInv, clusterVars, vars, kinds, TypeOK, PlacesCounted, InOrder, PagesToCome, EndedWhole,
       Stopped, PhaseInv, Joined, Whole, KindsInv, CompleteIsWhole

LEMMA ServiceStepInv ==
  ASSUME IInv, ServiceStep
  PROVE  IInv'
<1> USE DEF IInv
<1>1. UNCHANGED kinds /\ UNCHANGED <<fixed, discovered, known>>
  BY DEF ServiceStep, kinds
<1>2. TypeOK
  OBVIOUS
<1>3. CASE CancelContext
  <2>1. TypeOK' /\ PlacesCounted' /\ InOrder' /\ PagesToCome'
    BY <1>3 DEF CancelContext, source, found, ending, TypeOK, PlacesCounted, InOrder, PagesToCome
  <2>2. EndedWhole' /\ PhaseInv' /\ CompleteIsWhole'
    BY <1>3 DEF CancelContext, source, found, ending, EndedWhole, Stopped, PhaseInv, Joined,
                Whole, CompleteIsWhole
  <2>3. KindsInv'
    BY <1>1, <1>3 DEF CancelContext, source, found, ending, KindsInv
  <2> QED BY <2>1, <2>2, <2>3
<1>4. CASE RefuseToStart
  <2>1. TypeOK' /\ PlacesCounted' /\ InOrder' /\ PagesToCome'
    BY <1>4 DEF RefuseToStart, source, found, TypeOK, PlacesCounted, InOrder, PagesToCome
  <2>2. Joined'
    <3>1. \A s \in Services : ~(s < next)
      BY <1>4 DEF RefuseToStart, PhaseInv, Services
    <3> QED BY <1>4, <3>1 DEF RefuseToStart, InOrder, Joined
  <2>3. EndedWhole' /\ PhaseInv' /\ CompleteIsWhole'
    BY <1>4, <2>2 DEF RefuseToStart, source, found, EndedWhole, Stopped, PhaseInv, CompleteIsWhole
  <2>4. KindsInv'
    BY <1>1, <1>4 DEF RefuseToStart, source, found, KindsInv
  <2> QED BY <2>1, <2>2, <2>3, <2>4
<1>5. CASE Start
  <2>1. TypeOK' /\ PlacesCounted' /\ InOrder' /\ PagesToCome'
    BY <1>5 DEF Start, source, found, ending, TypeOK, PlacesCounted, InOrder, PagesToCome
  <2>2. EndedWhole' /\ PhaseInv' /\ CompleteIsWhole'
    BY <1>5 DEF Start, source, found, ending, EndedWhole, Stopped, PhaseInv, CompleteIsWhole
  <2>3. KindsInv'
    BY <1>1, <1>5 DEF Start, source, found, ending, KindsInv
  <2> QED BY <2>1, <2>2, <2>3
<1>6. CASE provider # "k8s" /\ Launch
  <2>1. /\ phase = "launching" /\ next \in Services /\ job' = [job EXCEPT ![next] = "waiting"]
        /\ next' = next + 1 /\ UNCHANGED <<source, ctxDone, phase, held, found, ending>>
    BY <1>6 DEF Launch, TypeOK, Services
  <2>2. job \in [Services -> Jobs] /\ job[next] = "unstarted" /\ "waiting" \in Jobs
    BY <2>1 DEF TypeOK, InOrder, Jobs, Services
  <2>3. TypeOK'
    <3>1. next' \in 1..(N + 1)
      BY <2>1 DEF Services
    <3>2. job' \in [Services -> Jobs]
      BY <2>1, <2>2
    <3> QED BY <2>1, <3>1, <3>2 DEF source, found, ending, TypeOK
  <2>4. PlacesCounted'
    <3>1. job[next] \notin Busy /\ "waiting" \notin Busy
      BY <2>2 DEF Busy
    <3>2. Cardinality(Working(job')) = Cardinality(Working(job))
      BY <2>1, <2>2, <3>1, PlaceChange
    <3> QED BY <2>1, <3>2 DEF PlacesCounted
  <2>5. InOrder'
    BY <2>1, <2>2 DEF InOrder, Services
  <2>6. PagesToCome' /\ EndedWhole'
    BY <2>1, <2>2 DEF source, found, PagesToCome, EndedWhole, Stopped
  <2>7. PhaseInv' /\ CompleteIsWhole'
    BY <2>1 DEF source, ending, PhaseInv, CompleteIsWhole
  <2>8. KindsInv'
    BY <1>1, <1>6, <2>1 DEF source, KindsInv
  <2> QED BY <2>3, <2>4, <2>5, <2>6, <2>7, <2>8
<1>7. CASE provider # "k8s" /\ EndLaunch
  <2>1. TypeOK' /\ PlacesCounted' /\ InOrder' /\ PagesToCome'
    BY <1>7 DEF EndLaunch, source, found, ending, TypeOK, PlacesCounted, InOrder, PagesToCome
  <2>2. next = N + 1 \/ Stopped
    BY <1>7 DEF EndLaunch, TypeOK, Stopped
  <2>3. EndedWhole' /\ PhaseInv' /\ CompleteIsWhole'
    BY <1>7, <2>2 DEF EndLaunch, source, found, ending, EndedWhole, Stopped, PhaseInv,
                      CompleteIsWhole
  <2>4. KindsInv'
    BY <1>1, <1>7 DEF EndLaunch, source, found, ending, KindsInv
  <2> QED BY <2>1, <2>3, <2>4
<1>8. ASSUME provider # "k8s", NEW s \in Services,
             Take(s) \/ GiveUp(s) \/ CheckContext(s) \/ Call(s) \/ CallFails(s) \/ VisitPage(s)
      PROVE  IInv'
  BY <1>1, <1>8, GoroutineStep
<1>9. CASE provider # "k8s" /\ Join
  <2>1. /\ phase = "launched" /\ Joined /\ phase' = "joined" /\ failures' = Failures
        /\ UNCHANGED <<source, ctxDone, next, job, held, found, carried, verdict>>
    BY <1>9 DEF Join
  <2>2. Failures \subseteq Services \cup {CancelledMark}
    BY DEF TypeOK, Failures
  <2>3. TypeOK'
    BY <2>1, <2>2 DEF source, found, TypeOK
  <2>4. ASSUME Failures = {} PROVE Whole
    <3>1. failed = {} /\ subreads = {} /\ ~Stopped
      BY <2>4 DEF Failures, Stopped
    <3>2. next = N + 1
      BY <1>9, <2>1, <3>1 DEF PhaseInv
    <3>3. \A s \in Services : job[s] = "ended"
      BY <2>1, <3>2 DEF InOrder, Joined, Services
    <3> QED BY <1>9, <3>1, <3>3 DEF EndedWhole, Whole
  <2>5. PlacesCounted' /\ InOrder' /\ PagesToCome' /\ EndedWhole'
    BY <2>1 DEF source, found, PlacesCounted, InOrder, PagesToCome, EndedWhole, Stopped
  <2>6. PhaseInv'
    BY <1>9, <2>1, <2>4 DEF source, found, PhaseInv, Joined, Whole
  <2>7. CompleteIsWhole' /\ KindsInv'
    BY <1>1, <1>9, <2>1 DEF source, found, PhaseInv, CompleteIsWhole, KindsInv
  <2> QED BY <2>3, <2>5, <2>6, <2>7
<1>10. CASE provider # "k8s" /\ Return
  <2>1. TypeOK'
    BY <1>10 DEF Return, Carried, source, found, TypeOK
  <2>2. PlacesCounted' /\ InOrder' /\ PagesToCome' /\ EndedWhole'
    BY <1>10 DEF Return, source, found, PlacesCounted, InOrder, PagesToCome, EndedWhole, Stopped
  <2>3. PhaseInv' /\ KindsInv'
    BY <1>1, <1>10 DEF Return, source, found, PhaseInv, Joined, KindsInv
  <2>4. CompleteIsWhole'
    BY <1>10 DEF Return, Carried, source, found, PhaseInv, Whole, CompleteIsWhole
  <2> QED BY <2>1, <2>2, <2>3, <2>4
<1>11. CASE Done
  BY <1>1, <1>11, Stutter DEF Done, clusterVars
<1> QED
  BY <1>3, <1>4, <1>5, <1>6, <1>7, <1>8, <1>9, <1>10, <1>11 DEF ServiceStep, Next
-----------------------------------------------------------------------------
(* Going on to the next kind, with a reason if not all of it was read.     *)
LEMMA PassKindInv ==
  ASSUME IInv, Listing, Kind <= known, NEW p \in 0..MaxPages,
         page' = [page EXCEPT ![Kind] = p], p <= size[Kind],
         NEW r \in SUBSET {Kind}, p = size[Kind] \/ r = {Kind},
         PassKind(failures \cup r),
         UNCHANGED <<source, ctxDone, phase, held, failed, subreads, carried, verdict, kinds>>
  PROVE  IInv'
<1> USE DEF IInv
<1>1. /\ provider = "k8s" /\ phase = "launching" /\ verdict = "none"
      /\ next <= known /\ known \in 0..N /\ next \in 1..(N + 1)
  BY DEF Listing, Kind, PhaseInv, KindsInv, TypeOK
<1>2. next \in Services
  BY <1>1 DEF Services
<1>3. /\ job' = [job EXCEPT ![next] = "ended"] /\ next' = next + 1
      /\ failures' = failures \cup r /\ page' = [page EXCEPT ![next] = p]
      /\ UNCHANGED <<provider, size, ctxDone, phase, held, failed, subreads, carried, verdict,
                     fixed, discovered, known>>
  BY DEF PassKind, Kind, source, kinds
<1>4. /\ job \in [Services -> Jobs] /\ page \in [Services -> 0..MaxPages]
      /\ failures \subseteq Services \cup {CancelledMark} /\ "ended" \in Jobs
  BY DEF TypeOK, Jobs
<1>5. job[next] = "unstarted"
  BY <1>1, <1>2 DEF InOrder
<1>6. TypeOK'
  <2>1. next' \in 1..(N + 1) /\ failures' \subseteq Services \cup {CancelledMark}
    BY <1>1, <1>2, <1>3, <1>4 DEF Kind
  <2>2. job' \in [Services -> Jobs] /\ page' \in [Services -> 0..MaxPages]
    BY <1>2, <1>3, <1>4
  <2> QED BY <1>3, <2>1, <2>2 DEF TypeOK
<1>7. PlacesCounted'
  <2>1. job[next] \notin Busy /\ "ended" \notin Busy
    BY <1>5 DEF Busy
  <2>2. Cardinality(Working(job')) = Cardinality(Working(job))
    BY <1>2, <1>3, <1>4, <2>1, PlaceChange
  <2> QED BY <1>3, <2>2 DEF PlacesCounted
<1>8. InOrder'
  BY <1>1, <1>2, <1>3, <1>4 DEF InOrder, Services
<1>9. PagesToCome'
  <2>1. p <= size[next]
    BY DEF Kind
  <2> QED BY <1>1, <1>2, <1>3, <1>4, <2>1 DEF PagesToCome
<1>10. EndedWhole' /\ PhaseInv' /\ CompleteIsWhole'
  BY <1>1, <1>3 DEF EndedWhole, PhaseInv, CompleteIsWhole
<1>11. KindsInv'
  <2>1. \A s \in Services : s < next' => page'[s] = size[s] \/ s \in failures'
    <3> SUFFICES ASSUME NEW s \in Services, s < next'
                 PROVE  page'[s] = size[s] \/ s \in failures'
      OBVIOUS
    <3>1. CASE s = next
      BY <1>2, <1>3, <1>4, <3>1 DEF Kind
    <3>2. CASE s # next
      <4>1. s < next
        BY <1>1, <1>3, <3>2 DEF Services
      <4>2. page[s] = size[s] \/ s \in failures
        BY <1>1, <4>1 DEF KindsInv
      <4> QED BY <1>3, <1>4, <3>2, <4>2
    <3> QED BY <3>1, <3>2
  <2>2. \A s \in Services : job'[s] \in {"unstarted", "ended"}
    BY <1>1, <1>2, <1>3, <1>4 DEF KindsInv
  <2>3. next' <= known + 1
    BY <1>1, <1>3
  <2> QED BY <1>1, <1>3, <2>1, <2>2, <2>3 DEF KindsInv
<1> QED BY <1>6, <1>7, <1>8, <1>9, <1>10, <1>11

LEMMA ListClusterInv ==
  ASSUME IInv, ListCluster
  PROVE  IInv'
<1> USE DEF IInv
<1>1. provider = "k8s" /\ phase = "launching" /\ verdict = "none" /\ Listing
  BY DEF ListCluster, ListKind, KindNotServed, Discover, ClusterFails, ClusterEnds, Listing,
         PhaseInv
<1>2. /\ next \in 1..(N + 1) /\ known \in 0..N
      /\ job \in [Services -> Jobs] /\ page \in [Services -> 0..MaxPages]
      /\ size \in [Services -> 1..(MaxPages + 1)]
  BY DEF TypeOK, KindsInv
<1>3. ASSUME next <= known
      PROVE  /\ next \in Services /\ page[next] \in 0..MaxPages /\ size[next] \in 1..(MaxPages + 1)
             /\ page[next] < size[next] /\ page[next] < MaxPages
  <2>1. next \in Services
    BY <1>2, <1>3 DEF Services
  <2>2. job[next] = "unstarted"
    BY <1>2, <2>1 DEF InOrder
  <2> QED BY <1>2, <2>1, <2>2 DEF PagesToCome
<1>4. CASE ListKind
  <2>1. /\ next <= known
        /\ page' = [page EXCEPT ![next] = page[next] + 1]
        /\ UNCHANGED <<source, ctxDone, phase, held, failed, subreads, carried, verdict, kinds>>
    BY <1>4 DEF ListKind, Kind
  <2>2. page[next] + 1 \in 0..MaxPages /\ page[next] + 1 <= size[next]
    BY <1>3, <2>1
  <2>3. CASE LastPage(Kind) /\ PassKind(failures)
    <3>1. page[next] + 1 = size[next] /\ PassKind(failures \cup {})
      BY <2>3 DEF LastPage, Kind
    <3> QED BY <1>1, <2>1, <2>2, <3>1, PassKindInv DEF Kind
  <2>4. CASE PassKind(NoteRest)
    <3>1. PassKind(failures \cup {Kind})
      BY <2>4 DEF NoteRest
    <3> QED BY <1>1, <2>1, <2>2, <3>1, PassKindInv DEF Kind
  <2>5. CASE ~LastPage(Kind) /\ ~AtBound /\ UNCHANGED <<failures, job, next>>
    <3>1. page[next] + 1 < size[next] /\ page[next] + 1 < MaxPages
      BY <1>3, <2>1, <2>2, <2>5 DEF LastPage, AtBound, Kind
    <3>2. UNCHANGED <<provider, size, ctxDone, phase, next, job, held, failed, subreads, failures,
                      carried, verdict, fixed, discovered, known>>
      BY <2>1, <2>5 DEF source, kinds
    <3>3. page' \in [Services -> 0..MaxPages]
      BY <1>2, <2>1, <2>2
    <3>4. TypeOK' /\ PlacesCounted' /\ InOrder'
      BY <3>2, <3>3 DEF TypeOK, PlacesCounted, InOrder
    <3>5. PagesToCome'
      BY <1>2, <2>1, <2>2, <3>1, <3>2 DEF PagesToCome
    <3>6. EndedWhole' /\ PhaseInv' /\ CompleteIsWhole'
      BY <1>1, <3>2 DEF EndedWhole, PhaseInv, CompleteIsWhole
    <3>7. KindsInv'
      <4>1. \A s \in Services : s < next => page'[s] = size[s] \/ s \in failures
        BY <1>1, <1>2, <2>1 DEF KindsInv, Services
      <4> QED BY <1>1, <3>2, <4>1 DEF KindsInv
    <3> QED BY <3>4, <3>5, <3>6, <3>7
  <2> QED BY <1>4, <2>3, <2>4, <2>5 DEF ListKind
<1>5. CASE KindNotServed
  <2>1. /\ next <= known /\ PassKind(failures \cup {Kind})
        /\ page' = [page EXCEPT ![next] = page[next]]
        /\ UNCHANGED <<source, ctxDone, phase, held, failed, subreads, carried, verdict, kinds>>
    BY <1>2, <1>5 DEF KindNotServed, Kind, found
  <2>2. page[next] \in 0..MaxPages /\ page[next] <= size[next]
    BY <1>3, <2>1
  <2> QED BY <1>1, <2>1, <2>2, PassKindInv DEF Kind
<1>6. CASE Discover
  <2>1. /\ next > known /\ ~discovered /\ discovered' = TRUE
        /\ known' \in fixed..N /\ failures' \in SUBSET (Services \cup {CancelledMark})
        /\ known' = N \/ DiscoveryMark \in failures'
        /\ failures \subseteq failures'
        /\ UNCHANGED <<provider, size, ctxDone, phase, next, job, held, page, failed, subreads,
                       carried, verdict, fixed>>
    <3>1. failures \in SUBSET (Services \cup {CancelledMark}) /\ fixed \in 0..N
      BY DEF TypeOK, KindsInv
    <3>2. /\ next > known /\ ~discovered /\ discovered' = TRUE
          /\ UNCHANGED <<provider, size, ctxDone, phase, next, job, held, page, failed, subreads,
                         carried, verdict, fixed>>
      BY <1>6 DEF Discover, Kind, source, found
    <3>3. \/ known' = N /\ failures' = failures
          \/ known' \in fixed..N /\ failures' = failures \cup {DiscoveryMark}
      BY <1>6 DEF Discover
    <3>4. N \in fixed..N
      BY <3>1
    <3>5. failures' \in SUBSET (Services \cup {CancelledMark})
      BY <3>1, <3>3 DEF DiscoveryMark, CancelledMark
    <3> QED BY <3>2, <3>3, <3>4, <3>5
  <2>2. TypeOK' /\ PlacesCounted' /\ InOrder' /\ PagesToCome'
    BY <2>1 DEF TypeOK, PlacesCounted, InOrder, PagesToCome
  <2>3. EndedWhole' /\ PhaseInv' /\ CompleteIsWhole'
    BY <1>1, <2>1 DEF EndedWhole, PhaseInv, CompleteIsWhole
  <2>4. KindsInv'
    <3>1. known = fixed /\ fixed \in 0..N /\ next <= known + 1
      BY <1>1, <2>1 DEF KindsInv
    <3>2. next <= known' + 1
      <4>1. next \in Int /\ fixed \in Int /\ known' \in Int /\ known' >= fixed
        BY <1>2, <2>1, <3>1
      <4>2. next <= fixed + 1
        BY <3>1
      <4>3. \A a, b, c \in Int : a <= b + 1 /\ c >= b => a <= c + 1
        OBVIOUS
      <4> QED BY <4>1, <4>2, <4>3
    <3>3. \A s \in Services : s < next => page[s] = size[s] \/ s \in failures
      BY <1>1 DEF KindsInv
    <3>4. \A s \in Services : s < next' => page'[s] = size'[s] \/ s \in failures'
      BY <2>1, <3>3
    <3>5. /\ phase' \in {"starting", "launching", "returned"}
          /\ \A s \in Services : job'[s] \in {"unstarted", "ended"}
          /\ failed' = {} /\ subreads' = {}
      BY <1>1, <2>1 DEF KindsInv
    <3>6. fixed' \in 0..N /\ known' \in fixed'..N /\ discovered' = TRUE /\ next' <= known' + 1
          /\ (known' = N \/ DiscoveryMark \in failures')
      BY <2>1, <3>1, <3>2
    <3> QED BY <3>4, <3>5, <3>6 DEF KindsInv
  <2> QED BY <2>2, <2>3, <2>4
<1>7. CASE ClusterFails \/ ClusterEnds
  <2>1. /\ phase' = "returned"
        /\ UNCHANGED <<provider, size, ctxDone, next, job, held, page, failed, subreads, failures,
                       fixed, discovered, known>>
    BY <1>7 DEF ClusterFails, ClusterEnds, source, found, kinds
  <2>2. TypeOK' /\ PlacesCounted' /\ InOrder' /\ PagesToCome'
    <3>1. carried' \in [Services -> 0..MaxPages]
          /\ verdict' \in {"error", "incomplete", "complete"}
          /\ UNCHANGED ctxDone
      BY <1>2, <1>7 DEF ClusterFails, ClusterEnds, Carried, TypeOK
    <3> QED BY <2>1, <3>1 DEF TypeOK, PlacesCounted, InOrder, PagesToCome
  <2>3. EndedWhole' /\ PhaseInv'
    <3>1. provider' = "k8s" /\ Joined'
      BY <1>1, <2>1 DEF KindsInv, Joined
    <3> QED BY <2>1, <3>1 DEF EndedWhole, PhaseInv
  <2>4. KindsInv'
    BY <1>1, <2>1 DEF KindsInv
  <2>5. CompleteIsWhole'
    <3>1. CASE verdict' # "complete"
      BY <3>1 DEF CompleteIsWhole
    <3>2. CASE verdict' = "complete"
      <4>1. failures = {} /\ discovered /\ next > known /\ carried' = page
        BY <1>7, <3>2 DEF ClusterFails, ClusterEnds, Carried, Kind
      <4>2. known = N /\ subreads = {}
        BY <1>1, <4>1 DEF KindsInv
      <4>3. \A s \in Services : s < next
        BY <1>2, <4>1, <4>2 DEF Services
      <4>4. \A s \in Services : page[s] = size[s]
        BY <1>1, <4>1, <4>3 DEF KindsInv
      <4> QED BY <2>1, <4>1, <4>2, <4>4 DEF CompleteIsWhole
    <3> QED BY <3>1, <3>2
  <2> QED BY <2>2, <2>3, <2>4, <2>5
<1> QED BY <1>4, <1>5, <1>6, <1>7 DEF ListCluster

LEMMA StepInv == IInv /\ [ClusterNext]_clusterVars => IInv'
BY Stutter, ServiceStepInv, ListClusterInv DEF ClusterNext

LEMMA Invariant == ClusterSpec => []IInv
<1>1. IInv /\ [ClusterNext]_clusterVars => IInv'
  BY StepInv
<1> QED BY InitInv, <1>1, PTL DEF ClusterSpec
-----------------------------------------------------------------------------
(* The walks of aws, azure and k8s never leave their types: no more        *)
(* services work at once than the semaphore has places, since each path    *)
(* out of a goroutine gives back the place it took and no other.           *)
THEOREM TypeCorrect == ClusterSpec => []TypeOK
<1>1. IInv => TypeOK
  BY DEF IInv
<1> QED BY Invariant, <1>1, PTL

(* For every number of services, places and pages: runServiceWalks,        *)
(* runSubCollectors and walkCluster call a walk complete only when every   *)
(* page of every service was visited, carried and related to the others,   *)
(* wherever the cancellation landed.                                       *)
THEOREM CompleteIsEarned == ClusterSpec => []CompleteIsWhole
<1>1. IInv => CompleteIsWhole
  BY DEF IInv
<1> QED BY Invariant, <1>1, PTL
-----------------------------------------------------------------------------
Seen == {s \in Services :
           job[s] = "ended" /\ page[s] = size[s] /\ s \notin failed \cup subreads}
Landed == IF verdict \in {"incomplete", "complete"}
          THEN {s \in Services : carried[s] = size[s]} ELSE {}

LEMMA InitContract == ClusterInit => Contract!Init
<1> SUFFICES ASSUME ClusterInit PROVE Contract!Init
  OBVIOUS
<1>1. Seen = {}
  BY DEF ClusterInit, Init, Seen
<1>2. Landed = {} /\ verdict = "none"
  BY DEF ClusterInit, Init, Landed
<1> QED BY <1>1, <1>2 DEF Contract!Init, Seen, Landed

(* A step that moves one service, and no other, reads at most that one.    *)
Aside(s) ==
  \A t \in Services \ {s} :
    /\ job'[t] = job[t] /\ page'[t] = page[t]
    /\ t \in failed' <=> t \in failed
    /\ t \in subreads' <=> t \in subreads

LEMMA OneRead ==
  ASSUME NEW s \in Services, job[s] # "ended", Aside(s), size' = size,
         verdict = "none", verdict' = "none"
  PROVE  [Contract!Next]_(Contract!vars)
<1>1. Landed = {} /\ Landed' = {}
  BY DEF Landed
<1>2. Seen' = Seen \/ Seen' = Seen \cup {s}
  <2>1. s \notin Seen /\ \A t \in Services \ {s} : t \in Seen' <=> t \in Seen
    BY DEF Seen, Aside
  <2>2. Seen \subseteq Services /\ Seen' \subseteq Services
    BY DEF Seen
  <2> QED BY <2>1, <2>2
<1>3. CASE Seen' = Seen
  BY <1>1, <1>3 DEF Contract!vars, Seen, Landed
<1>4. CASE Seen' = Seen \cup {s}
  BY <1>1, <1>4 DEF Contract!Next, Contract!Read, Seen, Landed
<1> QED BY <1>2, <1>3, <1>4

LEMMA GoroutineAside ==
  ASSUME IInv, NEW s \in Services,
         Take(s) \/ GiveUp(s) \/ CheckContext(s) \/ Call(s) \/ CallFails(s) \/ VisitPage(s)
  PROVE  job[s] # "ended" /\ Aside(s) /\ UNCHANGED <<size, phase, verdict>>
<1>1. job \in [Services -> Jobs] /\ page \in [Services -> 0..MaxPages]
  BY DEF IInv, TypeOK
<1>2. CASE Take(s) \/ GiveUp(s)
  BY <1>1, <1>2 DEF Take, GiveUp, Aside, source, found, ending
<1>3. CASE CheckContext(s)
  BY <1>1, <1>3 DEF CheckContext, End, Aside, source, ending
<1>4. CASE Call(s) \/ CallFails(s)
  BY <1>1, <1>4 DEF Call, CallFails, End, Aside, source, ending
<1>5. CASE VisitPage(s)
  <2>1. \A t \in Services \ {s} : t \in subreads' <=> t \in subreads
    BY <1>5 DEF VisitPage
  <2>2. \A t \in Services \ {s} : t \in failed' <=> t \in failed
    BY <1>5 DEF VisitPage, End
  <2>3. \A t \in Services \ {s} : job'[t] = job[t] /\ page'[t] = page[t]
    BY <1>1, <1>5 DEF VisitPage, End
  <2> QED BY <1>5, <2>1, <2>2, <2>3 DEF VisitPage, Aside, source, ending
<1> QED BY <1>2, <1>3, <1>4, <1>5

(* The verdict: what was carried holds what was read to its end, and a     *)
(* complete verdict is about all of it.                                    *)
LEMMA VerdictKeepsContract ==
  ASSUME IInv, verdict = "none", verdict' \in {"incomplete", "complete"},
         UNCHANGED <<size, job, page, failed, subreads>>, carried' = page,
         verdict' = "complete" => Whole
  PROVE  [Contract!Next]_(Contract!vars)
<1>1. Seen' = Seen /\ Landed = {} /\ Landed' = {s \in Services : page[s] = size[s]}
  BY DEF Seen, Landed
<1>2. Seen \subseteq Landed' /\ Landed' \subseteq Services
  BY <1>1 DEF Seen
<1>3. CASE verdict' = "incomplete"
  BY <1>1, <1>2, <1>3 DEF Contract!Next, Contract!AssertIncomplete, Seen, Landed
<1>4. CASE verdict' = "complete"
  <2>1. \A s \in Services : page[s] = size[s] /\ job[s] = "ended"
    BY <1>4 DEF Whole, IInv, PagesToCome, TypeOK
  <2>2. Seen = Services /\ Landed' = Services
    BY <1>1, <1>4, <2>1 DEF Seen, Whole
  <2> QED BY <1>1, <1>4, <2>2 DEF Contract!Next, Contract!AssertComplete, Seen, Landed
<1> QED BY <1>3, <1>4

(* What the server cannot see.                                             *)
Unseen ==
  /\ UNCHANGED <<size, page, failed, subreads, carried, verdict>>
  /\ \A s \in Services : job'[s] = "ended" <=> job[s] = "ended"

LEMMA UnseenStutters ==
  ASSUME Unseen
  PROVE  UNCHANGED Contract!vars
<1>1. Seen' = Seen /\ Landed' = Landed /\ verdict' = verdict
  BY DEF Unseen, Seen, Landed
<1> QED BY <1>1 DEF Contract!vars, Seen, Landed

LEMMA RefusalKeepsContract ==
  ASSUME verdict = "none", verdict' = "error",
         UNCHANGED <<size, job, page, failed, subreads>>
  PROVE  [Contract!Next]_(Contract!vars)
<1>1. Seen' = Seen /\ Landed = {} /\ Landed' = {}
  BY DEF Seen, Landed
<1> QED BY <1>1 DEF Contract!Next, Contract!Refuse, Seen, Landed

LEMMA StepContract ==
  ASSUME IInv, [ClusterNext]_clusterVars
  PROVE  [Contract!Next]_(Contract!vars)
<1>0. /\ TypeOK /\ InOrder /\ PhaseInv /\ KindsInv
      /\ job \in [Services -> Jobs] /\ page \in [Services -> 0..MaxPages]
  BY DEF IInv, TypeOK
<1>1. CASE UNCHANGED clusterVars
  BY <1>1, UnseenStutters DEF clusterVars, vars, Unseen
<1>2. CASE ServiceStep
  <2>1. CASE CancelContext \/ Start \/ EndLaunch \/ Join \/ Done
    BY <2>1, UnseenStutters DEF CancelContext, Start, EndLaunch, Join, Done, source, found, ending,
                                vars, Unseen
  <2>2. CASE Launch
    <3>1. job' = [job EXCEPT ![next] = "waiting"] /\ next \in Services
          /\ UNCHANGED <<size, page, failed, subreads, carried, verdict>>
      BY <1>0, <2>2 DEF Launch, TypeOK, Services, source, found, ending
    <3>2. job[next] = "unstarted"
      BY <1>0, <3>1 DEF InOrder, Services
    <3> QED BY <1>0, <3>1, <3>2, UnseenStutters DEF Unseen
  <2>3. CASE RefuseToStart
    BY <1>0, <2>3, RefusalKeepsContract DEF RefuseToStart, PhaseInv, source, found
  <2>4. ASSUME NEW s \in Services, provider # "k8s",
               Take(s) \/ GiveUp(s) \/ CheckContext(s) \/ Call(s) \/ CallFails(s) \/ VisitPage(s)
        PROVE  [Contract!Next]_(Contract!vars)
    <3>1. /\ job[s] # "ended" /\ Aside(s) /\ UNCHANGED <<size, phase, verdict>>
      BY <2>4, GoroutineAside
    <3>2. job[s] # "unstarted"
      BY <2>4 DEF Take, GiveUp, CheckContext, Call, CallFails, VisitPage
    <3>3. phase # "returned"
      BY <1>0, <3>1, <3>2 DEF PhaseInv, Joined
    <3> QED BY <1>0, <3>1, <3>3, OneRead DEF PhaseInv
  <2>5. CASE Return
    <3>1. verdict = "none" /\ verdict' \in {"incomplete", "complete"} /\ carried' = page
          /\ UNCHANGED <<size, job, page, failed, subreads>>
          /\ (verdict' = "complete" => Whole)
      BY <1>0, <2>5 DEF Return, Carried, PhaseInv, source, found
    <3> QED BY <3>1, VerdictKeepsContract
  <2> QED BY <1>2, <2>1, <2>2, <2>3, <2>4, <2>5 DEF ServiceStep, Next
<1>3. CASE ListCluster
  <2>0. provider = "k8s" /\ phase = "launching" /\ verdict = "none"
    BY <1>0, <1>3 DEF ListCluster, ListKind, KindNotServed, Discover, ClusterFails, ClusterEnds,
                      Listing, PhaseInv
  <2>1. CASE ListKind \/ KindNotServed
    <3>1. next <= known /\ next \in Services
      BY <1>0, <2>1 DEF ListKind, KindNotServed, Kind, TypeOK, KindsInv, Services
    <3>2. job[next] = "unstarted"
      BY <1>0, <3>1 DEF InOrder, Services
    <3>3. UNCHANGED <<size, failed, subreads, verdict>>
      BY <2>1 DEF ListKind, KindNotServed, source, found
    <3>4. \A t \in Services \ {next} : job'[t] = job[t] /\ page'[t] = page[t]
      BY <1>0, <2>1 DEF ListKind, KindNotServed, PassKind, Kind, found
    <3> QED BY <2>0, <3>1, <3>2, <3>3, <3>4, OneRead DEF Aside
  <2>2. CASE Discover
    BY <2>2, UnseenStutters DEF Discover, source, found, Unseen
  <2>3. CASE ClusterFails
    BY <2>0, <2>3, RefusalKeepsContract DEF ClusterFails, source, found
  <2>4. CASE ClusterEnds
    <3>1. verdict' \in {"incomplete", "complete"} /\ carried' = page
          /\ UNCHANGED <<size, job, page, failed, subreads>>
      BY <2>4 DEF ClusterEnds, Carried, source, found
    <3>2. ASSUME verdict' = "complete" PROVE Whole
      <4>1. failures = {} /\ discovered /\ next > known
        BY <2>4, <3>2 DEF ClusterEnds, Kind
      <4>2. known = N /\ subreads = {} /\ failed = {}
        BY <1>0, <2>0, <4>1 DEF KindsInv
      <4>3. \A s \in Services : s < next
        BY <1>0, <4>1, <4>2 DEF Services, TypeOK
      <4> QED BY <1>0, <2>0, <4>1, <4>2, <4>3 DEF KindsInv, Whole
    <3> QED BY <2>0, <3>1, <3>2, VerdictKeepsContract
  <2> QED BY <1>3, <2>1, <2>2, <2>3, <2>4 DEF ListCluster
<1> QED BY <1>1, <1>2, <1>3 DEF ClusterNext

(* The three walks keep the contract the server's deletion phase relies    *)
(* on: a service is read once, what was read to its end is carried         *)
(* whatever else failed, and complete is said of the whole source only.    *)
THEOREM WalksKeepContract == ClusterSpec => KeepsContract
<1>1. IInv /\ [ClusterNext]_clusterVars => [Contract!Next]_(Contract!vars)
  BY StepContract
<1> QED BY Invariant, InitContract, <1>1, PTL DEF ClusterSpec, KeepsContract, Contract!Spec
=============================================================================
