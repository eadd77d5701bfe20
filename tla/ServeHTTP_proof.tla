-------------------------- MODULE ServeHTTP_proof --------------------------
(***************************************************************************)
(* Proofs about ServeHTTP, for any set of requests, of live items and of   *)
(* stale ones.                                                             *)
(***************************************************************************)
EXTENDS ServeHTTP, TLAPS

(* A walk keeps its contract, and is made for a call that names a collect. *)
WalksHonest ==
  \A r \in Requests :
    /\ Honest(walked[r])
    /\ walked[r] # NotWalked \/ req[r] = "walking" => r \in named
    /\ req[r] = "encoding" => walked[r] # NotWalked

(* What is on its way to the client is what encodeResult made of the walk. *)
AnswersOfWalks ==
  \A r \in Requests :
    req[r] = "answering" =>
      answer[r] = "toolError" \/ (answer[r] = walked[r].assert /\ walked[r] # NotWalked)

IInv == TypeOK /\ WalksHonest /\ AnswersOfWalks

LEMMA InitInv == Init => IInv
<1> SUFFICES ASSUME Init PROVE IInv
  OBVIOUS
<1>1. TypeOK
  BY DEF Init, TypeOK, Answers
<1>2. WalksHonest
  BY DEF Init, WalksHonest, Honest, NotWalked
<1>3. AnswersOfWalks
  BY DEF Init, AnswersOfWalks
<1> QED BY <1>1, <1>2, <1>3 DEF IInv

LEMMA EnvelopeKinds ==
  \A w \in Results \cup {WalkError} :
    Envelope(w) \in Answers \ {"none"} /\ (Envelope(w) = "toolError" \/ Envelope(w) = w.assert)
BY DEF Envelope, Results, WalkError, Answers

(* The client's graph only ever holds what the source held once.           *)
LEMMA CarriedItems == TypeOK => \A r \in Requests : walked[r].carried \in SUBSET Items
BY DEF TypeOK, Results, WalkError, NotWalked

LEMMA InvStep == IInv /\ [Next]_vars => IInv'
<1> SUFFICES ASSUME IInv, [Next]_vars PROVE IInv'
  OBVIOUS
<1> USE DEF IInv
<1>0. UNCHANGED vars => IInv'
  BY DEF vars, process, TypeOK, WalksHonest, AnswersOfWalks
<1>1. ASSUME NEW r \in Requests, Connect(r) PROVE IInv'
  BY <1>1 DEF Connect, process, TypeOK, WalksHonest, AnswersOfWalks
<1>2. ASSUME NEW r \in Requests, Accept(r) PROVE IInv'
  BY <1>2 DEF Accept, process, TypeOK, WalksHonest, AnswersOfWalks
<1>3. ASSUME NEW r \in Requests, CheckID(r) PROVE IInv'
  BY <1>3 DEF CheckID, AnswerWith, process, TypeOK, WalksHonest, AnswersOfWalks, Answers
<1>4. ASSUME NEW r \in Requests, WalkReturns(r) PROVE IInv'
  <2>1. PICK w \in {x \in Results : Honest(x)} \cup {WalkError} :
          walked' = [walked EXCEPT ![r] = w]
    BY <1>4 DEF WalkReturns
  <2>2. w \in Results \cup {WalkError} /\ Honest(w) /\ w # NotWalked
    BY DEF Honest, WalkError, NotWalked, Results
  <2>3. req[r] = "walking" /\ req' = [req EXCEPT ![r] = "encoding"]
        /\ UNCHANGED <<process, named, answer, sessions, graph>>
    BY <1>4 DEF WalkReturns
  <2>4. TypeOK'
    BY <2>1, <2>2, <2>3 DEF process, TypeOK
  <2>5. WalksHonest'
    BY <2>1, <2>2, <2>3 DEF TypeOK, WalksHonest
  <2>6. AnswersOfWalks'
    BY <2>1, <2>3 DEF TypeOK, AnswersOfWalks
  <2> QED BY <2>4, <2>5, <2>6
<1>5. ASSUME NEW r \in Requests, Encode(r) PROVE IInv'
  <2>1. walked[r] \in Results \cup {WalkError} /\ walked[r] # NotWalked
    BY <1>5 DEF Encode, TypeOK, WalksHonest
  <2>2. Envelope(walked[r]) \in Answers \ {"none"}
        /\ (Envelope(walked[r]) = "toolError" \/ Envelope(walked[r]) = walked[r].assert)
    BY <2>1, EnvelopeKinds
  <2> QED
    BY <1>5, <2>1, <2>2 DEF Encode, AnswerWith, process, TypeOK, WalksHonest, AnswersOfWalks
<1>6. ASSUME NEW r \in Requests, Land(r) PROVE IInv'
  <2>1. graph' \in SUBSET (Items \cup Stale)
    BY <1>6, CarriedItems DEF Land, TypeOK
  <2>2. Honest(NotWalked)
    BY DEF Honest, NotWalked
  <2>3. /\ req' = [req EXCEPT ![r] = "landed"]
        /\ walked' = [walked EXCEPT ![r] = NotWalked]
        /\ UNCHANGED <<process, named, answer, sessions>>
    BY <1>6 DEF Land
  <2> QED
    BY <2>1, <2>2, <2>3 DEF process, TypeOK, WalksHonest, AnswersOfWalks
<1>7. ASSUME NEW S \in SUBSET Requests, Cut(S), sessions' \in SUBSET Requests,
             UNCHANGED <<named, graph>>,
             server' \in {"serving", "returned", "exited"}, UNCHANGED <<ctxDone, listener>>,
             stopper' \in {"waiting", "draining", "closing", "done"}
      PROVE IInv'
  <2> DEFINE cut == {r \in S : InFlight(r)}
  <2>1. /\ req' = [r \in Requests |-> IF r \in cut THEN "cut" ELSE req[r]]
        /\ walked' = [r \in Requests |-> IF r \in cut THEN NotWalked ELSE walked[r]]
        /\ answer' = [r \in Requests |-> IF r \in cut THEN "none" ELSE answer[r]]
    BY <1>7 DEF Cut
  <2> HIDE DEF cut
  <2>2. Honest(NotWalked) /\ "none" \in Answers
    BY DEF Honest, NotWalked, Answers
  <2> HIDE DEF IInv
  <2>3. TypeOK'
    BY <1>7, <2>1, <2>2 DEF IInv, TypeOK
  <2>4. WalksHonest' /\ AnswersOfWalks'
    BY <1>7, <2>1, <2>2 DEF IInv, TypeOK, WalksHonest, AnswersOfWalks
  <2> QED BY <2>3, <2>4 DEF IInv
<1>9. CASE CloseSessions
  <2>1. PICK S \in SUBSET sessions : Cut(S)
    BY <1>9 DEF CloseSessions
  <2>2. S \in SUBSET Requests
    BY DEF TypeOK
  <2> QED BY <1>7, <1>9, <2>1, <2>2 DEF CloseSessions, TypeOK
<1>10. CASE ProcessExits
  BY <1>7, <1>10 DEF ProcessExits, TypeOK
<1>11. CASE StopSignal \/ BeginShutdown \/ EndDrain \/ ServeReturns
  BY <1>11 DEF StopSignal, BeginShutdown, EndDrain, ServeReturns, TypeOK, WalksHonest,
               AnswersOfWalks
<1> QED
  BY <1>0, <1>1, <1>2, <1>3, <1>4, <1>5, <1>6, <1>7, <1>9, <1>10, <1>11
  DEF Next, Handler, Gone

(* The state of the server, its requests and its client is well formed,    *)
(* for any set of requests.                                                *)
THEOREM TypeCorrect == Spec => []TypeOK
<1>1. Spec => []IInv
  BY InitInv, InvStep, PTL DEF Spec
<1>2. IInv => TypeOK
  BY DEF IInv
<1> QED BY <1>1, <1>2, PTL
-----------------------------------------------------------------------------
(* Only landing an answer changes what the client holds.                   *)
LEMMA OnlyLandWrites ==
  ASSUME [Next]_vars, graph' # graph
  PROVE  \E r \in Requests : Land(r)
BY DEF Next, vars, Handler, Connect, Accept, CheckID, WalkReturns, Encode,
       StopSignal, BeginShutdown, EndDrain, CloseSessions, ServeReturns, ProcessExits, Gone

(* What a landed answer makes of the graph: only a complete walk of a      *)
(* named collect takes anything out, and it puts the whole source in.      *)
LEMMA LandEffect ==
  ASSUME IInv, NEW r \in Requests, Land(r)
  PROVE  \/ graph \subseteq graph'
         \/ /\ graph' = Items
            /\ r \in named
            /\ walked[r].assert = "complete"
            /\ walked[r].carried = Items
<1>1. CASE Deletes(r)
  <2>1. walked[r].assert = "complete" /\ r \in named
    BY <1>1 DEF IInv, AnswersOfWalks, WalksHonest, Land, Deletes
  <2>2. walked[r].carried = Items
    BY <2>1 DEF IInv, WalksHonest, Honest
  <2> QED BY <1>1, <2>1, <2>2 DEF Land
<1>2. CASE ~Deletes(r)
  BY <1>2 DEF Land
<1> QED BY <1>1, <1>2

(* However walks fail, are cut by a shutdown, return malformed results or  *)
(* land in any order, no item the source holds leaves the client's graph.  *)
THEOREM LiveItemsStay == Spec => NeverErasesLiveItems
<1>1. IInv /\ [Next]_vars => [graph \cap Items \subseteq graph']_vars
  <2> SUFFICES ASSUME IInv, [Next]_vars PROVE graph \cap Items \subseteq graph'
    OBVIOUS
  <2>1. CASE graph' = graph
    BY <2>1
  <2>2. CASE graph' # graph
    BY <2>2, OnlyLandWrites, LandEffect
  <2> QED BY <2>1, <2>2
<1> QED BY <1>1, InitInv, InvStep, PTL DEF Spec, NeverErasesLiveItems

(* Rows are deleted only by a named collect whose walk carried the whole   *)
(* source and asserted it.                                                 *)
THEOREM DeletionsAreEarned == Spec => DeletesOnlyOnWholeWalk
<1> DEFINE Earned ==
      graph \ graph' # {} =>
        \E r \in Requests : /\ req[r] = "answering" /\ req'[r] = "landed"
                            /\ r \in named
                            /\ walked[r].assert = "complete"
                            /\ walked[r].carried = Items
<1>1. IInv /\ [Next]_vars => Earned
  <2> SUFFICES ASSUME IInv, [Next]_vars, graph \ graph' # {} PROVE Earned
    OBVIOUS
  <2>1. PICK r \in Requests : Land(r)
    BY OnlyLandWrites
  <2>2. r \in named /\ walked[r].assert = "complete" /\ walked[r].carried = Items
    BY <2>1, LandEffect
  <2>3. req[r] = "answering" /\ req'[r] = "landed"
    BY <2>1 DEF Land, IInv, TypeOK
  <2> QED BY <2>2, <2>3
<1>2. IInv /\ [Next]_vars => [Earned]_vars
  BY <1>1
<1> QED BY <1>2, InitInv, InvStep, PTL DEF Spec, DeletesOnlyOnWholeWalk
=============================================================================
