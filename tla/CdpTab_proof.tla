---------------------------- MODULE CdpTab_proof ----------------------------
(***************************************************************************)
(* Proofs about CdpTab, for every number of operations and of documents    *)
(* replaced.                                                               *)
(***************************************************************************)
EXTENDS CdpTab, FiniteSetTheorems, TLAPS

Commands == [id : Nat, name : Calling, target : Targets]
Replies == [id : Nat, result : Results]
EventMessages == [event : Events, target : Targets]

(* Operations on a tab have one, and only finitely many evaluations wait.  *)
TypeInv ==
  /\ TypeOK
  /\ IsFiniteSet(running)
  /\ pc \in Waiting \cup Releasing => tab # "none"

USE BoundsAssumption

LEMMA TypeInit == Init => TypeInv
<1> SUFFICES ASSUME Init PROVE TypeInv
  OBVIOUS
<1>1. page \in [Targets -> {"absent", "between", "live", "ready"}]
  BY DEF Init, Targets
<1>2. commands \in Seq(Commands) /\ stream \in Seq(Messages)
  BY DEF Init
<1>3. ops \in 0..MaxOps /\ navs \in 0..MaxNavs /\ calls \in Nat
  BY DEF Init
<1>4. /\ sessions \in SUBSET Targets /\ own \in SUBSET {"own"}
      /\ running \in SUBSET [id : Nat, target : Targets]
      /\ subs \in SUBSET Events /\ signals \in SUBSET subs
  BY DEF Init
<1>5. /\ moved \in BOOLEAN /\ enabled \in BOOLEAN /\ closing \in BOOLEAN /\ done \in BOOLEAN
      /\ usable \in BOOLEAN /\ ctxDone \in BOOLEAN /\ ended \in BOOLEAN /\ late \in BOOLEAN
      /\ released \in BOOLEAN
  BY DEF Init
<1>6. IsFiniteSet(running) /\ pc = "idle"
  BY FS_EmptySet DEF Init
<1>7. /\ tab \in Targets \cup {"none"} /\ reply \in Results \cup {"none"}
      /\ detached \in {"none", "nil", "error"}
  BY DEF Init
<1> QED BY <1>1, <1>2, <1>3, <1>4, <1>5, <1>6, <1>7
        DEF TypeInv, TypeOK, Commands, Waiting, Releasing

(* A finite set can be put in an order.                                    *)
LEMMA Enumerated ==
  ASSUME NEW S, IsFiniteSet(S)
  PROVE  SetToSeq(S) \in Seq(S)
<1>1. Cardinality(S) \in Nat /\ \E f : f \in Bijection(1..Cardinality(S), S)
  BY FS_CardinalityType DEF ExistsBijection
<1>2. PICK f \in [1..Cardinality(S) -> S] : IsInjective(f)
  BY <1>1 DEF Bijection, Injection
<1>3. SetToSeq(S) \in [1..Cardinality(S) -> S]
  BY <1>2 DEF SetToSeq
<1> QED BY <1>1, <1>3

(* Whatever the evaluations of a tab are answered, that is replies.        *)
LEMMA AnswersType ==
  ASSUME TypeInv, NEW t, NEW r \in Results
  PROVE  Answers(t, r) \in Seq(Replies)
<1> DEFINE replies == {Reply(e.id, r) : e \in Running(t)}
<1>1. IsFiniteSet(Running(t)) /\ Running(t) \in SUBSET [id : Nat, target : Targets]
  <2>1. Running(t) \in SUBSET running
    BY DEF Running
  <2> QED BY <2>1, FS_Subset DEF TypeInv, TypeOK
<1>2. replies \in SUBSET Replies
  BY <1>1 DEF Reply, Replies
<1>3. IsFiniteSet(replies)
  <2> DEFINE f == [e \in Running(t) |-> Reply(e.id, r)]
  <2>1. f \in Surjection(Running(t), replies)
    BY DEF Surjection
  <2> QED BY <1>1, <2>1, FS_Surjection
<1>4. SetToSeq(replies) \in Seq(replies)
  BY <1>3, Enumerated
<1>5. SetToSeq(replies) \in Seq(Replies)
  <2> HIDE DEF replies
  <2> QED BY <1>2, <1>4
<1> QED BY <1>5 DEF Answers

(* Emit only adds to the stream what it is given.                          *)
LEMMA EmitType ==
  ASSUME NEW X, stream \in Seq(X), NEW q \in Seq(X), Emit(q)
  PROVE  stream' \in Seq(X)
BY DEF Emit

LEMMA SendType ==
  ASSUME TypeInv, NEW name \in Calling, NEW t \in Targets, Send(name, t)
  PROVE  /\ calls' \in Nat /\ reply' = "none" /\ pc' = name
         /\ commands' \in Seq(Commands)
         /\ UNCHANGED <<stream, done>>
<1>1. commands \in Seq(Commands) /\ calls + 1 \in Nat
  BY DEF TypeInv, TypeOK, Commands
<1>2. [id |-> calls + 1, name |-> name, target |-> t] \in Commands
  BY <1>1 DEF Commands
<1>3. commands' \in Seq(Commands)
  BY <1>1, <1>2 DEF Send
<1> QED BY <1>1, <1>3 DEF Send

(* A call that is started, with what the operation around it changes.      *)
LEMMA SendKeepsType ==
  ASSUME TypeInv, NEW name \in Calling, NEW t \in Targets, Send(name, t),
         UNCHANGED <<chrome, usable, subs, released, detached, signals, ctxDone, history>>,
         own' \in SUBSET {"own"}, ops' \in 0..MaxOps,
         tab' \in Targets \cup {"none"}, name \in Waiting \cup Releasing => tab' # "none"
  PROVE  TypeInv'
<1>1. /\ calls' \in Nat /\ reply' = "none" /\ pc' = name
      /\ commands' \in Seq(Commands)
      /\ UNCHANGED <<stream, done>>
  BY SendType
<1> QED BY <1>1 DEF TypeInv, TypeOK, Commands, chrome, history

(* A step of the collector without a call.                                 *)
LEMMA CollectorKeepsType ==
  ASSUME TypeInv, UNCHANGED <<chrome, calls, reply, own, ctxDone, ended>>,
         pc' \in {"idle", "closed"} \cup Calling \cup Waiting \cup Releasing,
         tab' \in Targets \cup {"none"}, pc' \in Waiting \cup Releasing => tab' # "none",
         commands' \in Seq(Commands), stream' \in Seq(Messages), done' \in BOOLEAN,
         usable' \in BOOLEAN, subs' \in SUBSET Events, signals' \in SUBSET subs',
         ops' \in 0..MaxOps, late' \in BOOLEAN, released' \in BOOLEAN,
         detached' \in {"none", "nil", "error"}
  PROVE  TypeInv'
BY DEF TypeInv, TypeOK, Commands, chrome

(* A step of Chrome.                                                       *)
LEMMA ChromeKeepsType ==
  ASSUME TypeInv, UNCHANGED <<done, collector, signals, ctxDone, history>>,
         page' \in [Targets -> {"absent", "between", "live", "ready"}],
         moved' \in BOOLEAN, sessions' \in SUBSET Targets, enabled' \in BOOLEAN,
         closing' \in BOOLEAN, navs' \in 0..MaxNavs,
         running' \in SUBSET [id : Nat, target : Targets], IsFiniteSet(running'),
         commands' \in Seq(Commands), stream' \in Seq(Messages)
  PROVE  TypeInv'
BY DEF TypeInv, TypeOK, Commands, collector, history

LEMMA OperationType == TypeInv /\ Operation => TypeInv'
<1> SUFFICES ASSUME TypeInv, Operation PROVE TypeInv'
  OBVIOUS
<1>1. /\ tab \in Targets \cup {"none"} /\ own \in SUBSET {"own"} /\ ops \in 0..MaxOps
      /\ "own" \in Targets /\ "user" \in Targets
      /\ Start => ops' \in 0..MaxOps
      /\ commands \in Seq(Commands)
  BY DEF TypeInv, TypeOK, Targets, Start, Commands
<1>2. CASE OpenTab
  BY <1>1, <1>2, SendKeepsType DEF OpenTab, Calling, Waiting, Releasing
<1>3. CASE AttachTab
  BY <1>1, <1>3, SendKeepsType DEF AttachTab, Calling, Waiting, Releasing
<1>4. CASE Navigate
  BY <1>1, <1>4, SendKeepsType DEF Navigate, Calling, Waiting, Releasing
<1>5. CASE WaitFor
  <2>1. /\ pc' = "wait" /\ tab # "none"
        /\ UNCHANGED <<chrome, wire, own, tab, usable, calls, reply, subs, released, detached,
                       signals, ctxDone, history>>
    BY <1>5 DEF WaitFor
  <2> QED BY <1>1, <1>5, <2>1
          DEF WaitFor, wire, history, chrome, TypeInv, TypeOK, Waiting, Commands
<1>6. CASE Release
  <2>1. /\ pc' = "release" /\ tab # "none" /\ ops' \in 0..MaxOps
        /\ UNCHANGED <<chrome, wire, own, tab, usable, calls, reply, released, detached,
                       ctxDone, history>>
    BY <1>1, <1>6 DEF Release
  <2>2. subs' \in SUBSET Events /\ signals' \in SUBSET subs'
    BY <1>6 DEF Release, WatchesFor, Subscribe, unsubscribed, TypeInv, TypeOK, Events
  <2> QED BY <1>1, <2>1, <2>2
          DEF wire, history, chrome, TypeInv, TypeOK, Waiting, Releasing, Commands
<1>7. CASE Detach
  <2>1. UNCHANGED ops
    BY <1>7 DEF Detach
  <2> QED BY <1>1, <1>7, <2>1, SendKeepsType DEF Detach, Calling, Waiting, Releasing
<1> QED BY <1>2, <1>3, <1>4, <1>5, <1>6, <1>7 DEF Operation

LEMMA CollectorType == TypeInv /\ Collector => TypeInv'
<1> SUFFICES ASSUME TypeInv, Collector PROVE TypeInv'
  OBVIOUS
<1>1. /\ tab \in Targets \cup {"none"} /\ own \in SUBSET {"own"} /\ ops \in 0..MaxOps
      /\ "own" \in Targets /\ "user" \in Targets
      /\ commands \in Seq(Commands)
      /\ pc \in Waiting \cup Releasing => tab # "none"
  BY DEF TypeInv, TypeOK, Targets, Commands
<1>2. CASE Created
  <2>1. own' \in SUBSET {"own"} /\ UNCHANGED <<tab, ops>>
    BY <1>1, <1>2 DEF Created
  <2> QED BY <1>1, <1>2, <2>1, SendKeepsType DEF Created, Calling, Waiting, Releasing
<1>3. CASE AttachedOwn
  <2>1. tab' = "own" /\ UNCHANGED <<own, ops>>
    BY <1>3 DEF AttachedOwn
  <2> QED BY <1>1, <1>3, <2>1, SendKeepsType DEF AttachedOwn, Calling, Waiting, Releasing
<1>4. CASE Evaluate
  <2>1. tab \in Targets /\ tab # "none"
    BY <1>1, <1>4 DEF Evaluate, Waiting
  <2>2. /\ Send("eval", tab) /\ UNCHANGED <<own, tab, ops>>
        /\ UNCHANGED <<chrome, usable, subs, released, detached, signals, ctxDone, history>>
    BY <1>4 DEF Evaluate
  <2>3. "eval" \in Calling
    BY DEF Calling
  <2> QED BY <1>1, <2>1, <2>2, <2>3, SendKeepsType
<1>5. CASE CloseOrDetach
  <2>1. tab \in Targets /\ tab # "none"
    BY <1>1, <1>5 DEF CloseOrDetach, Releasing
  <2>2. /\ \E name \in {"close", "detach"} : Send(name, tab)
        /\ UNCHANGED <<own, tab, ops>>
        /\ UNCHANGED <<chrome, usable, subs, released, detached, signals, ctxDone, history>>
    BY <1>5 DEF CloseOrDetach
  <2>3. {"close", "detach"} \subseteq Calling
    BY DEF Calling
  <2> QED BY <1>1, <2>1, <2>2, <2>3, SendKeepsType
<1>6. CASE AttachedUser \/ Enabled \/ CallEnds
  <2>1. /\ pc' = "idle" /\ tab' \in {tab, "user"} /\ usable' \in BOOLEAN
        /\ UNCHANGED <<chrome, wire, own, calls, reply, subs, ops, released, detached, signals,
                       ctxDone, history>>
    BY <1>6 DEF AttachedUser, Enabled, CallEnds, TypeInv, TypeOK
  <2> QED BY <1>1, <2>1
          DEF wire, history, chrome, TypeInv, TypeOK, Waiting, Releasing, Commands
<1>7. CASE WaitRound \/ EvalEnds \/ NextDocument \/ GiveUp
  <2>1. /\ pc \in Waiting \cup {"eval"} /\ pc' \in {"idle", "subscribed", "select", "wait"}
        /\ UNCHANGED <<chrome, wire, own, tab, usable, calls, reply, ops, released, detached,
                       ctxDone, ended>>
        /\ late' \in BOOLEAN
    BY <1>7 DEF WaitRound, EvalEnds, NextDocument, GiveUp, StopWaiting, EvalFailed, Waiting,
                history, TypeInv, TypeOK
  <2>2. subs' \in SUBSET Events /\ signals' \in SUBSET subs'
    BY <1>7 DEF WaitRound, EvalEnds, NextDocument, GiveUp, StopWaiting, EvalFailed, Subscribe,
                Unsubscribe, unsubscribed, Events, TypeInv, TypeOK
  <2> QED BY <1>1, <2>1, <2>2
          DEF wire, chrome, TypeInv, TypeOK, Waiting, Releasing, Commands
<1>8. CASE CloseAnswered \/ Destroyed \/ DetachedFromTab \/ ReleaseFails
  <2>1. /\ pc \in Releasing \cup {"close", "detach"}
        /\ \/ pc' = "destroying" /\ tab' = tab
           \/ pc' = "idle" /\ tab' \in {tab, "none"}
        /\ UNCHANGED <<chrome, wire, own, usable, calls, reply, ops, detached, ctxDone, history>>
        /\ released' \in BOOLEAN
    BY <1>8 DEF CloseAnswered, CloseAccepted, Destroyed, DetachedFromTab, ReleaseFails,
                StopWaiting, Releasing, TypeInv, TypeOK
  <2>2. subs' \in SUBSET Events /\ signals' \in SUBSET subs'
    BY <1>8 DEF CloseAnswered, CloseAccepted, Destroyed, DetachedFromTab, ReleaseFails,
                StopWaiting, Unsubscribe, unsubscribed, TypeInv, TypeOK
  <2> QED BY <1>1, <2>1, <2>2
          DEF wire, history, chrome, TypeInv, TypeOK, Waiting, Releasing, Commands
<1>9. CASE DetachEnds
  <2>1. /\ pc' = "closed" /\ done' = TRUE /\ commands' = <<>> /\ stream' = <<>>
        /\ detached' \in {"nil", "error"}
        /\ UNCHANGED <<chrome, own, tab, usable, calls, reply, subs, ops, released, signals,
                       ctxDone, history>>
    BY <1>9 DEF DetachEnds
  <2>2. commands' \in Seq(Commands) /\ stream' \in Seq(Messages)
    BY <2>1
  <2> QED BY <1>1, <2>1, <2>2
          DEF history, chrome, TypeInv, TypeOK, Waiting, Releasing, Commands
<1> QED BY <1>2, <1>3, <1>4, <1>5, <1>6, <1>7, <1>8, <1>9 DEF Collector

LEMMA ReaderType ==
  TypeInv /\ (ReadMessage \/ ConnectionEnds \/ CancelContext) => TypeInv'
<1> SUFFICES ASSUME TypeInv, ReadMessage \/ ConnectionEnds \/ CancelContext PROVE TypeInv'
  OBVIOUS
<1>1. CASE ReadMessage
  <2> DEFINE m == Head(stream)
  <2>1. stream \in Seq(Messages) /\ stream # <<>>
    BY <1>1 DEF ReadMessage, TypeInv, TypeOK
  <2>2. m \in Messages /\ stream' \in Seq(Messages)
    BY <1>1, <2>1 DEF ReadMessage
  <2>3. "id" \in DOMAIN m => m.result \in Results
    BY <2>2 DEF Messages
  <2>4. /\ reply' \in Results \cup {"none"} /\ signals' \in SUBSET subs /\ ended' \in BOOLEAN
    <3> HIDE DEF m
    <3>1. CASE "id" \in DOMAIN m /\ UNCHANGED <<signals, ended>>
               /\ reply' = IF m.id = calls /\ pc \in Calling THEN m.result ELSE reply
      BY <2>3, <3>1 DEF TypeInv, TypeOK
    <3>2. CASE /\ signals' = IF m.target = tab THEN signals \cup Signalled(m.event) ELSE signals
               /\ ended' = (ended \/ m = Event("gone", "own"))
               /\ UNCHANGED reply
      <4>1. ended' \in BOOLEAN
        BY <3>2
      <4> QED BY <3>2, <4>1 DEF TypeInv, TypeOK, Signalled
    <3> QED BY <1>1, <3>1, <3>2 DEF ReadMessage, m
  <2>5. UNCHANGED <<chrome, commands, done, own, tab, usable, pc, calls, subs, ops, released,
                    detached, ctxDone, late>>
    BY <1>1 DEF ReadMessage
  <2> QED BY <2>2, <2>4, <2>5 DEF chrome, TypeInv, TypeOK, Commands
<1>2. CASE ConnectionEnds
  <2>1. stream' \in Seq(Messages) /\ done' = TRUE
        /\ UNCHANGED <<chrome, commands, collector, signals, ctxDone, history>>
    BY <1>2 DEF ConnectionEnds
  <2> QED BY <2>1 DEF chrome, collector, history, TypeInv, TypeOK, Commands
<1>3. CASE CancelContext
  BY <1>3 DEF CancelContext, chrome, wire, collector, history, TypeInv, TypeOK, Commands
<1> QED BY <1>1, <1>2, <1>3

LEMMA ChromeType ==
  TypeInv /\ (Chrome \/ DestroyTab \/ LoadFrame \/ \E t \in Targets : Page(t)) => TypeInv'
<1> SUFFICES ASSUME TypeInv, Chrome \/ DestroyTab \/ LoadFrame \/ \E t \in Targets : Page(t)
             PROVE  TypeInv'
  OBVIOUS
<1> USE DEF chrome
<1>1. /\ page \in [Targets -> {"absent", "between", "live", "ready"}]
      /\ moved \in BOOLEAN /\ sessions \in SUBSET Targets /\ enabled \in BOOLEAN
      /\ closing \in BOOLEAN /\ navs \in 0..MaxNavs
      /\ running \in SUBSET [id : Nat, target : Targets] /\ IsFiniteSet(running)
      /\ commands \in Seq(Commands) /\ stream \in Seq(Messages)
  BY DEF TypeInv, TypeOK, Commands
<1>2. /\ "own" \in Targets /\ "user" \in Targets
      /\ {"ok", "error", "value", "threw", "clean", "changed"} \subseteq Results
      /\ Replies \subseteq Messages /\ EventMessages \subseteq Messages
  BY DEF Targets, Results, Messages, Replies, EventMessages
<1>3. \A t \in Targets, e \in Events : Event(e, t) \in Messages
  BY DEF Event, Messages
<1>4. \A e \in {"created", "gone", "destroyed"} : e \in Events
  BY DEF Events
<1>5. \A t : \A r \in Results : Answers(t, r) \in Seq(Messages)
  <2>1. SUFFICES ASSUME NEW t, NEW r \in Results PROVE Answers(t, r) \in Seq(Messages)
    OBVIOUS
  <2>2. Answers(t, r) \in Seq(Replies)
    BY AnswersType
  <2> QED BY <1>2, <2>2
<1>6. \A S \in SUBSET running : S \in SUBSET [id : Nat, target : Targets] /\ IsFiniteSet(S)
  BY <1>1, FS_Subset
<1>7. \A t \in Targets : Going(t) \in Seq(Messages)
  BY <1>2, <1>3, <1>4, <1>5 DEF Going
<1>8. \A t \in Targets : Announce(t) \in Seq(Messages)
  BY <1>3, <1>4 DEF Announce
<1>9. \A q \in Seq(Messages) : Emit(q) => stream' \in Seq(Messages)
  BY <1>1, EmitType
<1>10. ASSUME NEW t \in Targets, Goes(t)
       PROVE  /\ page' \in [Targets -> {"absent", "between", "live", "ready"}]
              /\ moved' \in BOOLEAN /\ sessions' \in SUBSET Targets /\ enabled' \in BOOLEAN
              /\ closing' \in BOOLEAN /\ navs' \in 0..MaxNavs
              /\ running' \in SUBSET [id : Nat, target : Targets] /\ IsFiniteSet(running')
  BY <1>1, <1>6, <1>10 DEF Goes
<1>11. ASSUME NEW t \in Targets, CloseTab(t) PROVE TypeInv'
  <2>1. stream' \in Seq(Messages)
    BY <1>7, <1>9, <1>11 DEF CloseTab
  <2>2. Goes(t) /\ UNCHANGED <<commands, done, collector, signals, ctxDone, history>>
    BY <1>11 DEF CloseTab
  <2> QED BY <1>1, <1>10, <2>1, <2>2, ChromeKeepsType
<1>12. CASE DestroyTab
  BY <1>2, <1>11, <1>12 DEF DestroyTab
<1>13. CASE LoadFrame
  <2>1. stream' \in Seq(Messages)
    BY <1>2, <1>8, <1>9, <1>13 DEF LoadFrame
  <2>2. /\ UNCHANGED <<commands, done, collector, signals, ctxDone, history>>
        /\ UNCHANGED <<page, moved, sessions, enabled, closing, running>>
        /\ navs' \in 0..MaxNavs
    BY <1>1, <1>13 DEF LoadFrame
  <2> QED BY <1>1, <2>1, <2>2, ChromeKeepsType
<1>14. ASSUME NEW t \in Targets, Page(t) PROVE TypeInv'
  <2>1. CASE CloseTab(t)
    BY <1>11, <2>1
  <2>2. CASE Replace(t)
    <3>1. stream' \in Seq(Messages)
      BY <1>2, <1>5, <1>9, <2>2 DEF Replace
    <3>2. /\ UNCHANGED <<sessions, enabled, closing, commands>>
          /\ UNCHANGED <<done, collector, signals, ctxDone, history>>
          /\ navs' \in 0..MaxNavs /\ moved' \in BOOLEAN
          /\ page' \in [Targets -> {"absent", "between", "live", "ready"}]
          /\ running' \in SUBSET [id : Nat, target : Targets] /\ IsFiniteSet(running')
      BY <1>1, <1>6, <2>2 DEF Replace
    <3> QED BY <1>1, <3>1, <3>2, ChromeKeepsType
  <2>3. CASE NewDocument(t)
    <3>1. stream' \in Seq(Messages)
      BY <1>8, <1>9, <2>3 DEF NewDocument
    <3>2. /\ UNCHANGED <<moved, sessions, enabled, closing, running, navs, commands>>
          /\ UNCHANGED <<done, collector, signals, ctxDone, history>>
          /\ page' \in [Targets -> {"absent", "between", "live", "ready"}]
      BY <1>1, <2>3 DEF NewDocument
    <3> QED BY <1>1, <3>1, <3>2, ChromeKeepsType
  <2>4. CASE Settle(t)
    <3>1. stream' \in Seq(Messages)
      BY <1>2, <1>5, <1>9, <2>4 DEF Settle
    <3>2. /\ UNCHANGED <<moved, sessions, enabled, closing, navs, commands>>
          /\ UNCHANGED <<done, collector, signals, ctxDone, history>>
          /\ page' \in [Targets -> {"absent", "between", "live", "ready"}]
          /\ running' \in SUBSET [id : Nat, target : Targets] /\ IsFiniteSet(running')
      BY <1>1, <1>6, <2>4 DEF Settle
    <3> QED BY <1>1, <3>1, <3>2, ChromeKeepsType
  <2> QED BY <1>14, <2>1, <2>2, <2>3, <2>4 DEF Page
<1>15. CASE Chrome
  <2>1. /\ commands # <<>> /\ commands' = Tail(commands)
        /\ UNCHANGED <<done, collector, signals, ctxDone, history>>
    BY <1>15 DEF Chrome, Handling, HandleCreate, HandleAttach, HandleEnable, HandleNavigate,
                 HandleEval, HandleClose, HandleDetach, HandlePages
  <2>2. /\ commands' \in Seq(Commands) /\ Id \in Nat /\ Target \in Targets
    <3>1. Head(commands) \in Commands /\ Tail(commands) \in Seq(Commands)
      BY <1>1, <2>1
    <3> QED BY <2>1, <3>1 DEF Commands, Id, Target
  <2>3. \A r \in {"ok", "error", "value", "threw", "clean", "changed"} :
          <<Reply(Id, r)>> \in Seq(Messages)
    <3>1. \A r \in Results : Reply(Id, r) \in Messages
      BY <2>2 DEF Reply, Messages
    <3> QED BY <1>2, <3>1
  <2>4. CASE HandleCreate
    <3>1. stream' \in Seq(Messages)
      BY <1>9, <2>3, <2>4 DEF HandleCreate
    <3>2. /\ UNCHANGED <<moved, sessions, enabled, closing, running, navs>>
          /\ page' \in [Targets -> {"absent", "between", "live", "ready"}]
      BY <1>1, <2>4 DEF HandleCreate
    <3> QED BY <1>1, <2>1, <2>2, <3>1, <3>2, ChromeKeepsType
  <2>5. CASE HandleAttach
    <3>1. stream' \in Seq(Messages)
      BY <1>9, <2>3, <2>5 DEF HandleAttach
    <3>2. /\ UNCHANGED <<page, moved, enabled, closing, running, navs>>
          /\ sessions' \in SUBSET Targets
      BY <1>1, <2>2, <2>5 DEF HandleAttach
    <3> QED BY <1>1, <2>1, <2>2, <3>1, <3>2, ChromeKeepsType
  <2>6. CASE HandleEnable
    <3>1. stream' \in Seq(Messages)
      <4>1. (IF HasContext("own") THEN <<Event("created", "own")>> ELSE <<>>)
              \o <<Reply(Id, "ok")>> \in Seq(Messages)
        BY <1>2, <1>3, <1>4, <2>3
      <4> QED BY <1>9, <2>3, <2>6, <4>1 DEF HandleEnable
    <3>2. /\ UNCHANGED <<page, moved, sessions, closing, running, navs>>
          /\ enabled' \in BOOLEAN
      BY <1>1, <2>6 DEF HandleEnable
    <3> QED BY <1>1, <2>1, <2>2, <3>1, <3>2, ChromeKeepsType
  <2>7. CASE HandleNavigate
    <3>1. stream' \in Seq(Messages)
      <4>1. /\ Answers("own", "error") \o <<Reply(Id, "ok")>> \in Seq(Messages)
            /\ Answers("own", "error") \o Announce("own") \o <<Reply(Id, "ok")>> \in Seq(Messages)
        BY <1>2, <1>5, <1>8, <2>3
      <4> QED BY <1>9, <2>3, <2>7, <4>1 DEF HandleNavigate
    <3>2. /\ UNCHANGED <<moved, sessions, enabled, closing, navs>>
          /\ page' \in [Targets -> {"absent", "between", "live", "ready"}]
          /\ running' \in SUBSET [id : Nat, target : Targets] /\ IsFiniteSet(running')
      BY <1>1, <1>6, <2>7 DEF HandleNavigate
    <3> QED BY <1>1, <2>1, <2>2, <3>1, <3>2, ChromeKeepsType
  <2>8. CASE HandleEval
    <3>1. stream' \in Seq(Messages)
      BY <1>1, <1>9, <2>3, <2>8 DEF HandleEval
    <3>2. running' \in SUBSET [id : Nat, target : Targets] /\ IsFiniteSet(running')
      <4>1. [id |-> Id, target |-> Target] \in [id : Nat, target : Targets]
        BY <2>2
      <4>2. IsFiniteSet(running \cup {[id |-> Id, target |-> Target]})
        BY <1>1, FS_AddElement
      <4> QED BY <1>1, <2>8, <4>1, <4>2 DEF HandleEval
    <3>3. UNCHANGED <<page, moved, sessions, enabled, closing, navs>>
      BY <2>8 DEF HandleEval
    <3> QED BY <1>1, <2>1, <2>2, <3>1, <3>2, <3>3, ChromeKeepsType
  <2>9. CASE HandleClose
    <3>1. CASE Emit(<<Reply(Id, "error")>>)
               /\ UNCHANGED <<page, sessions, enabled, closing, running, moved, navs>>
      <4>1. stream' \in Seq(Messages)
        BY <1>9, <2>3, <3>1
      <4> QED BY <1>1, <2>1, <2>2, <3>1, <4>1, ChromeKeepsType
    <3>2. CASE Emit(<<Reply(Id, "ok")>>) /\ closing' = TRUE
               /\ UNCHANGED <<page, sessions, enabled, running, moved, navs>>
      <4>1. stream' \in Seq(Messages) /\ closing' \in BOOLEAN
        BY <1>9, <2>3, <3>2
      <4> QED BY <1>1, <2>1, <2>2, <3>2, <4>1, ChromeKeepsType
    <3>3. CASE Emit(Going("own") \o <<Reply(Id, "ok")>>) /\ Goes("own")
      <4>1. Going("own") \o <<Reply(Id, "ok")>> \in Seq(Messages)
        BY <1>2, <1>7, <2>3
      <4>2. stream' \in Seq(Messages)
        BY <1>9, <3>3, <4>1
      <4> QED BY <1>2, <1>10, <2>1, <2>2, <3>3, <4>2, ChromeKeepsType
    <3> QED BY <2>9, <3>1, <3>2, <3>3 DEF HandleClose
  <2>10. CASE HandleDetach
    <3>1. stream' \in Seq(Messages)
      <4>1. <<Event("gone", "user"), Reply(Id, "ok")>> \in Seq(Messages)
        BY <1>2, <1>3, <1>4, <2>3
      <4> QED BY <1>9, <2>3, <2>10, <4>1 DEF HandleDetach
    <3>2. /\ UNCHANGED <<page, moved, enabled, closing, navs>>
          /\ sessions' \in SUBSET Targets
          /\ running' \in SUBSET [id : Nat, target : Targets] /\ IsFiniteSet(running')
      BY <1>1, <1>6, <2>10 DEF HandleDetach
    <3> QED BY <1>1, <2>1, <2>2, <3>1, <3>2, ChromeKeepsType
  <2>11. CASE HandlePages
    <3>1. stream' \in Seq(Messages)
      BY <1>9, <2>3, <2>11 DEF HandlePages
    <3>2. UNCHANGED <<page, moved, sessions, enabled, closing, running, navs>>
      BY <2>11 DEF HandlePages
    <3> QED BY <1>1, <2>1, <2>2, <3>1, <3>2, ChromeKeepsType
  <2> QED BY <1>15, <2>4, <2>5, <2>6, <2>7, <2>8, <2>9, <2>10, <2>11 DEF Chrome
<1> QED BY <1>12, <1>13, <1>14, <1>15

LEMMA TypeNext == TypeInv /\ [Next]_vars => TypeInv'
<1> SUFFICES ASSUME TypeInv, [Next]_vars PROVE TypeInv'
  OBVIOUS
<1>1. CASE UNCHANGED vars
  BY <1>1 DEF vars, chrome, wire, collector, history, TypeInv, TypeOK
<1> QED BY <1>1, OperationType, CollectorType, ReaderType, ChromeType DEF Next, Done

(* The tab's state has its type, for any number of operations and of       *)
(* documents replaced: whatever is in flight is a command or a message of  *)
(* the protocol, and an operation on a tab has one.                        *)
THEOREM TypeCorrect == Spec => []TypeOK
<1>1. TypeInv => TypeOK
  BY DEF TypeInv
<1> QED BY TypeInit, TypeNext, <1>1, PTL DEF Spec
-----------------------------------------------------------------------------
(* Where the collector holds subscriptions: from one round's beginning to  *)
(* its end, and from Release's to its end when the tab is its own, which   *)
(* is the only one whose destruction is watched.                           *)
SubsInv ==
  /\ pc \notin {"subscribed", "eval", "select", "release", "close", "destroying"} => subs = {}
  /\ pc = "release" /\ tab = "user" => subs = {}
  /\ "destroyed" \in subs => tab = "own"

LEMMA ChromeLeavesCollector ==
  Chrome \/ DestroyTab \/ LoadFrame \/ (\E t \in Targets : Page(t)) \/ CancelContext
    => UNCHANGED <<collector, signals, history, done>>
<1>1. Chrome => UNCHANGED <<collector, signals, history, done>>
  BY DEF Chrome, Handling, HandleCreate, HandleAttach, HandleEnable, HandleNavigate,
         HandleEval, HandleClose, HandleDetach, HandlePages
<1>2. ASSUME NEW t \in Targets, Page(t)
      PROVE  UNCHANGED <<collector, signals, history, done>>
  BY <1>2 DEF Page, CloseTab, Replace, NewDocument, Settle
<1>3. DestroyTab \/ LoadFrame \/ CancelContext => UNCHANGED <<collector, signals, history, done>>
  BY DEF DestroyTab, CloseTab, LoadFrame, CancelContext, wire
<1> QED BY <1>1, <1>2, <1>3

LEMMA SubsNext == TypeInv /\ SubsInv /\ [Next]_vars => SubsInv'
<1> SUFFICES ASSUME TypeInv, SubsInv, [Next]_vars PROVE SubsInv'
  OBVIOUS
<1> USE DEF SubsInv
<1>1. CASE UNCHANGED <<pc, subs, tab>>
  BY <1>1
<1>2. CASE OpenTab \/ AttachTab \/ Navigate \/ Detach
  <2>1. pc = "idle" /\ pc' \in {"create", "read", "navigate", "pages"} /\ UNCHANGED <<subs, tab>>
    BY <1>2 DEF OpenTab, AttachTab, Navigate, Detach, Start, Send
  <2> QED BY <2>1
<1>3. CASE WaitFor
  <2>1. pc = "idle" /\ pc' = "wait" /\ UNCHANGED <<subs, tab>>
    BY <1>3 DEF WaitFor, Start
  <2> QED BY <2>1
<1>4. CASE Release
  <2>1. pc = "idle" /\ pc' = "release" /\ UNCHANGED tab
        /\ (IF tab = "own" THEN subs' = {"destroyed"} ELSE subs' = subs)
    BY <1>4 DEF Release, Start, WatchesFor, Subscribe, unsubscribed
  <2> QED BY <2>1
<1>5. CASE Created
  BY <1>5 DEF Created, Send
<1>6. CASE AttachedOwn \/ AttachedUser \/ Enabled
  <2>1. pc \in {"attach", "read", "enable"} /\ pc' \in {"idle", "enable"} /\ UNCHANGED subs
    BY <1>6 DEF AttachedOwn, AttachedUser, Enabled, Send
  <2> QED BY <2>1
<1>7. CASE CallEnds
  BY <1>7 DEF CallEnds
<1>8. CASE WaitRound
  <2>1. pc' = "subscribed" /\ subs' = {"created", "gone"}
    BY <1>8 DEF WaitRound, Subscribe
  <2> QED BY <2>1
<1>9. CASE Evaluate
  BY <1>9 DEF Evaluate, Send
<1>10. CASE EvalEnds \/ NextDocument \/ GiveUp
  <2>1. \/ subs' = {}
        \/ pc \in {"eval", "select"} /\ pc' = "select" /\ UNCHANGED <<subs, tab>>
    BY <1>10 DEF EvalEnds, NextDocument, GiveUp, StopWaiting, EvalFailed, Unsubscribe,
                 unsubscribed
  <2> QED BY <2>1
<1>11. CASE CloseOrDetach
  <2>1. /\ pc = "release" /\ UNCHANGED <<subs, tab>>
        /\ pc' = IF tab = "own" THEN "close" ELSE "detach"
    BY <1>11 DEF CloseOrDetach, Send
  <2>2. tab \in {"own", "user"}
    BY <2>1 DEF TypeInv, TypeOK, Targets, Releasing
  <2> QED BY <2>1, <2>2
<1>12. CASE CloseAnswered
  <2>1. pc = "close" /\ pc' = "destroying" /\ UNCHANGED <<subs, tab>>
    BY <1>12 DEF CloseAnswered, CloseAccepted, unsubscribed
  <2> QED BY <2>1
<1>13. CASE Destroyed \/ ReleaseFails
  <2>1. subs' = {}
    BY <1>13 DEF Destroyed, ReleaseFails, StopWaiting, Unsubscribe
  <2> QED BY <2>1
<1>14. CASE DetachedFromTab \/ DetachEnds
  <2>1. pc \in {"detach", "pages"} /\ UNCHANGED subs
    BY <1>14 DEF DetachedFromTab, DetachEnds
  <2> QED BY <2>1
<1>15. CASE ReadMessage \/ ConnectionEnds
  BY <1>1, <1>15 DEF ReadMessage, ConnectionEnds, collector
<1>16. CASE Chrome \/ DestroyTab \/ LoadFrame \/ (\E t \in Targets : Page(t)) \/ CancelContext
  BY <1>1, <1>16, ChromeLeavesCollector DEF collector
<1>17. CASE Done \/ UNCHANGED vars
  BY <1>1, <1>17 DEF Done, vars, collector
<1> QED
  BY <1>2, <1>3, <1>4, <1>5, <1>6, <1>7, <1>8, <1>9, <1>10, <1>11, <1>12, <1>13, <1>14, <1>15,
     <1>16, <1>17 DEF Next, Operation, Collector

(* However OpenTab, AttachTab, Navigate, WaitFor, Release and Detach end,  *)
(* with success, with an error or because the context or the connection    *)
(* did, none of their subscriptions stays registered.                      *)
THEOREM SubscriptionsEnd == Spec => []NothingSubscribed
<1>1. Init => SubsInv
  BY DEF Init, SubsInv
<1>2. SubsInv => NothingSubscribed
  BY DEF SubsInv, NothingSubscribed
<1> QED BY TypeInit, TypeNext, <1>1, SubsNext, <1>2, PTL DEF Spec
-----------------------------------------------------------------------------
(* The commands but the creation, and the messages but the destruction, of *)
(* the own tab.                                                            *)
Later == [id : Nat, name : Calling \ {"create"}, target : Targets]
NoCreate == commands \in Seq(Later)
Quiet == Messages \ {Event("destroyed", "own")}
NoNews == stream \in Seq(Quiet)

(* Before the first operation there is no own tab, and no word of one.     *)
Fresh ==
  ops = 0 =>
    /\ page["own"] = "absent"
    /\ NoCreate /\ NoNews
    /\ ~released /\ "destroyed" \notin signals
    /\ pc \in {"idle", "pages", "closed"}
    /\ pc = "idle" => commands = <<>>

(* The creation is the first of the commands that wait.                    *)
CreateFirst == commands # <<>> => Tail(commands) \in Seq(Later)

(* A word that the own tab is destroyed, wherever it has come to, is true  *)
(* and stays true: nothing can create the tab any more.                    *)
WordOfEnd == released \/ "destroyed" \in signals \/ ~NoNews
GoneForGood ==
  /\ page["own"] # "absent" => NoCreate
  /\ WordOfEnd => page["own"] = "absent" /\ NoCreate

GoneInv == Fresh /\ CreateFirst /\ GoneForGood

LEMMA GoneInit == Init => GoneInv
<1> SUFFICES ASSUME Init PROVE GoneInv
  OBVIOUS
<1>1. NoCreate /\ NoNews /\ commands = <<>>
  BY DEF Init, NoCreate, NoNews
<1>2. page["own"] = "absent" /\ ~released /\ signals = {} /\ pc = "idle"
  BY DEF Init, Targets
<1> QED BY <1>1, <1>2 DEF GoneInv, Fresh, CreateFirst, GoneForGood, WordOfEnd

LEMMA SendLater ==
  ASSUME TypeInv, NEW name \in Calling \ {"create"}, NEW t \in Targets, Send(name, t)
  PROVE  /\ NoCreate => NoCreate'
         /\ CreateFirst => CreateFirst'
<1> DEFINE c == [id |-> calls + 1, name |-> name, target |-> t]
<1>1. c \in Later /\ commands \in Seq(Commands)
  BY DEF TypeInv, TypeOK, Later, Commands
<1>2. commands' = commands \/ commands' = Append(commands, c)
  BY DEF Send
<1>3. NoCreate => NoCreate'
  <2> HIDE DEF c
  <2> QED BY <1>1, <1>2 DEF NoCreate
<1>4. ASSUME CreateFirst PROVE CreateFirst'
  <2> HIDE DEF c
  <2>1. CASE commands = <<>>
    BY <1>1, <1>2, <2>1 DEF CreateFirst
  <2>2. CASE commands # <<>>
    <3>1. Tail(Append(commands, c)) = Append(Tail(commands), c)
      BY <1>1, <2>2
    <3> QED BY <1>1, <1>2, <1>4, <2>2, <3>1 DEF CreateFirst
  <2> QED BY <2>1, <2>2
<1> QED BY <1>3, <1>4

(* A step that says nothing of the own tab's end.                          *)
LEMMA QuietStep ==
  ASSUME GoneInv,
         page["own"] = "absent" => page'["own"] = "absent", NoNews => NoNews',
         released' = released, "destroyed" \in signals' => WordOfEnd,
         NoCreate => NoCreate', CreateFirst => CreateFirst',
         ops' = 0 => /\ ops = 0 /\ "destroyed" \notin signals'
                     /\ pc' \in {"idle", "pages", "closed"}
                     /\ pc' = "idle" => commands' = <<>>
  PROVE  GoneInv'
<1>1. WordOfEnd' => WordOfEnd
  BY DEF WordOfEnd
<1>2. GoneForGood'
  BY <1>1 DEF GoneInv, GoneForGood
<1>3. Fresh'
  BY DEF GoneInv, Fresh
<1> QED BY <1>2, <1>3 DEF GoneInv

LEMMA GoneOperation == TypeInv /\ GoneInv /\ Operation => GoneInv'
<1> SUFFICES ASSUME TypeInv, GoneInv, Operation PROVE GoneInv'
  OBVIOUS
<1>1. /\ "own" \in Targets /\ "user" \in Targets /\ ops \in Nat
      /\ tab # "none" => tab \in Targets
      /\ {"read", "navigate", "pages"} \subseteq Calling \ {"create"}
      /\ Start => ops' # 0
  BY DEF TypeInv, TypeOK, Targets, Calling, Start
<1>2. CASE OpenTab
  <2>1. /\ ops = 0 /\ ops' # 0 /\ pc = "idle" /\ Send("create", "own")
        /\ UNCHANGED <<page, stream, released, signals>>
    BY <1>1, <1>2 DEF OpenTab, Start, Send, chrome
  <2>2. /\ commands = <<>> /\ page["own"] = "absent" /\ ~WordOfEnd
    BY <2>1 DEF GoneInv, Fresh, WordOfEnd
  <2>3. commands' = <<>> \/ \E c : commands' = <<c>>
    BY <2>1, <2>2 DEF Send
  <2>4. CreateFirst'
    <3>1. \A c : Tail(<<c>>) = <<>>
      OBVIOUS
    <3>2. <<>> \in Seq(Later)
      OBVIOUS
    <3> QED BY <2>3, <3>1, <3>2 DEF CreateFirst
  <2>5. ~WordOfEnd' /\ page'["own"] = "absent"
    BY <2>1, <2>2 DEF WordOfEnd, NoNews
  <2> QED BY <2>1, <2>4, <2>5 DEF GoneInv, Fresh, GoneForGood
<1>3. CASE AttachTab \/ Navigate \/ Detach
  <2>1. PICK name \in {"read", "navigate", "pages"}, t \in Targets : Send(name, t)
    BY <1>1, <1>3 DEF AttachTab, Navigate, Detach
  <2>2. /\ UNCHANGED <<page, stream, released, signals>>
        /\ pc = "idle" /\ pc' = name
        /\ ops' = 0 => name = "pages" /\ UNCHANGED ops
    BY <1>1, <1>3, <2>1 DEF AttachTab, Navigate, Detach, Start, Send, chrome
  <2>3. (NoCreate => NoCreate') /\ (CreateFirst => CreateFirst')
    BY <1>1, <2>1, SendLater
  <2>4. /\ NoNews' <=> NoNews
        /\ "destroyed" \in signals' => WordOfEnd
        /\ ops = 0 => "destroyed" \notin signals'
    BY <2>2 DEF NoNews, WordOfEnd, GoneInv, Fresh
  <2> QED BY <2>2, <2>3, <2>4, QuietStep
<1>4. CASE WaitFor \/ Release
  <2>1. /\ UNCHANGED <<page, stream, commands, released>> /\ ops' # 0
        /\ signals' = signals \/ signals' = {}
    BY <1>1, <1>4 DEF WaitFor, Release, Start, WatchesFor, Subscribe, unsubscribed, chrome, wire
  <2>2. /\ NoNews' <=> NoNews
        /\ NoCreate' <=> NoCreate
        /\ CreateFirst' <=> CreateFirst
        /\ "destroyed" \in signals' => WordOfEnd
    BY <2>1 DEF NoNews, NoCreate, CreateFirst, WordOfEnd
  <2> QED BY <2>1, <2>2, QuietStep
<1> QED BY <1>2, <1>3, <1>4 DEF Operation

LEMMA GoneCollector == TypeInv /\ GoneInv /\ Collector => GoneInv'
<1> SUFFICES ASSUME TypeInv, GoneInv, Collector PROVE GoneInv'
  OBVIOUS
<1>1. /\ "own" \in Targets /\ "user" \in Targets
      /\ tab # "none" => tab \in Targets
      /\ {"attach", "enable", "eval", "close", "detach"} \subseteq Calling \ {"create"}
      /\ pc \in Waiting \cup Releasing => tab # "none"
  BY DEF TypeInv, TypeOK, Targets, Calling
<1>2. ops = 0 => pc \in {"idle", "pages", "closed"}
  BY DEF GoneInv, Fresh
<1>3. CASE Created \/ AttachedOwn \/ Evaluate \/ CloseOrDetach
  <2>1. pc \in {"create", "attach", "subscribed", "release"}
    BY <1>3 DEF Created, AttachedOwn, Evaluate, CloseOrDetach
  <2>2. pc \in {"subscribed", "release"} => tab \in Targets
    BY <1>1 DEF Waiting, Releasing
  <2>3. PICK name \in {"attach", "enable", "eval", "close", "detach"}, t \in Targets :
          Send(name, t)
    BY <1>1, <1>3, <2>2 DEF Created, AttachedOwn, Evaluate, CloseOrDetach
  <2>4. UNCHANGED <<page, stream, released, signals, ops>>
    BY <1>3, <2>3 DEF Created, AttachedOwn, Evaluate, CloseOrDetach, Send, chrome
  <2>5. (NoCreate => NoCreate') /\ (CreateFirst => CreateFirst')
    BY <1>1, <2>3, SendLater
  <2>6. (NoNews' <=> NoNews) /\ ("destroyed" \in signals' => WordOfEnd) /\ ops' # 0
    BY <1>2, <2>1, <2>4 DEF NoNews, WordOfEnd
  <2> QED BY <2>4, <2>5, <2>6, QuietStep
<1>4. CASE \/ AttachedUser \/ Enabled \/ CallEnds \/ WaitRound \/ EvalEnds \/ NextDocument
           \/ GiveUp \/ CloseAnswered \/ DetachedFromTab \/ ReleaseFails
  <2>1. pc \in Calling \ {"pages"} \/ pc \in Waiting \cup Releasing
    BY <1>4 DEF AttachedUser, Enabled, CallEnds, WaitRound, EvalEnds, NextDocument, GiveUp,
                CloseAnswered, DetachedFromTab, ReleaseFails, Calling, Waiting, Releasing
  <2>2. UNCHANGED <<page, stream, commands, released, ops>>
    BY <1>4 DEF AttachedUser, Enabled, CallEnds, WaitRound, EvalEnds, NextDocument, GiveUp,
                CloseAnswered, CloseAccepted, DetachedFromTab, ReleaseFails, chrome, wire
  <2>3. signals' = signals \/ signals' = {}
    BY <1>4 DEF AttachedUser, Enabled, CallEnds, WaitRound, EvalEnds, NextDocument, GiveUp,
                CloseAnswered, CloseAccepted, DetachedFromTab, ReleaseFails, StopWaiting,
                EvalFailed, Subscribe, Unsubscribe, unsubscribed
  <2>4. ops' # 0
    BY <1>2, <2>1, <2>2 DEF Calling, Waiting, Releasing
  <2>5. /\ NoNews' <=> NoNews
        /\ NoCreate' <=> NoCreate
        /\ CreateFirst' <=> CreateFirst
        /\ "destroyed" \in signals' => WordOfEnd
    BY <2>2, <2>3 DEF NoNews, NoCreate, CreateFirst, WordOfEnd
  <2> QED BY <2>2, <2>4, <2>5, QuietStep
<1>5. CASE Destroyed
  <2>1. /\ pc = "destroying" /\ "destroyed" \in signals /\ signals' = {}
        /\ UNCHANGED <<page, stream, commands, ops>>
    BY <1>5 DEF Destroyed, StopWaiting, Unsubscribe, chrome, wire
  <2>2. page'["own"] = "absent" /\ NoCreate' /\ ops' # 0
    BY <1>2, <2>1 DEF GoneInv, GoneForGood, WordOfEnd, NoCreate
  <2> QED BY <2>1, <2>2 DEF GoneInv, Fresh, CreateFirst, GoneForGood
<1>6. CASE DetachEnds
  <2>1. /\ pc' = "closed" /\ commands' = <<>> /\ stream' = <<>>
        /\ UNCHANGED <<page, ops, released, signals>>
    BY <1>6 DEF DetachEnds, chrome
  <2>2. NoCreate' /\ NoNews' /\ CreateFirst'
    BY <2>1 DEF NoCreate, NoNews, CreateFirst
  <2>3. /\ "destroyed" \in signals' => WordOfEnd
        /\ ops = 0 => "destroyed" \notin signals'
    BY <2>1 DEF WordOfEnd, GoneInv, Fresh
  <2> QED BY <2>1, <2>2, <2>3, QuietStep
<1> QED BY <1>3, <1>4, <1>5, <1>6 DEF Collector

LEMMA GoneReader ==
  TypeInv /\ SubsInv /\ GoneInv /\ (ReadMessage \/ ConnectionEnds \/ CancelContext) => GoneInv'
<1> SUFFICES ASSUME TypeInv, SubsInv, GoneInv, ReadMessage \/ ConnectionEnds \/ CancelContext
             PROVE  GoneInv'
  OBVIOUS
<1>1. CASE ReadMessage
  <2> DEFINE m == Head(stream)
  <2>1. /\ stream \in Seq(Messages) /\ stream # <<>> /\ stream' = Tail(stream)
        /\ UNCHANGED <<page, commands, released, ops, pc>>
    BY <1>1 DEF ReadMessage, TypeInv, TypeOK, chrome
  <2>2. m \in Messages
    BY <2>1
  <2>3. NoNews => m \in Quiet /\ NoNews'
    BY <2>1 DEF NoNews
  <2>4. "destroyed" \in signals' => WordOfEnd
    <3> SUFFICES ASSUME "destroyed" \in signals', "destroyed" \notin signals, m \in Quiet
                 PROVE  FALSE
      BY <2>3 DEF WordOfEnd
    <3> HIDE DEF m
    <3>1. "event" \in DOMAIN m /\ m.target = tab /\ "destroyed" \in Signalled(m.event)
      BY <1>1 DEF ReadMessage, m
    <3>2. m.event = "destroyed" /\ "destroyed" \in subs
      BY <3>1 DEF Signalled
    <3>3. m.target = "own"
      BY <3>1, <3>2 DEF SubsInv
    <3>4. m \in [event : Events, target : Targets]
      BY <2>2, <3>1 DEF Messages
    <3>5. m = Event("destroyed", "own")
      BY <3>2, <3>3, <3>4 DEF Event
    <3> QED BY <3>5 DEF Quiet
  <2>5. ops = 0 => /\ "destroyed" \notin signals' /\ pc \in {"idle", "pages", "closed"}
                   /\ pc = "idle" => commands = <<>>
    <3>1. ops = 0 => ~WordOfEnd
      BY DEF GoneInv, Fresh, WordOfEnd
    <3> QED BY <2>4, <3>1 DEF GoneInv, Fresh
  <2>6. (NoCreate' <=> NoCreate) /\ (CreateFirst' <=> CreateFirst)
    BY <2>1 DEF NoCreate, CreateFirst
  <2> QED BY <2>1, <2>3, <2>4, <2>5, <2>6, QuietStep
<1>2. CASE ConnectionEnds \/ CancelContext
  <2>1. /\ UNCHANGED <<page, commands, released, ops, pc, signals>>
        /\ stream' = stream \/ stream' = <<>>
    BY <1>2 DEF ConnectionEnds, CancelContext, chrome, wire, collector
  <2>2. /\ NoCreate' <=> NoCreate
        /\ CreateFirst' <=> CreateFirst
        /\ "destroyed" \in signals' => WordOfEnd
    BY <2>1 DEF NoCreate, CreateFirst, WordOfEnd
  <2>a. NoNews => NoNews'
    <3>1. <<>> \in Seq(Quiet)
      OBVIOUS
    <3> QED BY <2>1, <3>1 DEF NoNews
  <2>3. ops = 0 => /\ "destroyed" \notin signals' /\ pc \in {"idle", "pages", "closed"}
                   /\ pc = "idle" => commands = <<>>
    BY <2>1 DEF GoneInv, Fresh
  <2> QED BY <2>1, <2>2, <2>a, <2>3, QuietStep
<1> QED BY <1>1, <1>2

(* A step of Chrome, which either leaves an own tab gone and says nothing  *)
(* of its end, or is its end.                                              *)
LEMMA ChromeStep ==
  ASSUME GoneInv, UNCHANGED <<released, signals, ops, pc>>,
         commands' = commands \/ (commands # <<>> /\ commands' = Tail(commands)),
         commands' \in Seq(Commands),
         \/ (page["own"] = "absent" => page'["own"] = "absent") /\ (NoNews => NoNews')
         \/ page["own"] # "absent" /\ page'["own"] = "absent"
  PROVE  GoneInv'
<1>1. (NoCreate => NoCreate') /\ CreateFirst'
  <2>1. CASE commands' = commands
    BY <2>1 DEF NoCreate, CreateFirst, GoneInv
  <2>2. CASE commands # <<>> /\ commands' = Tail(commands)
    <3>1. commands' \in Seq(Later)
      BY <2>2 DEF GoneInv, CreateFirst
    <3> QED BY <3>1 DEF NoCreate, CreateFirst
  <2> QED BY <2>1, <2>2
<1>2. pc' = "idle" /\ ops' = 0 => commands' = <<>>
  BY DEF GoneInv, Fresh
<1>3. CASE (page["own"] = "absent" => page'["own"] = "absent") /\ (NoNews => NoNews')
  <2>1. "destroyed" \in signals' => WordOfEnd
    BY DEF WordOfEnd
  <2>2. ops' = 0 => /\ ops = 0 /\ "destroyed" \notin signals'
                    /\ pc' \in {"idle", "pages", "closed"}
    BY DEF GoneInv, Fresh
  <2> QED BY <1>1, <1>2, <1>3, <2>1, <2>2, QuietStep
<1>4. CASE page["own"] # "absent" /\ page'["own"] = "absent"
  <2>1. NoCreate /\ ops # 0
    BY <1>4 DEF GoneInv, GoneForGood, Fresh
  <2> QED BY <1>1, <1>4, <2>1 DEF GoneInv, Fresh, GoneForGood
<1> QED BY <1>3, <1>4

LEMMA GoneChrome ==
  /\ TypeInv /\ TypeInv' /\ GoneInv
  /\ Chrome \/ DestroyTab \/ LoadFrame \/ \E t \in Targets : Page(t)
  => GoneInv'
<1> SUFFICES ASSUME TypeInv, TypeInv', GoneInv,
                    Chrome \/ DestroyTab \/ LoadFrame \/ \E t \in Targets : Page(t)
             PROVE  GoneInv'
  OBVIOUS
<1>1. /\ UNCHANGED <<released, signals, ops, pc>>
      /\ commands' \in Seq(Commands)
      /\ page \in [Targets -> {"absent", "between", "live", "ready"}]
      /\ "own" \in Targets /\ "user" \in Targets
  BY ChromeLeavesCollector DEF collector, TypeInv, TypeOK, Commands, Targets
<1>2. \A r : \A q \in Results : Reply(r, q) \in Messages => Reply(r, q) \in Quiet
  BY DEF Quiet, Reply, Event
<1>3. /\ {"ok", "error", "value", "threw", "clean", "changed"} \subseteq Results
      /\ Replies \subseteq Quiet
  <2>1. \A m \in Replies : m \in Messages /\ m # Event("destroyed", "own")
    BY DEF Replies, Messages, Event
  <2> QED BY <2>1 DEF Quiet, Results
<1>4. /\ \A t \in Targets : Event("created", t) \in Quiet /\ Event("gone", t) \in Quiet
      /\ Event("destroyed", "user") \in Quiet
  BY <1>1 DEF Event, Quiet, Messages, Events
<1>5. \A t : \A r \in Results : Answers(t, r) \in Seq(Quiet)
  <2>1. SUFFICES ASSUME NEW t, NEW r \in Results PROVE Answers(t, r) \in Seq(Quiet)
    OBVIOUS
  <2>2. Answers(t, r) \in Seq(Replies)
    BY AnswersType
  <2> QED BY <1>3, <2>2
<1>6. Going("user") \in Seq(Quiet)
  BY <1>1, <1>3, <1>4, <1>5 DEF Going
<1>7. \A t \in Targets : Announce(t) \in Seq(Quiet)
  BY <1>4 DEF Announce
<1>8. \A q \in Seq(Quiet) : Emit(q) => (NoNews => NoNews')
  BY EmitType DEF NoNews
<1>9. ASSUME NEW t \in Targets, CloseTab(t) PROVE GoneInv'
  <2>1. page[t] # "absent" /\ page' = [page EXCEPT ![t] = "absent"] /\ UNCHANGED commands
        /\ Emit(Going(t))
    BY <1>9 DEF CloseTab, Goes
  <2>2. CASE t = "own"
    BY <1>1, <2>1, <2>2, ChromeStep
  <2>3. CASE t = "user"
    <3>1. NoNews => NoNews'
      BY <1>6, <1>8, <2>1, <2>3
    <3> QED BY <1>1, <2>1, <2>3, <3>1, ChromeStep
  <2> QED BY <2>2, <2>3 DEF Targets
<1>10. CASE DestroyTab
  BY <1>1, <1>9, <1>10 DEF DestroyTab
<1>11. CASE LoadFrame
  <2>1. (NoNews => NoNews') /\ UNCHANGED <<page, commands>>
    BY <1>1, <1>7, <1>8, <1>11 DEF LoadFrame
  <2> QED BY <1>1, <2>1, ChromeStep
<1>12. ASSUME NEW t \in Targets, Page(t) PROVE GoneInv'
  <2>1. CASE CloseTab(t)
    BY <1>9, <2>1
  <2>2. CASE Replace(t) \/ NewDocument(t) \/ Settle(t)
    <3>1. NoNews => NoNews'
      BY <1>3, <1>5, <1>7, <1>8, <2>2 DEF Replace, NewDocument, Settle
    <3>2. (page["own"] = "absent" => page'["own"] = "absent") /\ UNCHANGED commands
      BY <1>1, <2>2 DEF Replace, NewDocument, Settle
    <3> QED BY <1>1, <3>1, <3>2, ChromeStep
  <2> QED BY <1>12, <2>1, <2>2 DEF Page
<1>13. CASE Chrome
  <2>1. commands # <<>> /\ commands' = Tail(commands) /\ commands \in Seq(Commands)
    BY <1>13 DEF Chrome, Handling, HandleCreate, HandleAttach, HandleEnable, HandleNavigate,
                 HandleEval, HandleClose, HandleDetach, HandlePages, TypeInv, TypeOK, Commands
  <2>2. \A r \in {"ok", "error", "value", "threw", "clean", "changed"} : Reply(Id, r) \in Quiet
    <3>1. Id \in Nat
      <4>1. Head(commands) \in Commands
        BY <2>1
      <4> QED BY <4>1 DEF Id, Commands
    <3> QED BY <1>3, <3>1 DEF Reply, Replies
  <2>a. \A r \in {"ok", "error", "value", "threw", "clean", "changed"} :
          <<Reply(Id, r)>> \in Seq(Quiet)
    BY <2>2
  <2>b. UNCHANGED stream => (NoNews => NoNews')
    BY DEF NoNews
  <2>3. CASE HandleCreate
    <3>1. Head(commands).name = "create"
      BY <2>3 DEF HandleCreate, Handling
    <3>2. ~NoCreate
      <4>1. \A q \in Seq(Later) : q # <<>> => Head(q) \in Later
        OBVIOUS
      <4> QED BY <2>1, <3>1, <4>1 DEF NoCreate, Later
    <3>3. ~WordOfEnd /\ ops # 0
      BY <3>2 DEF GoneInv, GoneForGood, Fresh
    <3>4. NoCreate' /\ CreateFirst'
      BY <2>1 DEF GoneInv, CreateFirst, NoCreate
    <3>5. NoNews => NoNews'
      BY <1>8, <2>a, <2>3 DEF HandleCreate
    <3>6. ~WordOfEnd'
      BY <1>1, <3>3, <3>5 DEF WordOfEnd
    <3> QED BY <1>1, <3>3, <3>4, <3>6 DEF GoneInv, Fresh, GoneForGood
  <2>4. CASE HandleAttach \/ HandlePages \/ HandleEnable \/ HandleDetach
    <3>1. UNCHANGED page
      BY <2>4 DEF HandleAttach, HandlePages, HandleEnable, HandleDetach, chrome
    <3>2. NoNews => NoNews'
      <4>1. (IF HasContext("own") THEN <<Event("created", "own")>> ELSE <<>>)
              \o <<Reply(Id, "ok")>> \in Seq(Quiet)
        BY <1>1, <1>4, <2>2
      <4>2. <<Event("gone", "user"), Reply(Id, "ok")>> \in Seq(Quiet)
        BY <1>1, <1>4, <2>2
      <4>3. CASE HandleAttach
        BY <1>8, <2>a, <4>3 DEF HandleAttach
      <4>4. CASE HandlePages
        BY <1>8, <2>a, <4>4 DEF HandlePages
      <4>5. CASE HandleEnable
        BY <1>8, <2>a, <4>1, <4>5 DEF HandleEnable
      <4>6. CASE HandleDetach
        BY <1>8, <2>a, <4>2, <4>6 DEF HandleDetach
      <4> QED BY <2>4, <4>3, <4>4, <4>5, <4>6
    <3> QED BY <1>1, <2>1, <3>1, <3>2, ChromeStep
  <2>5. CASE HandleNavigate
    <3>1. page["own"] = "absent" => page'["own"] = "absent"
      BY <1>1, <2>5 DEF HandleNavigate, HasContext
    <3>2. NoNews => NoNews'
      <4>1. /\ Answers("own", "error") \o <<Reply(Id, "ok")>> \in Seq(Quiet)
            /\ Answers("own", "error") \o Announce("own") \o <<Reply(Id, "ok")>> \in Seq(Quiet)
        BY <1>1, <1>3, <1>5, <1>7, <2>2
      <4> QED BY <1>8, <2>a, <2>5, <4>1 DEF HandleNavigate
    <3> QED BY <1>1, <2>1, <3>1, <3>2, ChromeStep
  <2>6. CASE HandleEval
    <3>1. (NoNews => NoNews') /\ UNCHANGED page
      BY <1>8, <2>a, <2>b, <2>6 DEF HandleEval
    <3> QED BY <1>1, <2>1, <3>1, ChromeStep
  <2>7. CASE HandleClose
    <3>1. \/ (NoNews => NoNews') /\ UNCHANGED page
          \/ page["own"] # "absent" /\ page'["own"] = "absent"
      BY <1>1, <1>8, <2>a, <2>7 DEF HandleClose, Goes
    <3> QED BY <1>1, <2>1, <3>1, ChromeStep
  <2> QED BY <1>13, <2>3, <2>4, <2>5, <2>6, <2>7 DEF Chrome
<1> QED BY <1>10, <1>11, <1>12, <1>13

LEMMA GoneNext == TypeInv /\ SubsInv /\ GoneInv /\ [Next]_vars => GoneInv'
<1> SUFFICES ASSUME TypeInv, SubsInv, GoneInv, [Next]_vars PROVE GoneInv'
  OBVIOUS
<1>1. TypeInv'
  BY TypeNext
<1>2. CASE UNCHANGED vars
  BY <1>2 DEF vars, chrome, wire, collector, GoneInv, Fresh, CreateFirst, GoneForGood, WordOfEnd,
              NoCreate, NoNews
<1> QED BY <1>1, <1>2, GoneOperation, GoneCollector, GoneReader, GoneChrome DEF Next, Done

(* Release returns nil for an own tab only when the tab is gone, and no    *)
(* command in flight brings it back: in any interleaving of Chrome's       *)
(* answer and event, of the user closing the tab, and of the connection's  *)
(* and the context's end.                                                  *)
THEOREM ReleasedTabsAreGone == Spec => []ReleasedIsGone
<1>1. Init => SubsInv
  BY DEF Init, SubsInv
<1>2. GoneInv => ReleasedIsGone
  BY DEF GoneInv, GoneForGood, WordOfEnd, ReleasedIsGone
<1> QED BY TypeInit, TypeNext, <1>1, SubsNext, GoneInit, GoneNext, <1>2, PTL DEF Spec
=============================================================================
