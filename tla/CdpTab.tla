------------------------------- MODULE CdpTab -------------------------------
(***************************************************************************)
(* A collector's tab in the user's Chrome: cdpattach's OpenTab, AttachTab, *)
(* Navigate, WaitFor, Release and Detach, over Call, publish and           *)
(* subscribe of one browser connection (CdpConn has that connection's own  *)
(* concurrency).                                                           *)
(*                                                                         *)
(* Commands reach Chrome in order, and Chrome's replies and events reach   *)
(* the reader goroutine in order.  The collector runs one operation at a   *)
(* time, on one tab: its own or the one the user has open.  Meanwhile      *)
(* pages replace their documents and the user navigates and closes tabs.   *)
(*                                                                         *)
(* Chrome is external.  The document a page shows has no script context    *)
(* between the end of the old one and the start of the new one; a command  *)
(* that needs one fails then, and so does the evaluation a replaced        *)
(* document was running.                                                   *)
(***************************************************************************)
EXTENDS Integers, Sequences, SequencesExt

CONSTANTS
  MaxNavs,  \* how many documents are replaced and frames are loaded
  MaxOps    \* how many operations the collector starts before Detach

ASSUME BoundsAssumption == MaxNavs \in Nat /\ MaxOps \in Nat

Targets == {"own", "user"}

VARIABLES
  page,      \* Chrome: what each page target shows
  moved,     \* Chrome: the user's tab is not at its first address
  sessions,  \* Chrome: the targets a session is attached to
  enabled,   \* Chrome: Runtime is enabled in the own tab's session
  closing,   \* Chrome: the own tab was asked to close
  running,   \* Chrome: the evaluations that wait for the page
  commands,  \* what was written and not yet handled
  stream,    \* what Chrome sent and the reader has not read
  done,      \* the reader has stopped
  own,       \* Browser.own
  tab,       \* the tab the collector holds
  usable,    \* OpenTab or AttachTab returned it without an error
  pc,        \* where the collector is
  calls,     \* nextID: the call it waits for
  reply,     \* what that call's channel holds
  subs,      \* the registered subscriptions
  signals,   \* those whose channel holds a signal
  ctxDone,   \* the collect's context is done
  ops,       \* operations started
  navs,      \* documents replaced and frames loaded
  ended,     \* history: the reader has read that the own tab's session ended
  late,      \* history: a round of WaitFor on the own tab began after that
  released,  \* history: Release returned nil for the own tab
  detached   \* what Detach returned

chrome == <<page, moved, sessions, enabled, closing, running, navs>>
wire == <<commands, stream, done>>
collector == <<own, tab, usable, pc, calls, reply, subs, ops, released, detached>>
history == <<ended, late>>
vars == <<chrome, wire, collector, signals, ctxDone, history>>

Events == {"created", "gone", "destroyed"}
Calling == {"create", "attach", "read", "enable", "navigate", "eval", "close",
            "detach", "pages"}
Waiting == {"wait", "subscribed", "eval", "select"}
Releasing == {"release", "close", "destroying", "detach"}

Results == {"ok", "error", "value", "threw", "clean", "changed"}
Messages == [event : Events, target : Targets] \cup [id : Nat, result : Results]

TypeOK ==
  /\ page \in [Targets -> {"absent", "between", "live", "ready"}]
  /\ moved \in BOOLEAN
  /\ sessions \in SUBSET Targets
  /\ enabled \in BOOLEAN
  /\ closing \in BOOLEAN
  /\ running \in SUBSET [id : Nat, target : Targets]
  /\ commands \in Seq([id : Nat, name : Calling, target : Targets])
  /\ stream \in Seq(Messages)
  /\ done \in BOOLEAN
  /\ own \in SUBSET {"own"}
  /\ tab \in Targets \cup {"none"}
  /\ usable \in BOOLEAN
  /\ pc \in {"idle", "closed"} \cup Calling \cup Waiting \cup Releasing
  /\ calls \in Nat
  /\ reply \in Results \cup {"none"}
  /\ subs \in SUBSET Events
  /\ signals \in SUBSET subs
  /\ ctxDone \in BOOLEAN
  /\ ops \in 0..MaxOps
  /\ navs \in 0..MaxNavs
  /\ ended \in BOOLEAN
  /\ late \in BOOLEAN
  /\ released \in BOOLEAN
  /\ detached \in {"none", "nil", "error"}

(* After Attach: target discovery is on and the user's page is recorded.   *)
Init ==
  /\ page = [t \in Targets |-> IF t = "user" THEN "ready" ELSE "absent"]
  /\ moved = FALSE
  /\ sessions = {}
  /\ enabled = FALSE
  /\ closing = FALSE
  /\ running = {}
  /\ commands = <<>>
  /\ stream = <<>>
  /\ done = FALSE
  /\ own = {}
  /\ tab = "none"
  /\ usable = FALSE
  /\ pc = "idle"
  /\ calls = 0
  /\ reply = "none"
  /\ subs = {}
  /\ signals = {}
  /\ ctxDone = FALSE
  /\ ops = 0
  /\ navs = 0
  /\ ended = FALSE
  /\ late = FALSE
  /\ released = FALSE
  /\ detached = "none"
-----------------------------------------------------------------------------
Event(e, t) == [event |-> e, target |-> t]
Reply(id, r) == [id |-> id, result |-> r]

(* Call: the command is registered and written; its reply goes to pc.  A   *)
(* connection that is known to have ended refuses it at the reply.         *)
Send(name, t) ==
  /\ calls' = calls + 1
  /\ reply' = "none"
  /\ commands' = IF done THEN commands
                 ELSE Append(commands, [id |-> calls + 1, name |-> name, target |-> t])
  /\ pc' = name
  /\ UNCHANGED <<stream, done>>

(* How a call that waits ends: with its reply, or with the error of the    *)
(* context or of the connection.                                           *)
Answer(r) == reply = r
Abandoned == done \/ (ctxDone /\ pc # "pages")
Fails == Answer("error") \/ Abandoned

Subscribe(events) == subs' = events /\ signals' = {}
Unsubscribe == subs' = {} /\ signals' = {}
unsubscribed == <<subs, signals>>

(* Faults: what the operations below would be with one plausible mistake   *)
(* each.  They are not part of Next; put in the place of what they vary,   *)
(* each breaks one property.                                               *)

(* WaitFor subscribes when its evaluation has failed.                      *)
EvalFailedThenSubscribe ==
  /\ pc' = "select"
  /\ Subscribe({"created", "gone"})

(* The end of a wait leaves its subscriptions behind.                      *)
StopWaitingSubscribed ==
  /\ pc' = "idle"
  /\ UNCHANGED unsubscribed

(* Release subscribes when Chrome has answered the close.                  *)
CloseAcceptedThenSubscribe ==
  /\ pc' = "destroying"
  /\ Subscribe({"destroyed"})
  /\ UNCHANGED <<tab, released>>

(* Release returns when Chrome has answered the close.                     *)
CloseAcceptedReturns ==
  /\ pc' = "idle"
  /\ Unsubscribe
  /\ tab' = "none"
  /\ released' = TRUE

(* An event is signalled to whoever subscribed to anything.                *)
SignalledAll(e) == {e}
-----------------------------------------------------------------------------
Start ==
  /\ pc = "idle"
  /\ ops < MaxOps
  /\ ops' = ops + 1

(* OpenTab: create, record as own, attach, then focus emulation and        *)
(* Runtime.enable, one of which may fail with the tab in hand.             *)
OpenTab ==
  /\ Start
  /\ ops = 0
  /\ Send("create", "own")
  /\ UNCHANGED <<chrome, own, tab, usable, subs, released, detached, signals,
                 ctxDone, history>>

Created ==
  /\ pc = "create"
  /\ Answer("ok")
  /\ own' = own \cup {"own"}
  /\ Send("attach", "own")
  /\ UNCHANGED <<chrome, tab, usable, subs, ops, released, detached, signals,
                 ctxDone, history>>

(* AttachTab: the page must be one the user had open.                      *)
AttachTab ==
  /\ Start
  /\ tab = "none"
  /\ Send("read", "user")
  /\ UNCHANGED <<chrome, own, tab, usable, subs, released, detached, signals,
                 ctxDone, history>>

AttachedOwn ==
  /\ pc = "attach"
  /\ Answer("ok")
  /\ tab' = "own"
  /\ Send("enable", "own")
  /\ UNCHANGED <<chrome, own, usable, subs, ops, released, detached, signals,
                 ctxDone, history>>

AttachedUser ==
  /\ pc = "read"
  /\ Answer("ok")
  /\ tab' = "user"
  /\ usable' = TRUE
  /\ pc' = "idle"
  /\ UNCHANGED <<chrome, wire, own, calls, reply, subs, ops, released,
                 detached, signals, ctxDone, history>>

Enabled ==
  /\ pc = "enable"
  /\ Answer("ok")
  /\ usable' = TRUE
  /\ pc' = "idle"
  /\ UNCHANGED <<chrome, wire, own, tab, calls, reply, subs, ops, released,
                 detached, signals, ctxDone, history>>

(* Navigate refuses a tab that is not the collector's.                     *)
Navigate ==
  /\ Start
  /\ tab = "own"
  /\ usable
  /\ Send("navigate", tab)
  /\ UNCHANGED <<chrome, own, tab, usable, subs, released, detached, signals,
                 ctxDone, history>>

(* An operation without subscriptions ends: Navigate with its answer, any  *)
(* of them with an error.                                                  *)
CallEnds ==
  /\ \/ pc \in {"create", "attach", "read", "enable", "navigate"} /\ Fails
     \/ pc = "navigate" /\ Answer("ok")
  /\ pc' = "idle"
  /\ UNCHANGED <<chrome, wire, own, tab, usable, calls, reply, subs, ops,
                 released, detached, signals, ctxDone, history>>
-----------------------------------------------------------------------------
WaitFor ==
  /\ Start
  /\ tab # "none"
  /\ usable
  /\ pc' = "wait"
  /\ UNCHANGED <<chrome, wire, own, tab, usable, calls, reply, subs, released,
                 detached, signals, ctxDone, history>>

(* One round of its loop: both subscriptions, then the evaluation.         *)
WaitRound ==
  /\ pc = "wait"
  /\ pc' = "subscribed"
  /\ Subscribe({"created", "gone"})
  /\ late' = (late \/ (tab = "own" /\ ended))
  /\ UNCHANGED <<chrome, wire, own, tab, usable, calls, reply, ops, released,
                 detached, ctxDone, ended>>

Evaluate ==
  /\ pc = "subscribed"
  /\ Send("eval", tab)
  /\ UNCHANGED <<chrome, own, tab, usable, subs, ops, released, detached,
                 signals, ctxDone, history>>

StopWaiting == pc' = "idle" /\ Unsubscribe

EvalFailed ==
  /\ pc' = "select"
  /\ UNCHANGED unsubscribed

(* A protocol error on the own tab may be a document that was replaced:    *)
(* WaitFor looks for the next one.  Anything else is its answer.           *)
EvalEnds ==
  /\ pc = "eval"
  /\ \/ (Answer("value") \/ Answer("threw") \/ Abandoned) /\ StopWaiting
     \/ Answer("error") /\ tab = "user" /\ StopWaiting
     \/ Answer("error") /\ tab = "own" /\ EvalFailed
  /\ UNCHANGED <<chrome, wire, own, tab, usable, calls, reply, ops, released,
                 detached, ctxDone, history>>

(* The select behind a failed evaluation, which takes any signal there is. *)
NextDocument ==
  /\ pc = "select"
  /\ "created" \in signals
  /\ pc' = "wait"
  /\ Unsubscribe
  /\ UNCHANGED <<chrome, wire, own, tab, usable, calls, reply, ops, released,
                 detached, ctxDone, history>>

GiveUp ==
  /\ pc = "select"
  /\ "gone" \in signals \/ ctxDone \/ done
  /\ StopWaiting
  /\ UNCHANGED <<chrome, wire, own, tab, usable, calls, reply, ops, released,
                 detached, ctxDone, history>>
-----------------------------------------------------------------------------
WatchesFor(t) == IF t = "own" THEN Subscribe({"destroyed"}) ELSE UNCHANGED unsubscribed

(* Release: an own tab is closed, a user's tab is detached from.           *)
Release ==
  /\ Start
  /\ tab # "none"
  /\ pc' = "release"
  /\ WatchesFor(tab)
  /\ UNCHANGED <<chrome, wire, own, tab, usable, calls, reply, released,
                 detached, ctxDone, history>>

CloseOrDetach ==
  /\ pc = "release"
  /\ Send(IF tab = "own" THEN "close" ELSE "detach", tab)
  /\ UNCHANGED <<chrome, own, tab, usable, subs, ops, released, detached,
                 signals, ctxDone, history>>

(* Chrome answered the close; the tab is destroyed when it says so.        *)
CloseAccepted ==
  /\ pc' = "destroying"
  /\ UNCHANGED <<tab, released, unsubscribed>>

CloseAnswered ==
  /\ pc = "close"
  /\ Answer("ok")
  /\ CloseAccepted
  /\ UNCHANGED <<chrome, wire, own, usable, calls, reply, ops, detached,
                 ctxDone, history>>

Destroyed ==
  /\ pc = "destroying"
  /\ "destroyed" \in signals
  /\ released' = TRUE
  /\ tab' = "none"
  /\ StopWaiting
  /\ UNCHANGED <<chrome, wire, own, usable, calls, reply, ops, detached,
                 ctxDone, history>>

DetachedFromTab ==
  /\ pc = "detach"
  /\ Answer("ok")
  /\ tab' = "none"
  /\ pc' = "idle"
  /\ UNCHANGED <<chrome, wire, own, usable, calls, reply, subs, ops, released,
                 detached, signals, ctxDone, history>>

ReleaseFails ==
  /\ \/ pc \in {"close", "detach"} /\ Fails
     \/ pc = "destroying" /\ (ctxDone \/ done)
  /\ StopWaiting
  /\ UNCHANGED <<chrome, wire, own, tab, usable, calls, reply, ops, released,
                 detached, ctxDone, history>>
-----------------------------------------------------------------------------
(* Detach: the pages are listed under a context of its own, the recorded   *)
(* ones compared, and the connection closed either way.  The model ends.   *)
Detach ==
  /\ pc = "idle"
  /\ Send("pages", "user")
  /\ UNCHANGED <<chrome, own, tab, usable, subs, ops, released, detached,
                 signals, ctxDone, history>>

DetachEnds ==
  /\ pc = "pages"
  /\ \/ reply \in {"clean", "changed"}
     \/ Fails
  /\ detached' = IF Answer("clean") THEN "nil" ELSE "error"
  /\ pc' = "closed"
  /\ done' = TRUE
  /\ commands' = <<>>
  /\ stream' = <<>>
  /\ UNCHANGED <<chrome, own, tab, usable, calls, reply, subs, ops, released,
                 signals, ctxDone, history>>
-----------------------------------------------------------------------------
Signalled(e) == {e} \cap subs

(* The reader: a reply goes to the call that still waits for it, an event  *)
(* to the subscriptions it matches, whose channels hold one signal.        *)
ReadMessage ==
  /\ stream # <<>>
  /\ ~done
  /\ stream' = Tail(stream)
  /\ LET m == Head(stream) IN
     \/ /\ "id" \in DOMAIN m
        /\ reply' = IF m.id = calls /\ pc \in Calling THEN m.result ELSE reply
        /\ UNCHANGED <<signals, ended>>
     \/ /\ "event" \in DOMAIN m
        /\ signals' = IF m.target = tab THEN signals \cup Signalled(m.event) ELSE signals
        /\ ended' = (ended \/ m = Event("gone", "own"))
        /\ UNCHANGED reply
  /\ UNCHANGED <<chrome, commands, done, own, tab, usable, pc, calls, subs,
                 ops, released, detached, ctxDone, late>>

ConnectionEnds ==
  /\ ~done
  /\ done' = TRUE
  /\ stream' = <<>>
  /\ UNCHANGED <<chrome, commands, collector, signals, ctxDone, history>>

CancelContext ==
  /\ ~ctxDone
  /\ pc # "closed"
  /\ ctxDone' = TRUE
  /\ UNCHANGED <<chrome, wire, collector, signals, history>>
-----------------------------------------------------------------------------
(* Chrome.  A document that goes fails the evaluations it runs.            *)
Running(t) == {e \in running : e.target = t}
Answers(t, r) == SetToSeq({Reply(e.id, r) : e \in Running(t)})

Emit(messages) == stream' = IF done THEN stream ELSE stream \o messages

HasContext(t) == page[t] \in {"live", "ready"} /\ t \in sessions

(* The user closes a tab, or Chrome closes the one it was asked to.        *)
Going(t) ==
  Answers(t, "error")
    \o (IF t \in sessions THEN <<Event("gone", t)>> ELSE <<>>)
    \o <<Event("destroyed", t)>>

Goes(t) ==
  /\ page' = [page EXCEPT ![t] = "absent"]
  /\ running' = running \ Running(t)
  /\ sessions' = sessions \ {t}
  /\ enabled' = (enabled /\ t # "own")
  /\ closing' = (closing /\ t # "own")
  /\ UNCHANGED <<moved, navs>>

CloseTab(t) ==
  /\ pc # "closed"
  /\ page[t] # "absent"
  /\ Emit(Going(t))
  /\ Goes(t)
  /\ UNCHANGED <<commands, done, collector, signals, ctxDone, history>>

DestroyTab ==
  /\ closing
  /\ CloseTab("own")

(* The script or the user replaces the document of a tab.                  *)
Replace(t) ==
  /\ pc # "closed"
  /\ page[t] \in {"live", "ready"}
  /\ navs < MaxNavs
  /\ navs' = navs + 1
  /\ page' = [page EXCEPT ![t] = "between"]
  /\ moved' = (moved \/ t = "user")
  /\ running' = running \ Running(t)
  /\ Emit(Answers(t, "error"))
  /\ UNCHANGED <<sessions, enabled, closing, commands, done, collector,
                 signals, ctxDone, history>>

Announce(t) == IF t = "own" /\ enabled THEN <<Event("created", t)>> ELSE <<>>

NewDocument(t) ==
  /\ pc # "closed"
  /\ page[t] = "between"
  /\ page' = [page EXCEPT ![t] = "live"]
  /\ Emit(Announce(t))
  /\ UNCHANGED <<moved, sessions, enabled, closing, running, navs, commands,
                 done, collector, signals, ctxDone, history>>

(* A frame has a script context of its own, announced alike.               *)
LoadFrame ==
  /\ pc # "closed"
  /\ page["own"] \in {"live", "ready"}
  /\ navs < MaxNavs
  /\ navs' = navs + 1
  /\ Emit(Announce("own"))
  /\ UNCHANGED <<page, moved, sessions, enabled, closing, running, commands,
                 done, collector, signals, ctxDone, history>>

(* The document comes to satisfy the predicate, which the observer of the  *)
(* script or one of its events notices; or the predicate throws.           *)
Settle(t) ==
  /\ pc # "closed"
  /\ page[t] = "live"
  /\ page' = [page EXCEPT ![t] = "ready"]
  /\ running' = running \ Running(t)
  /\ \E r \in {"value", "threw"} : Emit(Answers(t, r))
  /\ UNCHANGED <<moved, sessions, enabled, closing, navs, commands, done,
                 collector, signals, ctxDone, history>>

(* Chrome handles the commands in order.                                   *)
Handling(name) ==
  /\ commands # <<>>
  /\ Head(commands).name = name
  /\ commands' = Tail(commands)
  /\ UNCHANGED <<done, collector, signals, ctxDone, history>>

Id == Head(commands).id
Target == Head(commands).target

HandleCreate ==
  /\ Handling("create")
  /\ \/ /\ page' = [page EXCEPT !["own"] = "live"]
        /\ Emit(<<Reply(Id, "ok")>>)
     \/ /\ Emit(<<Reply(Id, "error")>>)
        /\ UNCHANGED page
  /\ UNCHANGED <<moved, sessions, enabled, closing, running, navs>>

HandleAttach ==
  /\ Handling("attach") \/ Handling("read")
  /\ \/ /\ page[Target] # "absent"
        /\ sessions' = sessions \cup {Target}
        /\ Emit(<<Reply(Id, "ok")>>)
     \/ /\ Emit(<<Reply(Id, "error")>>)
        /\ UNCHANGED sessions
  /\ UNCHANGED <<page, moved, enabled, closing, running, navs>>

(* The contexts there are are announced before Runtime.enable is answered. *)
HandleEnable ==
  /\ Handling("enable")
  /\ \/ /\ "own" \in sessions
        /\ enabled' = TRUE
        /\ Emit((IF HasContext("own") THEN <<Event("created", "own")>> ELSE <<>>)
                  \o <<Reply(Id, "ok")>>)
     \/ /\ Emit(<<Reply(Id, "error")>>)
        /\ UNCHANGED enabled
  /\ UNCHANGED <<page, moved, sessions, closing, running, navs>>

(* Page.navigate is answered when the navigation committed, before or      *)
(* after the new document has its context; or the address cannot be read.  *)
HandleNavigate ==
  /\ Handling("navigate")
  /\ \/ /\ HasContext("own")
        /\ running' = running \ Running("own")
        /\ \/ /\ page' = [page EXCEPT !["own"] = "between"]
              /\ Emit(Answers("own", "error")
                        \o <<Reply(Id, "ok")>>)
           \/ /\ page' = [page EXCEPT !["own"] = "live"]
              /\ Emit(Answers("own", "error")
                        \o Announce("own") \o <<Reply(Id, "ok")>>)
     \/ /\ Emit(<<Reply(Id, "error")>>)
        /\ UNCHANGED <<page, running>>
  /\ UNCHANGED <<moved, sessions, enabled, closing, navs>>

HandleEval ==
  /\ Handling("eval")
  /\ \/ /\ ~HasContext(Target)
        /\ Emit(<<Reply(Id, "error")>>)
        /\ UNCHANGED running
     \/ /\ HasContext(Target)
        /\ page[Target] = "ready"
        /\ Emit(<<Reply(Id, "value")>>)
        /\ UNCHANGED running
     \/ /\ HasContext(Target)
        /\ page[Target] = "live"
        /\ running' = running \cup {[id |-> Id, target |-> Target]}
        /\ UNCHANGED stream
  /\ UNCHANGED <<page, moved, sessions, enabled, closing, navs>>

(* A close is answered before the tab is gone or after.                    *)
HandleClose ==
  /\ Handling("close")
  /\ \/ /\ page["own"] = "absent"
        /\ Emit(<<Reply(Id, "error")>>)
        /\ UNCHANGED <<page, sessions, enabled, closing, running, moved, navs>>
     \/ /\ page["own"] # "absent"
        /\ Emit(<<Reply(Id, "ok")>>)
        /\ closing' = TRUE
        /\ UNCHANGED <<page, sessions, enabled, running, moved, navs>>
     \/ /\ page["own"] # "absent"
        /\ Emit(Going("own") \o <<Reply(Id, "ok")>>)
        /\ Goes("own")

HandleDetach ==
  /\ Handling("detach")
  /\ \/ /\ "user" \in sessions
        /\ sessions' = sessions \ {"user"}
        /\ running' = running \ Running("user")
        /\ Emit(<<Event("gone", "user"), Reply(Id, "ok")>>)
     \/ /\ "user" \notin sessions
        /\ Emit(<<Reply(Id, "error")>>)
        /\ UNCHANGED <<sessions, running>>
  /\ UNCHANGED <<page, moved, enabled, closing, navs>>

(* What Detach finds in the listing: a page of the user's that closed or   *)
(* moved, or a tab it recorded as its own.                                 *)
Changed == moved \/ page["user"] = "absent" \/ \E t \in own : page[t] # "absent"

HandlePages ==
  /\ Handling("pages")
  /\ \/ Emit(<<Reply(Id, IF Changed THEN "changed" ELSE "clean")>>)
     \/ Emit(<<Reply(Id, "error")>>)
  /\ UNCHANGED chrome

Chrome ==
  \/ HandleCreate \/ HandleAttach \/ HandleEnable \/ HandleNavigate
  \/ HandleEval \/ HandleClose \/ HandleDetach \/ HandlePages
-----------------------------------------------------------------------------
Done ==
  /\ pc = "closed"
  /\ UNCHANGED vars

Operation == OpenTab \/ AttachTab \/ Navigate \/ WaitFor \/ Release \/ Detach

Collector ==
  \/ Created \/ AttachedOwn \/ AttachedUser \/ Enabled \/ CallEnds
  \/ WaitRound \/ Evaluate \/ EvalEnds \/ NextDocument \/ GiveUp
  \/ CloseOrDetach \/ CloseAnswered \/ Destroyed \/ DetachedFromTab
  \/ ReleaseFails \/ DetachEnds

Page(t) == CloseTab(t) \/ Replace(t) \/ NewDocument(t) \/ Settle(t)

Next ==
  \/ Operation \/ Collector
  \/ ReadMessage \/ ConnectionEnds \/ CancelContext
  \/ Chrome \/ DestroyTab \/ LoadFrame \/ (\E t \in Targets : Page(t))
  \/ Done

(* The goroutines run; Chrome handles what it is sent, closes what it was  *)
(* asked to close and gives every new document its context; and a document *)
(* that stays comes to satisfy the predicate.  Nobody has to cancel, to    *)
(* navigate, to close a tab or to start an operation.                      *)
Fairness ==
  /\ WF_vars(Collector) /\ WF_vars(ReadMessage)
  /\ WF_vars(Chrome) /\ WF_vars(DestroyTab)
  /\ \A t \in Targets : WF_vars(NewDocument(t)) /\ WF_vars(Settle(t))

Spec == Init /\ [][Next]_vars /\ Fairness
-----------------------------------------------------------------------------
(* Release returns nil for an own tab only when Chrome has destroyed it:   *)
(* a Detach that follows does not find it still open.                      *)
ReleasedIsGone == released => page["own"] = "absent"

(* However an operation ended, it left no subscription registered.         *)
NothingSubscribed == pc \in {"idle", "closed"} => subs = {}

(* WaitFor ends, whatever documents replaced the one it evaluated in and   *)
(* whenever they did: no new document is missed between two evaluations.   *)
(* The exception is a round that begins when the reader has already read   *)
(* that the tab closed: it waits for its context.                          *)
WaitEnds == pc \in Waiting ~> (pc \notin Waiting \/ late)

(* Release ends: the destruction it asks for is not missed, be it before   *)
(* Chrome's answer or after, or the user's doing.                          *)
ReleaseEnds == pc \in Releasing ~> pc \notin Releasing

(* What Detach says of itself: that "every tab this connection opened is   *)
(* closed", "an own tab left open is an error".  A tab whose creation was  *)
(* abandoned is open and not known as own.                                 *)
DetachedLeavesNoTab == detached = "nil" => page["own"] = "absent"
=============================================================================
