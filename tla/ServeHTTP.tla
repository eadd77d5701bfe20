------------------------------ MODULE ServeHTTP -----------------------------
(***************************************************************************)
(* A collector served over HTTP: framework's ServeHTTP with the shutdown   *)
(* goroutine it starts, collectHandler and encodeResult, under the client  *)
(* that lands what a collect answers.                                      *)
(*                                                                         *)
(* Requests run concurrently, each on a session of its own.  The client is *)
(* external and modelled by what the framework's comments say of it: an    *)
(* error writes nothing, an incomplete result adds, a complete result that *)
(* carries anything also deletes what it did not carry.  Items are what    *)
(* the source really holds; they do not change.                            *)
(*                                                                         *)
(* A client that closes its session leaves no trace here: the session and  *)
(* its reader stay until the server closes them.                           *)
(***************************************************************************)
EXTENDS Integers

CONSTANTS
  Requests,  \* the collect calls that may arrive
  Items,     \* what the source holds
  Stale      \* what an earlier collect landed and the source no longer holds

ASSUME StaleAssumption == Stale \cap Items = {}

VARIABLES
  ctxDone,   \* ServeHTTP's context is done; it is every request's base context
  server,    \* ServeHTTP itself: "serving", "returned", then "exited"
  listener,  \* "open" or "closed"
  stopper,   \* the goroutine waiting for the context
  req,       \* where each request is
  named,     \* the requests that carry a collect id that is not empty
  walked,    \* what each request's Walk returned, until it is landed
  answer,    \* what each request was answered
  sessions,  \* the MCP sessions that are open
  graph      \* what the client holds of this source

vars == <<ctxDone, server, listener, stopper, req, named, walked, answer,
          sessions, graph>>
process == <<ctxDone, server, listener, stopper>>

(* A Result as Walk returns it.  "zero" is a Completeness nobody built,    *)
(* "unexplained" an incomplete one without a reason; untyped says a node   *)
(* has no type.                                                            *)
Results ==
  [assert : {"zero", "complete", "incomplete", "unexplained"},
   carried : SUBSET Items, untyped : BOOLEAN]
WalkError == [assert |-> "error", carried |-> {}, untyped |-> FALSE]
NotWalked == [assert |-> "none", carried |-> {}, untyped |-> FALSE]

(* Every collector keeps WalkContract: complete means the whole source.    *)
Honest(r) == r.assert = "complete" => r.carried = Items

Answers == {"none", "toolError", "complete", "incomplete"}

(* In particular no answer says that a walk is incomplete and not why.     *)
TypeOK ==
  /\ ctxDone \in BOOLEAN
  /\ server \in {"serving", "returned", "exited"}
  /\ listener \in {"open", "closed"}
  /\ stopper \in {"waiting", "draining", "closing", "done"}
  /\ req \in [Requests -> {"none", "connected", "accepted", "walking",
                           "encoding", "answering", "landed", "cut"}]
  /\ named \in SUBSET Requests
  /\ walked \in [Requests -> Results \cup {WalkError, NotWalked}]
  /\ answer \in [Requests -> Answers]
  /\ sessions \in SUBSET Requests
  /\ graph \in SUBSET (Items \cup Stale)

Init ==
  /\ ctxDone = FALSE
  /\ server = "serving"
  /\ listener = "open"
  /\ stopper = "waiting"
  /\ req = [r \in Requests |-> "none"]
  /\ named \in SUBSET Requests
  /\ walked = [r \in Requests |-> NotWalked]
  /\ answer = [r \in Requests |-> "none"]
  /\ sessions = {}
  /\ graph \in {landed \cup Stale : landed \in SUBSET Items}

InFlight(r) ==
  req[r] \in {"connected", "accepted", "walking", "encoding", "answering"}
-----------------------------------------------------------------------------
(* Faults: what the operations below would be with one plausible mistake   *)
(* each.  They are not part of Next; put in the place of the operation     *)
(* they vary, each breaks one property.                                    *)

(* The empty id is left to the schema, which cannot refuse it.             *)
CheckNothing(r) ==
  /\ req[r] = "accepted"
  /\ req' = [req EXCEPT ![r] = "walking"]
  /\ UNCHANGED <<process, named, walked, answer, sessions, graph>>

(* What a walk asserts does not reach the envelope.                        *)
EnvelopeAsserted(w) ==
  IF w.assert \in {"error", "zero", "unexplained"} \/ w.untyped THEN "toolError"
  ELSE "complete"

(* encodeResult does not ask an incomplete walk for its reason: that key   *)
(* is left out of the answer.                                              *)
EnvelopeUnexplained(w) ==
  IF w.assert \in {"error", "zero"} \/ w.untyped THEN "toolError"
  ELSE w.assert

(* A result that is refused is never answered.                             *)
EncodeGoodOnly(r) ==
  /\ req[r] = "encoding"
  /\ walked[r].assert \in {"complete", "incomplete"}
  /\ ~walked[r].untyped
  /\ req' = [req EXCEPT ![r] = "answering"]
  /\ answer' = [answer EXCEPT ![r] = walked[r].assert]
  /\ UNCHANGED <<process, named, walked, sessions, graph>>

(* Shutdown is taken to end the sessions as well.                          *)
CloseNoSession ==
  /\ stopper = "closing"
  /\ server # "exited"
  /\ stopper' = "done"
  /\ UNCHANGED <<ctxDone, server, listener, req, named, walked, answer,
                 sessions, graph>>
-----------------------------------------------------------------------------
(* A connection is accepted; ...                                           *)
Connect(r) ==
  /\ req[r] = "none"
  /\ listener = "open"
  /\ server = "serving"
  /\ req' = [req EXCEPT ![r] = "connected"]
  /\ UNCHANGED <<process, named, walked, answer, sessions, graph>>

(* ... its session is opened, and the call reaches collectHandler.         *)
Accept(r) ==
  /\ req[r] = "connected"
  /\ req' = [req EXCEPT ![r] = "accepted"]
  /\ sessions' = sessions \cup {r}
  /\ UNCHANGED <<process, named, walked, answer, graph>>

AnswerWith(r, a) ==
  /\ req' = [req EXCEPT ![r] = "answering"]
  /\ answer' = [answer EXCEPT ![r] = a]

(* An empty collect id is refused before anything is walked.               *)
CheckID(r) ==
  /\ req[r] = "accepted"
  /\ \/ /\ r \notin named
        /\ AnswerWith(r, "toolError")
     \/ /\ r \in named
        /\ req' = [req EXCEPT ![r] = "walking"]
        /\ UNCHANGED answer
  /\ UNCHANGED <<process, named, walked, sessions, graph>>

WalkReturns(r) ==
  /\ req[r] = "walking"
  /\ \E w \in {x \in Results : Honest(x)} \cup {WalkError} :
       walked' = [walked EXCEPT ![r] = w]
  /\ req' = [req EXCEPT ![r] = "encoding"]
  /\ UNCHANGED <<process, named, answer, sessions, graph>>

(* What collectHandler and encodeResult make of a walk: a failed walk and  *)
(* a malformed result are tool errors, never a successful empty answer.    *)
Envelope(w) ==
  IF \/ w.assert \in {"error", "zero", "unexplained"}
     \/ w.untyped
  THEN "toolError"
  ELSE w.assert

Encode(r) ==
  /\ req[r] = "encoding"
  /\ AnswerWith(r, Envelope(walked[r]))
  /\ UNCHANGED <<process, named, walked, sessions, graph>>

(* The answer reaches the client, which lands it, and declines to delete   *)
(* anything for an answer that names nothing.                              *)
Deletes(r) == answer[r] = "complete" /\ walked[r].carried # {}

Land(r) ==
  /\ req[r] = "answering"
  /\ req' = [req EXCEPT ![r] = "landed"]
  /\ graph' = CASE Deletes(r)               -> walked[r].carried
                [] answer[r] = "toolError"  -> graph
                [] OTHER                    -> graph \cup walked[r].carried
  /\ walked' = [walked EXCEPT ![r] = NotWalked]
  /\ UNCHANGED <<process, named, answer, sessions>>

(* Closing a session, or the process going away, cuts the call on it.      *)
Cut(S) ==
  LET cut == {r \in S : InFlight(r)} IN
  /\ req' = [r \in Requests |-> IF r \in cut THEN "cut" ELSE req[r]]
  /\ walked' = [r \in Requests |-> IF r \in cut THEN NotWalked ELSE walked[r]]
  /\ answer' = [r \in Requests |-> IF r \in cut THEN "none" ELSE answer[r]]

StopSignal ==
  /\ ~ctxDone
  /\ ctxDone' = TRUE
  /\ UNCHANGED <<server, listener, stopper, req, named, walked, answer, sessions, graph>>

(* The goroutine wakes; Shutdown first closes the listener, ...            *)
BeginShutdown ==
  /\ stopper = "waiting"
  /\ ctxDone
  /\ server # "exited"
  /\ stopper' = "draining"
  /\ listener' = "closed"
  /\ UNCHANGED <<ctxDone, server, req, named, walked, answer, sessions, graph>>

(* ... then waits until no request is in flight, or its own context is     *)
(* done httpShutdownGrace later: it may stop waiting at any time here.     *)
EndDrain ==
  /\ stopper = "draining"
  /\ server # "exited"
  /\ stopper' = "closing"
  /\ UNCHANGED <<ctxDone, server, listener, req, named, walked, answer, sessions, graph>>

(* What the MCP library does with a call in flight on a session it closes  *)
(* is external: it is cut, or still answered.                              *)
CloseSessions ==
  /\ stopper = "closing"
  /\ server # "exited"
  /\ stopper' = "done"
  /\ sessions' = {}
  /\ \E S \in SUBSET sessions : Cut(S)
  /\ UNCHANGED <<ctxDone, server, listener, named, graph>>

(* ListenAndServe returns as soon as its listener is closed, and with it   *)
(* ServeHTTP; or the listener fails on its own.                            *)
ServeReturns ==
  /\ server = "serving"
  /\ server' = "returned"
  /\ listener' = "closed"
  /\ UNCHANGED <<ctxDone, stopper, req, named, walked, answer, sessions, graph>>

(* A collector's main returns after ServeHTTP did.                         *)
ProcessExits ==
  /\ server = "returned"
  /\ server' = "exited"
  /\ sessions' = {}
  /\ Cut(Requests)
  /\ UNCHANGED <<ctxDone, listener, stopper, named, graph>>

Gone ==
  /\ server = "exited"
  /\ UNCHANGED vars

Handler(r) == Accept(r) \/ CheckID(r) \/ WalkReturns(r) \/ Encode(r) \/ Land(r)

Next ==
  \/ \E r \in Requests : Connect(r) \/ Handler(r)
  \/ StopSignal
  \/ BeginShutdown
  \/ EndDrain
  \/ CloseSessions
  \/ ServeReturns
  \/ ProcessExits
  \/ Gone

(* Goroutines that can run do run and a walk ends; nobody owes a request,  *)
(* a stop signal, a failing listener, or, in a host that embeds the        *)
(* server, the end of the process.                                         *)
Fairness ==
  /\ \A r \in Requests : WF_vars(Handler(r))
  /\ WF_vars(BeginShutdown \/ EndDrain \/ CloseSessions)
  /\ WF_vars(listener = "closed" /\ ServeReturns)

Spec == Init /\ [][Next]_vars /\ Fairness
-----------------------------------------------------------------------------
(* Nothing the source holds is ever deleted from the client's graph:       *)
(* whatever walks fail, are cut by a shutdown, return malformed results or *)
(* interleave, an item once landed stays.                                  *)
NeverErasesLiveItems == [][graph \cap Items \subseteq graph']_vars

(* A stale row goes only by a collect whose walk carried the whole source  *)
(* and was answered as complete.                                           *)
DeletesOnlyOnWholeWalk ==
  [][graph \ graph' # {} =>
       \E r \in Requests : /\ req[r] = "answering" /\ req'[r] = "landed"
                           /\ r \in named
                           /\ walked[r].assert = "complete"
                           /\ walked[r].carried = Items]_vars

(* Every collect that reached the server ends: it is landed, or cut by the *)
(* shutdown.                                                               *)
CollectsEnd ==
  \A r \in Requests : (req[r] = "connected") ~> (req[r] \in {"landed", "cut"})

(* A stop signal ends every session that is open before the sessions are   *)
(* closed, in a host that keeps running too: its reader does not outlive   *)
(* the server, whether its collect was answered or still in flight.        *)
StopEndsSessions ==
  \A r \in Requests :
    (ctxDone /\ stopper # "done" /\ r \in sessions) ~> (r \notin sessions)

(* serve.go says httpShutdownGrace "bounds how long [ServeHTTP] waits for  *)
(* in-flight requests after its context is cancelled": it does not return  *)
(* between the start of the shutdown and the end of the drain while a      *)
(* request is in flight.                                                   *)
WaitsForInFlight ==
  [][(ctxDone /\ listener = "closed" /\ server = "serving" /\ server' = "returned")
       => stopper \in {"closing", "done"} \/ \A r \in Requests : ~InFlight(r)]_vars
=============================================================================
