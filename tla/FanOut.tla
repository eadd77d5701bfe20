------------------------------- MODULE FanOut -------------------------------
(***************************************************************************)
(* The fan-out walk of the gcp, github-actions, bitbucket-pipelines and    *)
(* gitlab-ci collectors: walk.go's Walk, fanOut and completeness.          *)
(*                                                                         *)
(* A feeder hands the indices of the enumerations to a bounded set of      *)
(* worker goroutines over an unbuffered channel and stops early when the   *)
(* collect's context is done.  Each worker writes the outcome of the       *)
(* enumeration it ran into a slot of its own.  When every worker has       *)
(* exited, the slots are folded into the findings, the incompletenesses    *)
(* and the failures, and Walk turns those into a result or an error.       *)
(*                                                                         *)
(* Findings are abstracted to whether an enumeration found any resource,   *)
(* and the wording of a reason to the set of those it names.               *)
(***************************************************************************)
EXTENDS Integers

CONSTANTS
  N,                   \* number of enumerations the walk fans out over
  Concurrency,         \* Collector.Concurrency; 0 or less selects the default
  DefaultConcurrency,  \* defaultConcurrency in walk.go
  Providers            \* the collectors to model

ASSUME NAssumption == N \in Nat
ASSUME ConcurrencyAssumption == Concurrency \in Int
ASSUME DefaultAssumption == DefaultConcurrency \in Nat \ {0}
ASSUME ProvidersAssumption ==
  Providers \subseteq {"gcp", "github", "bitbucket", "gitlab"}

Subs == 1..N

Limit == IF Concurrency <= 0 THEN DefaultConcurrency ELSE Concurrency
Workers == 1..(IF Limit > N THEN N ELSE Limit)

(* A worker holds the index it runs, or one of these.                      *)
Idle   == 0
Exited == -1

(* What an enumeration comes back with.  "marked" is an error wrapping one *)
(* of the sentinels (ErrDenied, ErrPartial, ErrRateLimited): the provider  *)
(* answered, with less than the whole scope.                               *)
NotRun == [err |-> "notrun", found |-> FALSE]
Ran == [err : {"nil", "marked", "failed"}, found : BOOLEAN]

(* What is in failures when the feeder stopped early.                      *)
CancelledMark == 0

VARIABLES
  provider,    \* which collector this is
  ctxDone,     \* the collect's context has been cancelled
  phase,       \* where Walk is
  phaseOne,    \* the read beside the enumerations: bitbucket's repositories
               \* before the fan-out, gitlab's project discovery after it
  next,        \* the index the feeder hands out next
  cancelled,   \* the feeder stopped because of the context
  worker,      \* what each worker is doing
  outcome,     \* the slots
  incomplete,  \* the enumerations folded as incomplete
  failures,    \* the enumerations folded as failed, and CancelledMark
  carried,     \* the enumerations whose findings were added
  verdict      \* what Walk returned

vars == <<provider, ctxDone, phase, phaseOne, next, cancelled, worker,
          outcome, incomplete, failures, carried, verdict>>

folded == <<incomplete, failures, carried>>
feeding == <<next, cancelled>>

Phases == {"starting", "feeding", "closed", "folded", "returned"}

TypeOK ==
  /\ provider \in Providers
  /\ ctxDone \in BOOLEAN
  /\ phase \in Phases
  /\ phaseOne \in {"nil", "marked", "notrun"}
  /\ next \in 1..(N + 1)
  /\ cancelled \in BOOLEAN
  /\ worker \in [Workers -> Subs \cup {Idle, Exited}]
  /\ outcome \in [Subs -> Ran \cup {NotRun}]
  /\ incomplete \in SUBSET Subs
  /\ failures \in SUBSET (Subs \cup {CancelledMark})
  /\ carried \in SUBSET Subs
  /\ verdict \in {"none", "error", "incomplete", "complete"}

Init ==
  /\ provider \in Providers
  /\ ctxDone \in BOOLEAN
  /\ phase = "starting"
  /\ phaseOne = "notrun"
  /\ next = 1
  /\ cancelled = FALSE
  /\ worker = [w \in Workers |-> Idle]
  /\ outcome = [i \in Subs |-> NotRun]
  /\ incomplete = {}
  /\ failures = {}
  /\ carried = {}
  /\ verdict = "none"
-----------------------------------------------------------------------------
(* Faults: what Feed, StopFeeding, ExitWorker, Fold and Completeness below  *)
(* would be with one plausible mistake each.  They are not part of Next;   *)
(* put in the place of the action they vary, each breaks one property.     *)

(* The feeder's loop runs one index too far.                               *)
FeedOneTooMany(w) ==
  /\ phase = "feeding"
  /\ worker[w] = Idle
  /\ worker' = [worker EXCEPT ![w] = next]
  /\ next' = next + 1
  /\ UNCHANGED <<provider, ctxDone, phase, phaseOne, cancelled, outcome,
                 folded, verdict>>

(* The feeder breaks off without remembering why.                          *)
StopFeedingUnmarked ==
  /\ phase = "feeding"
  /\ next <= N
  /\ ctxDone
  /\ phase' = "closed"
  /\ UNCHANGED <<provider, ctxDone, phaseOne, feeding, worker, outcome, folded,
                 verdict>>

(* Workers wait for every index instead of for the close.                  *)
ExitWorkerAfterAll(w) ==
  /\ phase = "closed"
  /\ next > N
  /\ worker[w] = Idle
  /\ worker' = [worker EXCEPT ![w] = Exited]
  /\ UNCHANGED <<provider, ctxDone, phase, phaseOne, feeding, outcome,
                 folded, verdict>>

(* The slots are folded without waiting for the workers.                   *)
FoldUnjoined ==
  /\ phase = "closed"
  /\ phase' = "folded"
  /\ phaseOne' \in IF provider = "gitlab" THEN {"nil", "marked"} ELSE {phaseOne}
  /\ carried' = {i \in Subs : outcome[i].err \in {"nil", "marked"}}
  /\ incomplete' = {i \in Subs : outcome[i].err = "marked"}
  /\ failures' = {i \in Subs : outcome[i].err = "failed"}
  /\ UNCHANGED <<provider, ctxDone, feeding, worker, outcome, verdict>>

(* A refused or partial enumeration does not count against completeness.   *)
CompletenessOfFailures == IF failures = {} THEN "complete" ELSE "incomplete"
-----------------------------------------------------------------------------
(* The client goes away, or the process is told to stop.                   *)
CancelContext ==
  /\ ~ctxDone
  /\ ctxDone' = TRUE
  /\ UNCHANGED <<provider, phase, phaseOne, feeding, worker, outcome, folded,
                 verdict>>

(* Walk refuses: a malformed id, no enumerations, the clients could not be *)
(* built, or (bitbucket) the repository listing itself failed.             *)
RefuseToStart ==
  /\ phase = "starting"
  /\ phase' = "returned"
  /\ verdict' = "error"
  /\ UNCHANGED <<provider, ctxDone, phaseOne, feeding, worker, outcome,
                 folded>>

(* The enumerations are known.  Only bitbucket can be marked here: its     *)
(* repositories enumeration ran and could not carry all of it.  What       *)
(* gitlab's discovery could not see is not known before the join.          *)
Start ==
  /\ phase = "starting"
  /\ phase' = "feeding"
  /\ phaseOne' \in CASE provider = "bitbucket" -> {"nil", "marked"}
                     [] provider = "gitlab" -> {"notrun"}
                     [] OTHER -> {"nil"}
  /\ UNCHANGED <<provider, ctxDone, feeding, worker, outcome, folded,
                 verdict>>

(* The unbuffered send pairs with a worker waiting in its range loop.      *)
Feed(w) ==
  /\ phase = "feeding"
  /\ next <= N
  /\ worker[w] = Idle
  /\ worker' = [worker EXCEPT ![w] = next]
  /\ next' = next + 1
  /\ UNCHANGED <<provider, ctxDone, phase, phaseOne, cancelled, outcome,
                 folded, verdict>>

(* The other arm of the feeder's select; the channel is closed after it.   *)
StopFeeding ==
  /\ phase = "feeding"
  /\ next <= N
  /\ ctxDone
  /\ cancelled' = TRUE
  /\ phase' = "closed"
  /\ UNCHANGED <<provider, ctxDone, phaseOne, next, worker, outcome, folded,
                 verdict>>

CloseWork ==
  /\ phase = "feeding"
  /\ next > N
  /\ phase' = "closed"
  /\ UNCHANGED <<provider, ctxDone, phaseOne, feeding, worker, outcome,
                 folded, verdict>>

(* subs[i].Run returned; the worker stores the outcome in slot i.          *)
FinishSub(w) ==
  /\ worker[w] \in Subs
  /\ \E o \in Ran : outcome' = [outcome EXCEPT ![worker[w]] = o]
  /\ worker' = [worker EXCEPT ![w] = Idle]
  /\ UNCHANGED <<provider, ctxDone, phase, phaseOne, feeding, folded,
                 verdict>>

(* The range over the closed channel ends.                                 *)
ExitWorker(w) ==
  /\ phase = "closed"
  /\ worker[w] = Idle
  /\ worker' = [worker EXCEPT ![w] = Exited]
  /\ UNCHANGED <<provider, ctxDone, phase, phaseOne, feeding, outcome,
                 folded, verdict>>

Joined == \A w \in Workers : worker[w] = Exited

(* wg.Wait returned; the slots are folded in the order of the              *)
(* enumerations, and gitlab appends the gaps of its discovery.             *)
Fold ==
  /\ phase = "closed"
  /\ Joined
  /\ phase' = "folded"
  /\ carried' = {i \in Subs : outcome[i].err \in {"nil", "marked"}}
  /\ incomplete' = {i \in Subs : outcome[i].err = "marked"}
  /\ failures' = {i \in Subs : outcome[i].err = "failed"}
                   \cup (IF cancelled THEN {CancelledMark} ELSE {})
  /\ phaseOne' \in IF provider = "gitlab" THEN {"nil", "marked"} ELSE {phaseOne}
  /\ UNCHANGED <<provider, ctxDone, feeding, worker, outcome, verdict>>

FoundNothing == \A i \in carried : ~outcome[i].found

(* "every enumeration failed": gcp, github and gitlab refuse a walk with a *)
(* failure and no resource at all.                                         *)
LearnedNothing ==
  /\ provider # "bitbucket"
  /\ failures # {}
  /\ FoundNothing

Completeness ==
  IF incomplete = {} /\ failures = {} /\ phaseOne = "nil"
  THEN "complete"
  ELSE "incomplete"

(* Walk returns, and with it runs its deferred release.  The joins and the *)
(* build over the merged result may fail too, and then there is no result. *)
Return ==
  /\ phase = "folded"
  /\ phase' = "returned"
  /\ verdict' \in IF LearnedNothing THEN {"error"} ELSE {Completeness, "error"}
  /\ UNCHANGED <<provider, ctxDone, phaseOne, feeding, worker, outcome, folded>>

Done ==
  /\ phase = "returned"
  /\ UNCHANGED vars

Next ==
  \/ CancelContext
  \/ RefuseToStart
  \/ Start
  \/ \E w \in Workers : Feed(w) \/ FinishSub(w) \/ ExitWorker(w)
  \/ StopFeeding
  \/ CloseWork
  \/ Fold
  \/ Return
  \/ Done

(* A goroutine that can run does run, and an enumeration's Run returns:    *)
(* every request it makes carries a context or a client timeout.  Nothing  *)
(* obliges the client to cancel.                                           *)
Fairness ==
  /\ WF_vars(RefuseToStart \/ Start)
  /\ WF_vars(StopFeeding \/ CloseWork \/ Fold \/ Return)
  /\ WF_vars(\E w \in Workers : Feed(w))
  /\ \A w \in Workers : WF_vars(FinishSub(w) \/ ExitWorker(w))

Spec == Init /\ [][Next]_vars /\ Fairness
-----------------------------------------------------------------------------
(* No two goroutines ever write one slot, no slot is written twice, and no *)
(* enumeration is still running when the slots are folded and the          *)
(* provider's clients released: what makes the unlocked slots of fanOut    *)
(* race-free and the deferred release safe.                                *)
SlotsNotShared ==
  /\ \A v, w \in Workers : worker[v] \in Subs /\ worker[v] = worker[w] => v = w
  /\ \A w \in Workers : worker[w] \in Subs => outcome[worker[w]] = NotRun
  /\ phase \in {"folded", "returned"} => \A w \in Workers : worker[w] \notin Subs

(* A walk that asserts COMPLETE ran every enumeration, each of them came   *)
(* back without an error, and the read the fan-out started from was whole: *)
(* nothing the server would delete is missing for want of being read, at   *)
(* whatever moment the context was cancelled.                              *)
CompleteIsWhole ==
  verdict = "complete" =>
    /\ phaseOne = "nil"
    /\ \A i \in Subs : outcome[i].err = "nil"

(* The walk returns, whether or not it is cancelled and at whatever point: *)
(* the feeder is never stuck on a send nobody will receive, and no worker  *)
(* waits for a close that does not come.                                   *)
Terminates == <>(phase = "returned")

(* The contract this walk keeps with the server.  Part 0 is the read       *)
(* beside the enumerations; part i is what enumeration i lists.            *)
Contract == INSTANCE WalkContract WITH
  Parts <- 0..N,
  seen <- {i \in Subs : outcome[i].err = "nil"}
            \cup (IF phaseOne = "nil" THEN {0} ELSE {}),
  landed <- IF verdict \in {"incomplete", "complete"}
            THEN carried \cup {0} ELSE {},
  verdict <- verdict

KeepsContract == Contract!Spec
=============================================================================
