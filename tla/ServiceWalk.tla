----------------------------- MODULE ServiceWalk -----------------------------
(***************************************************************************)
(* The aws and azure walks: runServiceWalks and paginate of awswalk,       *)
(* runSubCollectors and drain of azure, and the Walk around each.          *)
(*                                                                         *)
(* Both start a goroutine per service and bound how many work at once by a *)
(* semaphore.  aws looks at the context before it starts each goroutine,   *)
(* while the goroutine waits for the semaphore and before every page of a  *)
(* list, and writes what it finds into one sink; azure starts them all, looks at the *)
(* context once, after the semaphore, and writes each service's partial    *)
(* result and error into slots merged after the join.  The passes that     *)
(* relate the findings of several services run after the join.             *)
(*                                                                         *)
(* A service is abstracted to the number of pages its listing has, a page  *)
(* to whether it was visited to its end.  A listing of MaxPages + 1 stands *)
(* for a service that never stops handing out new tokens.                  *)
(***************************************************************************)
EXTENDS Integers

CONSTANTS
  N,            \* number of services
  Concurrency,  \* how many work at once
  MaxPages,     \* maxPages in paginate
  Providers     \* the collectors to model

ASSUME NAssumption == N \in Nat
ASSUME ConcurrencyAssumption == Concurrency \in Nat \ {0}
ASSUME MaxPagesAssumption == MaxPages \in Nat \ {0}
ASSUME ProvidersAssumption == Providers \subseteq {"aws", "azure", "k8s"}

Services == 1..N

(* What is among the failures when the collect was cancelled.              *)
CancelledMark == 0

VARIABLES
  provider,  \* which collector this is
  ctxDone,   \* the collect's context has been cancelled
  phase,     \* where Walk is
  next,      \* the service whose goroutine is started next
  job,       \* where each service's goroutine is
  held,      \* places of the semaphore taken
  size,      \* how many pages each listing has
  page,      \* how many of them were visited
  failed,    \* the services that returned an error
  subreads,  \* the services below which a per-resource read failed
  failures,  \* what the verdict is made from
  carried,   \* the pages of each service the result and the passes saw
  verdict    \* what Walk returned

vars == <<provider, ctxDone, phase, next, job, held, size, page, failed,
          subreads, failures, carried, verdict>>

source == <<provider, size>>
found == <<page, failed, subreads>>
ending == <<failures, carried, verdict>>

Jobs == {"unstarted", "waiting", "placed", "checked", "calling", "ended"}

TypeOK ==
  /\ provider \in Providers
  /\ ctxDone \in BOOLEAN
  /\ phase \in {"starting", "launching", "launched", "joined", "returned"}
  /\ next \in 1..(N + 1)
  /\ job \in [Services -> Jobs]
  /\ held \in 0..Concurrency
  /\ size \in [Services -> 1..(MaxPages + 1)]
  /\ page \in [Services -> 0..MaxPages]
  /\ failed \in SUBSET Services
  /\ subreads \in SUBSET Services
  /\ failures \in SUBSET (Services \cup {CancelledMark})
  /\ carried \in [Services -> 0..MaxPages]
  /\ verdict \in {"none", "error", "incomplete", "complete"}

(* Azure's drain has no bound of its own: its pagers are taken to end.     *)
Init ==
  /\ provider \in Providers
  /\ ctxDone = FALSE
  /\ phase = "starting"
  /\ next = 1
  /\ job = [s \in Services |-> "unstarted"]
  /\ held = 0
  /\ size \in [Services -> 1..(MaxPages + 1)]
  /\ provider = "azure" => \A s \in Services : size[s] <= MaxPages
  /\ page = [s \in Services |-> 0]
  /\ failed = {}
  /\ subreads = {}
  /\ failures = {}
  /\ carried = [s \in Services |-> 0]
  /\ verdict = "none"
-----------------------------------------------------------------------------
(* Faults: Take, End, CheckContext, Failures and Carried below with one    *)
(* mistake each.                                                           *)

(* The semaphore does not count.                                           *)
TakeUncounted(s) ==
  /\ job[s] = "waiting"
  /\ held' = held + 1
  /\ job' = [job EXCEPT ![s] = "placed"]
  /\ UNCHANGED <<source, ctxDone, phase, next, found, ending>>

(* An error returns without giving the place back.                         *)
EndHolding(s, errs) ==
  /\ job' = [job EXCEPT ![s] = "ended"]
  /\ held' = IF errs = {} THEN held - 1 ELSE held
  /\ failed' = failed \cup errs

(* A service that got its place too late returns without an error.         *)
CheckSilently(s) ==
  /\ job[s] = "placed"
  /\ \/ /\ ctxDone
        /\ job' = [job EXCEPT ![s] = "ended"]
        /\ held' = held - 1
     \/ /\ ~ctxDone
        /\ job' = [job EXCEPT ![s] = "checked"]
        /\ UNCHANGED held
  /\ UNCHANGED <<source, ctxDone, phase, next, found, ending>>

(* A service that gave up waiting is nobody's failure.                     *)
FailuresOfServices == failed \cup subreads

(* Only what came back without an error is merged.                         *)
CarriedOfClean == [s \in Services |-> IF failures = {} THEN page[s] ELSE 0]
-----------------------------------------------------------------------------
CancelContext ==
  /\ ~ctxDone
  /\ ctxDone' = TRUE
  /\ UNCHANGED <<source, phase, next, job, held, found, ending>>

(* Bad parameters, no credential, the wrong account, no subscription.      *)
RefuseToStart ==
  /\ phase = "starting"
  /\ phase' = "returned"
  /\ verdict' = "error"
  /\ UNCHANGED <<source, ctxDone, next, job, held, found, failures, carried>>

Start ==
  /\ phase = "starting"
  /\ phase' = "launching"
  /\ UNCHANGED <<source, ctxDone, next, job, held, found, ending>>

(* One iteration of the loop that starts the goroutines.                   *)
Launch ==
  /\ phase = "launching"
  /\ next <= N
  /\ provider = "aws" => ~ctxDone
  /\ job' = [job EXCEPT ![next] = "waiting"]
  /\ next' = next + 1
  /\ UNCHANGED <<source, ctxDone, phase, held, found, ending>>

(* The loop ends; aws breaks out of it once the context is done.           *)
EndLaunch ==
  /\ phase = "launching"
  /\ next > N \/ (provider = "aws" /\ ctxDone)
  /\ phase' = "launched"
  /\ UNCHANGED <<source, ctxDone, next, job, held, found, ending>>

Take(s) ==
  /\ job[s] = "waiting"
  /\ held < Concurrency
  /\ held' = held + 1
  /\ job' = [job EXCEPT ![s] = "placed"]
  /\ UNCHANGED <<source, ctxDone, phase, next, found, ending>>

(* The other arm of aws's select: the goroutine returns without an error.  *)
GiveUp(s) ==
  /\ provider = "aws"
  /\ job[s] = "waiting"
  /\ ctxDone
  /\ job' = [job EXCEPT ![s] = "ended"]
  /\ UNCHANGED <<source, ctxDone, phase, next, held, found, ending>>

(* The service's goroutine returns and its deferred receive frees a place. *)
End(s, errs) ==
  /\ job' = [job EXCEPT ![s] = "ended"]
  /\ held' = held - 1
  /\ failed' = failed \cup errs

(* azure looks once; aws looks in paginate before every page, but a        *)
(* service that does not begin with a page loop (walkOpenSearch) makes its *)
(* first call without a look.                                              *)
BeginsUnchecked(s) == provider = "aws" /\ page[s] = 0

CheckContext(s) ==
  /\ job[s] = "placed"
  /\ \/ /\ ctxDone
        /\ End(s, {s})
     \/ /\ ~ctxDone \/ BeginsUnchecked(s)
        /\ job' = [job EXCEPT ![s] = "checked"]
        /\ UNCHANGED <<held, failed>>
  /\ UNCHANGED <<source, ctxDone, phase, next, page, subreads, ending>>

(* The request carries the context, so one made too late fails by itself.  *)
Call(s) ==
  /\ job[s] = "checked"
  /\ IF ctxDone
     THEN End(s, {s})
     ELSE job' = [job EXCEPT ![s] = "calling"] /\ UNCHANGED <<held, failed>>
  /\ UNCHANGED <<source, ctxDone, phase, next, page, subreads, ending>>

(* The call fails, or visit does.                                          *)
CallFails(s) ==
  /\ job[s] = "calling"
  /\ End(s, {s})
  /\ UNCHANGED <<source, ctxDone, phase, next, page, subreads, ending>>

(* The page was the last: nil or an empty token, or no next link.          *)
LastPage(s) == page[s] + 1 = size[s]

(* paginate gives up on a token it has just sent, and after MaxPages.      *)
NotAdvancing(s) == provider = "aws" /\ page[s] > 0
TooManyPages(s) == provider = "aws" /\ page[s] + 1 = MaxPages

(* A page came back and visit went over it.  A read aws makes below a      *)
(* resource may fail on its own: it is recorded and the walk goes on.      *)
VisitPage(s) ==
  /\ job[s] = "calling"
  /\ page' = [page EXCEPT ![s] = @ + 1]
  /\ \/ UNCHANGED subreads
     \/ provider = "aws" /\ subreads' = subreads \cup {s}
  /\ \/ LastPage(s) /\ End(s, {})
     \/ ~LastPage(s) /\ (NotAdvancing(s) \/ TooManyPages(s)) /\ End(s, {s})
     \/ /\ ~LastPage(s) /\ ~TooManyPages(s)
        /\ job' = [job EXCEPT ![s] = IF provider = "aws" THEN "placed" ELSE "checked"]
        /\ UNCHANGED <<held, failed>>
  /\ UNCHANGED <<source, ctxDone, phase, next, ending>>

Joined == \A s \in Services : job[s] \in {"unstarted", "ended"}

Failures ==
  failed \cup subreads
    \cup (IF provider = "aws" /\ ctxDone THEN {CancelledMark} ELSE {})

(* wg.Wait returned and the failures are gathered.                         *)
Join ==
  /\ phase = "launched"
  /\ Joined
  /\ phase' = "joined"
  /\ failures' = Failures
  /\ UNCHANGED <<source, ctxDone, next, job, held, found, carried, verdict>>

(* A failed service's pages are carried like any other's.                  *)
Carried == page

(* The second pass over what was recorded, the merge and the verdict: no   *)
(* goroutine of the walk is left.                                          *)
Return ==
  /\ phase = "joined"
  /\ phase' = "returned"
  /\ carried' = Carried
  /\ verdict' = IF failures = {} THEN "complete" ELSE "incomplete"
  /\ UNCHANGED <<source, ctxDone, next, job, held, found, failures>>

Done ==
  /\ phase = "returned"
  /\ UNCHANGED vars

Next ==
  \/ CancelContext
  \/ RefuseToStart
  \/ Start
  \/ Launch
  \/ EndLaunch
  \/ \E s \in Services :
       Take(s) \/ GiveUp(s) \/ CheckContext(s) \/ Call(s) \/ CallFails(s) \/ VisitPage(s)
  \/ Join
  \/ Return
  \/ Done

(* Goroutines run, and every call returns: the SDKs bound their attempts.  *)
(* A goroutine waiting for the semaphore takes a place that stays free.    *)
Fairness ==
  /\ WF_vars(RefuseToStart \/ Start)
  /\ WF_vars(Launch \/ EndLaunch)
  /\ WF_vars(Join \/ Return)
  /\ \A s \in Services :
       /\ WF_vars(Take(s) \/ GiveUp(s))
       /\ WF_vars(CheckContext(s) \/ Call(s) \/ CallFails(s) \/ VisitPage(s))

Spec == Init /\ [][Next]_vars /\ Fairness
-----------------------------------------------------------------------------
(* A walk that asserts COMPLETE visited every page of every service, had   *)
(* no read below a resource fail, and both carries them and derived the    *)
(* relations between services from all of them: whichever of the loop, the *)
(* wait for the semaphore, the page loop and the last look at the context  *)
(* met the cancellation.                                                   *)
CompleteIsWhole ==
  verdict = "complete" =>
    /\ subreads = {}
    /\ \A s \in Services : page[s] = size[s] /\ carried[s] = size[s]

(* The walk returns even when it is cancelled, when a service repeats its  *)
(* token or never stops handing out new ones, and when every service       *)
(* fails: each path out of a goroutine gives its place back.               *)
Terminates == <>(phase = "returned")

(* The contract with the server.  A part is a service's whole listing.     *)
Contract == INSTANCE WalkContract WITH
  Parts <- Services,
  seen <- {s \in Services : job[s] = "ended" /\ page[s] = size[s] /\ s \notin failed \cup subreads},
  landed <- IF verdict \in {"incomplete", "complete"}
            THEN {s \in Services : carried[s] = size[s]} ELSE {},
  verdict <- verdict

KeepsContract == Contract!Spec
=============================================================================
