----------------------------- MODULE SearchWalk -----------------------------
(***************************************************************************)
(* The walks of hubspot, notion and slack beside that of LokiWalk: a CRM   *)
(* search (readSearch, readAssociations), a data source (queryDataSource,  *)
(* readPageObject), and a message search and a channel (readSearch,        *)
(* readChannel, readPosters), over the clients' retries.                   *)
(*                                                                         *)
(* An answer comes in pages behind a cursor, and a service stops an answer *)
(* at a cap of its own.  hubspot then asks for the records after the last  *)
(* id it read, notion for the entries created at or after the last one;    *)
(* slack has no window and compares what came with what was announced.     *)
(* What a query names is not yet read: an entry's blocks, comments,        *)
(* associations, replies or poster take a call of their own, for notion    *)
(* before the next page, for the others when the query is over.            *)
(*                                                                         *)
(* An error ends the collect only when it says that the collect cannot     *)
(* succeed; every other one leaves a reason, and the walk goes on.         *)
(***************************************************************************)
EXTENDS LokiWalk

CONSTANTS
  Walks,          \* the walks to model
  ResultCap,      \* SearchResultCap, and the services' other result limits
  BatchLimit,     \* AssociationBatchLimit, BatchReadLimit
  MaxHeld,        \* how many entries a search selects at most
  Waits,          \* the waits a rate-limited answer may ask for
  RetryDeadline   \* RetryDeadline; MaxAttempts is ClientRetries + 1

ASSUME WalksAssumption ==
  Walks \subseteq {"loki", "hubspot", "notion", "slackSearch", "slackChannel"}
ASSUME CapAssumption == ResultCap \in Nat \ {0}
ASSUME BatchAssumption == BatchLimit \in Nat \ {0}
ASSUME MaxHeldAssumption == MaxHeld \in Nat
ASSUME WaitsAssumption == Waits \subseteq Nat
ASSUME DeadlineAssumption == RetryDeadline \in Nat

NoEntry == [at |-> WindowStart - 1, nr |-> 0]

VARIABLES
  walk,       \* which walk this is
  admits,     \* the filter caps admit an hs_object_id window
  stage,      \* "page", "window", "entries" (between two pages) or "last"
  since,      \* the entry the window starts at, or NoEntry
  delivered,  \* what the query of this window returned so far
  live,       \* the last page carried a cursor
  capped,     \* a page carried the service's cap signal
  met,        \* the entries whose read was begun or is due
  todo,       \* the entries whose read is due
  waited,     \* how long this call waited
  reasons     \* a read is marked incomplete, or the walk cancelled

searchVars == <<walk, admits, stage, since, delivered, live, capped, met,
                todo, waited, reasons>>
query == <<since, delivered, live, capped, met>>
fixed == <<source, end, edges, walk, admits>>
allVars == <<vars, searchVars>>

SearchInit ==
  /\ Init
  /\ walk \in Walks
  /\ walk # "loki" => Cardinality(held) <= MaxHeld /\ honoursEnd
  /\ walk \notin {"loki", "slackSearch"} => passes = held
  /\ admits \in BOOLEAN
  /\ walk # "hubspot" => admits
  /\ stage = "page"
  /\ since = NoEntry
  /\ delivered = {}
  /\ live = TRUE
  /\ capped = FALSE
  /\ met = {}
  /\ todo = {}
  /\ waited = 0
  /\ reasons = FALSE
-----------------------------------------------------------------------------
(* The services: an order of its own, a window it applies, and the pages it *)
(* may answer.  hubspot is asked to sort by id, notion by created_time,    *)
(* which several entries share; nothing is known of slack's order.         *)
Before(e, f) ==
  \/ walk \in {"hubspot", "notion"} /\ e.at < f.at
  \/ walk = "hubspot" /\ e.at = f.at /\ e.nr < f.nr

(* A fault, not part of SearchNext; put in the place of InWindow it breaks *)
(* a property: notion's window starts after the last created_time.         *)
InWindowAfter(e) ==
  \/ since = NoEntry
  \/ walk = "hubspot" /\ Before(since, e)
  \/ walk = "notion" /\ e.at > since.at

(* The window a query adds to its filter: hubspot's is after an id,        *)
(* notion's on or after an instant, whose entries may not all have come.   *)
InWindow(e) ==
  \/ since = NoEntry
  \/ walk = "hubspot" /\ Before(since, e)
  \/ walk = "notion" /\ e.at >= since.at

Selected == {e \in held : InWindow(e)}

Ahead == Selected \ delivered

(* Everything is delivered, and what the service holds back it tells:      *)
(* hubspot and slack's search by the total, notion and slack's history by  *)
(* a signal.                                                               *)
Serves(page, more, signal) ==
  /\ Cardinality(page) <= PageLimit
  /\ Cardinality(delivered \cup page) <= ResultCap
  /\ \A e \in page, f \in Ahead \ page : ~Before(f, e)
  /\ page # {} \/ Ahead = {} \/ walk # "notion"
  /\ more => page # {} /\ page # Ahead
  /\ more /\ walk # "hubspot" => Cardinality(delivered \cup page) < ResultCap
  /\ signal => walk \in {"notion", "slackChannel"}
  /\ walk = "notion" /\ signal => Cardinality(delivered \cup page) = ResultCap
  /\ ~more /\ page # Ahead =>
       \/ walk \in {"hubspot", "slackSearch"}
       \/ signal
-----------------------------------------------------------------------------
Mark == reasons' = TRUE
NextCall == attempt' = 0 /\ waited' = 0 /\ phase' = "asking"

(* A query that goes no further.  What it named before is still read.      *)
QueryEnds == stage' = "last"

(* The entries are read in order, of hubspot's a chunk in one call.        *)
Chunk(b) ==
  /\ b # {}
  /\ Cardinality(b) <= (IF walk = "hubspot" THEN BatchLimit ELSE 1)
  /\ \A e \in b, f \in todo \ b :
       /\ e.at < f.at \/ (e.at = f.at /\ e.nr < f.nr)
       /\ walk = "hubspot" => Cardinality(b) = BatchLimit

Calling == stage = "page" \/ (stage \in {"entries", "last"} /\ todo # {})

(* fail, for an error that only leaves a reason: a query ends, the entries *)
(* of a call are left as they are and the walk goes on.                    *)
FailSoftly ==
  /\ Mark
  /\ NextCall
  /\ \/ stage = "page" /\ QueryEnds /\ UNCHANGED todo
     \/ /\ stage # "page"
        /\ \E b \in SUBSET todo : Chunk(b) /\ todo' = todo \ b
        /\ UNCHANGED stage

(* stopped, before a call.                                                 *)
Stopped ==
  /\ phase = "asking"
  /\ Calling
  /\ attempt = 0
  /\ ctxDone
  /\ Mark
  /\ QueryEnds
  /\ todo' = {}
  /\ UNCHANGED <<fixed, query, ctxDone, attempt, waited, phase, kept, verdict>>

(* The entries a page names, which are read once however often they come.  *)
Meet(entries) ==
  /\ met' = met \cup entries
  /\ todo' = todo \cup (entries \ met)

Loop(more) ==
  /\ live' = more
  /\ stage' = IF more THEN "page" ELSE "window"

(* searchQuery stops at SearchResultCap whatever the cursor.               *)
HubspotPage(page, more) ==
  /\ walk = "hubspot"
  /\ Meet(page)
  /\ Loop(more /\ Cardinality(delivered \cup page) < ResultCap)
  /\ UNCHANGED <<capped, reasons>>

(* queryWindow reads the entries of a page before the next page.           *)
NotionPage(page, more, signal) ==
  /\ walk = "notion"
  /\ Meet(page)
  /\ capped' = (capped \/ signal)
  /\ live' = more
  /\ stage' = "entries"
  /\ UNCHANGED reasons

(* The window of a message search is applied here, after the count.        *)
SlackMatches(page, more) ==
  /\ walk = "slackSearch"
  /\ Meet(page \cap passes)
  /\ Loop(more)
  /\ UNCHANGED <<capped, reasons>>

(* is_limited leaves a reason, and the loop goes on.                       *)
SlackHistory(page, more, limited) ==
  /\ walk = "slackChannel"
  /\ Meet(page)
  /\ reasons' = (reasons \/ limited)
  /\ Loop(more)
  /\ UNCHANGED capped

QueryAnswers ==
  /\ phase = "asking"
  /\ stage = "page"
  /\ ~ctxDone
  /\ \E page \in SUBSET Ahead, more, signal \in BOOLEAN :
       /\ Serves(page, more, signal)
       /\ delivered' = delivered \cup page
       /\ \/ HubspotPage(page, more)
          \/ NotionPage(page, more, signal)
          \/ SlackMatches(page, more)
          \/ SlackHistory(page, more, signal)
  /\ NextCall
  /\ UNCHANGED <<fixed, ctxDone, since, kept, verdict>>

(* The calls for the next entries.  A batch of hubspot's may not return    *)
(* some of them, which leaves a reason.                                    *)
EntriesAnswer ==
  /\ phase = "asking"
  /\ stage \in {"entries", "last"}
  /\ ~ctxDone
  /\ \E b \in SUBSET todo : \E returned \in SUBSET b :
       /\ Chunk(b)
       /\ returned = b \/ walk = "hubspot"
       /\ kept' = kept \cup returned
       /\ todo' = todo \ b
       /\ reasons' = (reasons \/ returned # b)
  /\ NextCall
  /\ UNCHANGED <<fixed, query, ctxDone, stage, verdict>>

(* An error without an answer, a server error and an entry that is not     *)
(* there only leave a reason; a refused token, a missing scope and a       *)
(* refused filter end the collect.                                         *)
CallFails ==
  /\ phase = "asking"
  /\ Calling
  /\ \/ FailSoftly /\ UNCHANGED verdict
     \/ ~ctxDone /\ Answer("error") /\ UNCHANGED <<stage, todo, waited, reasons, attempt>>
  /\ UNCHANGED <<fixed, query, ctxDone, kept>>

(* retryWait, for the wait a rate-limited answer asks for.  An answer that  *)
(* asks for none that can be read fails the call like CallFails.           *)
Admitted(wait) ==
  /\ attempt < ClientRetries
  /\ waited + wait <= RetryDeadline

RateLimited ==
  /\ phase = "asking"
  /\ Calling
  /\ ~ctxDone
  /\ \E wait \in Waits :
       \/ /\ Admitted(wait)
          /\ phase' = "backoff"
          /\ waited' = waited + wait
          /\ UNCHANGED <<attempt, stage, todo, reasons>>
       \/ ~Admitted(wait) /\ FailSoftly
  /\ UNCHANGED <<fixed, query, ctxDone, kept, verdict>>

(* The client's wait: its timer fires, or the context ends it first.       *)
WaitEnds ==
  /\ phase = "backoff"
  /\ \/ /\ phase' = "asking"
        /\ attempt' = attempt + 1
        /\ UNCHANGED <<stage, todo, waited, reasons>>
     \/ ctxDone /\ FailSoftly
  /\ UNCHANGED <<fixed, query, ctxDone, kept, verdict>>
-----------------------------------------------------------------------------
(* The last entry the query returned.                                      *)
Last(e) == e \in delivered /\ \A f \in delivered : ~Before(e, f)

MoveWindow ==
  /\ \E e \in delivered : Last(e) /\ since' = e
  /\ delivered' = {}
  /\ live' = TRUE
  /\ capped' = FALSE
  /\ stage' = "page"
  /\ UNCHANGED <<reasons, met>>

EndQuery(marked) ==
  /\ QueryEnds
  /\ reasons' = (reasons \/ marked)
  /\ UNCHANGED query

(* What follows a query of hubspot's: the next window starts after the     *)
(* last id, when the query was cut at SearchResultCap and more is there.   *)
HubspotWindow ==
  LET read  == Cardinality(delivered)
      total == Cardinality(Selected) IN
  \/ /\ read < ResultCap \/ total <= read
     /\ EndQuery(total > read)
  \/ /\ read >= ResultCap /\ total > read
     /\ ~admits
     /\ EndQuery(TRUE)
  \/ /\ read >= ResultCap /\ total > read
     /\ admits
     /\ MoveWindow

(* A fault, in the place of NotionWindow: a capped window that cannot move *)
(* is asked for again.                                                     *)
NotionWindowUnguarded ==
  \/ ~capped /\ EndQuery(FALSE)
  \/ capped /\ delivered = {} /\ EndQuery(TRUE)
  \/ capped /\ delivered # {} /\ MoveWindow

(* Of notion's: the next window starts at the last created_time, unless    *)
(* this window started there or held nothing.                              *)
NotionWindow ==
  LET stuck == \A e \in delivered : Last(e) => e.at = since.at IN
  \/ ~capped /\ EndQuery(FALSE)
  \/ capped /\ stuck /\ EndQuery(TRUE)
  \/ capped /\ ~stuck /\ MoveWindow

(* Of slack's: the total tells whether a search was cut.                   *)
SlackWindow ==
  EndQuery(walk = "slackSearch" /\ Cardinality(Selected) > Cardinality(delivered))

AfterQuery ==
  /\ phase = "asking"
  /\ stage = "window"
  /\ \/ walk = "hubspot" /\ HubspotWindow
     \/ walk = "notion" /\ NotionWindow
     \/ walk \in {"slackSearch", "slackChannel"} /\ SlackWindow
  /\ UNCHANGED <<fixed, ctxDone, attempt, phase, kept, verdict, todo, waited>>

(* notion has read the entries of a page.                                  *)
EntriesEnd ==
  /\ stage = "entries"
  /\ todo = {}
  /\ stage' = IF live THEN "page" ELSE "window"
  /\ UNCHANGED <<fixed, query, ctxDone, attempt, phase, kept, verdict, todo,
                 waited, reasons>>

(* completeness: any reason is an incomplete walk.                         *)
Completeness ==
  /\ phase = "asking"
  /\ stage = "last"
  /\ todo = {}
  /\ Answer(IF reasons THEN "incomplete" ELSE "complete")
  /\ UNCHANGED <<fixed, query, ctxDone, attempt, kept, stage, todo, waited, reasons>>

Searching ==
  \/ Stopped \/ QueryAnswers \/ EntriesAnswer \/ CallFails \/ RateLimited
  \/ WaitEnds \/ AfterQuery \/ EntriesEnd \/ Completeness

SearchNext ==
  \/ walk = "loki" /\ Next /\ UNCHANGED searchVars
  \/ walk # "loki" /\ Searching
  \/ walk # "loki" /\ (CancelContext \/ Done) /\ UNCHANGED searchVars

(* Every request and every wait ends, and the walk goes on after it.       *)
SearchFairness ==
  /\ WF_allVars(walk = "loki" /\ (PageArrives \/ AttemptFails) /\ UNCHANGED searchVars)
  /\ WF_allVars(walk = "loki" /\ BackoffEnds /\ UNCHANGED searchVars)
  /\ WF_allVars(walk # "loki" /\ Searching)

SearchSpec == SearchInit /\ [][SearchNext]_allVars /\ SearchFairness
=============================================================================
