# Knowledge collectors: a TLA+ verification project

The repository holds *collectors*: small programs that walk a source (a cloud
account, a CI provider, a log store, a browser session), answer the nodes and
edges they found over MCP, and assert whether the walk was **complete**. The
assertion decides what happens downstream: after a complete collect the server
deletes every row the collect did not carry, after an incomplete one it only
adds, and an error writes nothing. Almost everything that can go badly wrong in
this code ends in one of two ways: a walk asserts complete although something
was not read, so live data is deleted, or a walk never ends. The project states
and checks those properties where the code makes them hard: concurrency,
cancellation, partial failure, paging and shutdown.

## Inventory

| Part | State it keeps | Operations | Talks to | What is hard |
|---|---|---|---|---|
| `framework` (Go) | an HTTP server, its MCP sessions, one shutdown goroutine | `ServeStdio`, `ServeHTTP`, `collectHandler`, `encodeResult`, declarations and schemas | the client that lands results; the collector's `Walk` | stop signals racing requests; malformed and failed walks |
| fan-out walks: `gcp`, `github-actions`, `bitbucket-pipelines`, `gitlab-ci` | outcome slots, an unbuffered work channel, a worker per slot of concurrency | `Walk`, `fanOut`, `completeness` | the provider's API through one enumeration each | cancellation between hand-outs, unlocked slots, folding partial outcomes |
| `gitlab-ci` project discovery | a `sync.Once` cache of projects and gaps | `list`, `walkSubgroups` | all seven enumerations ask it (a comment says six) | whose context runs it; gaps that must reach the verdict |
| `aws` | a locked sink, an error map, sub-read failures | `runServiceWalks`, `paginate`, `addNode`, `addEdge` | about fifty services | first writer wins; goroutines that leave without an error |
| `azure` | results and errors by index, a semaphore | `runSubCollectors`, deduplication | ARM | goroutines queued on the semaphore past a cancellation |
| `k8s` | a serial walk over kinds, derived edges | `enumerateTyped`, derivations, linkage | the API server | truncated lists and absent kinds |
| log collectors: `loki`, `cloudwatch`, `stackdriver`, `k8s-logs` | a cursor or a window, an entry budget; then a pipeline of clusters, templates, chunks | walk, retry, drain, consolidate, chunk, emit | the log store | windows without a cursor, budgets, what was left behind |
| `common/cdpattach` | one WebSocket, pending calls, subscriptions, tabs | `Attach`, `Call`, the reader, `OpenTab`, `WaitFor`, `Release`, `Detach`, `Close` | Chrome | replies routed to abandoned calls, one lock for many writers, events racing subscriptions |
| `common/correlation` | none | scoring of template pairs | the log collectors | nothing concurrent |
| `slack`, `hubspot`, `notion` | paging positions, pacing, retry budgets | API clients and walkers | the provider | retry deadlines, windowed searches at a cap |
| `framework-python`, `-rust`, `-typescript` | a line queue or a server | ports of the framework | the client | protocol speakers over stdio |
| `install.sh`, `uninstall.sh` | files, a registration | download, stage, place, register | GitHub, the `knowledge` client | crashes between steps, two installers at once |

What makes each correct: a walk asserts complete only over a source it read
whole; it carries everything it read to its end even when something else
failed; it returns, cancelled or not; an answer reaches exactly the caller who
asked; a stop signal ends what was started; a bound reports truncation exactly
when it cut something off; a retry ends.

## Modules

| Module | What it models |
|---|---|
| `WalkContract` | The abstract promise of any walk: read parts one at a time, end once; complete only when every part was read and is carried. |
| `FanOut` | The worker pool of `gcp`, `github-actions`, `bitbucket-pipelines` and `gitlab-ci`; implements `WalkContract`. |
| `GitlabWalk` | `FanOut` over `gitlab-ci`'s shared project discovery. |
| `ServiceWalk` | The service walks of `aws` and `azure` behind a semaphore; implements `WalkContract`. |
| `ClusterWalk` | The serial walk of `k8s` beside them. |
| `BoundedRead` | The log walks of `cloudwatch` and `stackdriver` under `max_entries`. |
| `PodLogs` | The walk of `k8s-logs` beside them. |
| `LogPipe` | What the four log collectors make of the entries: the Drain clusters, the two consolidators, the template each entry ends in. |
| `LogCollect` | A read and the pipeline behind it. |
| `CdpConn` | The DevTools connection: concurrent `Call`s, the reader, the write lock, `Close`. |
| `CdpTab` | A collector's tab over one such connection: events, subscriptions, `OpenTab` to `Detach`. |
| `LokiWalk` | The backward walk over `query_range`, with retries. |
| `SearchWalk` | The walks of `hubspot`, `notion` and `slack` beside it: capped queries, windows, retries against a deadline. |
| `ServeHTTP` | The HTTP server, its shutdown, and the client that lands answers; its walks keep `WalkContract`. |
| `MC*` | One model-checking module per component; the `.cfg` files give the constants. |
| `*_proof` | The theorems about a component. |

In every module one variable stands for one field, local or goroutine of the
code and carries its name, and one action stands for what happens between two
points at which another goroutine, the peer or the context can interfere. The
operators under "Faults" are not part of a specification: each is an operation
with one plausible mistake, and put in its place it breaks one property. They
document what every property is sensitive to.

### FanOut

`provider` is chosen once: `gcp` and `github` refuse a walk with a failure and
no resource (`LearnedNothing`), `bitbucket` runs a repositories enumeration
first that may be marked incomplete (`phaseOne`). `Feed(w)` is the unbuffered
send pairing with an idle worker, `StopFeeding` the other arm of the feeder's
select, `FinishSub(w)` an enumeration returning into its slot with no error, a
marked error (denied, partial, rate-limited) or a failure, `CloseWork`,
`ExitWorker(w)` and `Fold` the join and the fold, `Return` the verdict. Whether
an enumeration found anything is one bit, the wording of reasons is left out.

### GitlabWalk

`lister` is the `sync.Once` of `projectLister`, `todo` the listings its
depth-first discovery has still to make, `projects`, `partial` and `listErr`
what it fills in. `AskLister(w)` is the first enumeration to ask running the
discovery, `DiscoverNext` one listing call (a page loop is one call: it returns
everything or fails), `SkipSubtree` a gap, `DiscoverEnd` the return of the
`Once`, `FinishEnumeration(w)` an enumeration that was handed the list and
`FoldDiscovery` the gaps read after the join. The worker that runs the discovery
holds the others at the `Once`, whatever happens to the context. The other three
collectors are walks of this module in which nothing is shared, so one run checks
all four. A group exactly `maxRecursionDepth` deep is marked incomplete even when
it has no subgroups: the code does not look.

### ServiceWalk and ClusterWalk

`Launch` and `EndLaunch` are the loop that starts a goroutine per service;
`Take`, `GiveUp` and `End` are the semaphore and the ways out of a goroutine;
`Call`, `CallFails` and `VisitPage` are `paginate` (aws: context before every page of
a list, a repeated token, `maxPages`) and `drain` (azure: context once). `CheckContext`
is the look at the context before a call: azure's before the first, aws' before any,
except that an aws service may begin with a call that is not a page of a list
(`BeginsUnchecked`; `walkOpenSearch` lists its domain names without a look). The select
on the semaphore may take a place under a context that is done, so `Take` does not ask.
`Join`, `Failures` and `Return` are the end of the walk. A listing of `MaxPages + 1`
pages is one that never ends; azure's `drain` has no bound of its own, so its
pagers are taken to end. In `ClusterWalk` a service is a kind, listed in turn:
`ListKind` is one list request, `NoteRest` is `noteContinue` and the bound of
`walkCustomResource`, `KindNotServed` is `listErr`, `Discover` the listing of the
custom resource definitions, `ClusterFails` every error that ends the walk.
`MaxPages` stands for `maxInstancesPerCRD / crdPageSize`: the apiserver is taken
to fill its pages. The sinks are not modelled: aws keeps the first node of an id
and the first edge of (from, to, type), whichever goroutine comes first.

### BoundedRead and PodLogs

`NextGroup` is `fetchAll`'s loop, `ReadPage` a round of `fetchGroup`,
`CloseAtBudget` what happens when the budget is spent, `ProbeCursor` and
`AskGroup` the two probes behind it; `PullEntry` and `Peek` are stackdriver's
`drainEntries` and `moreRemains`. A page's size goes through `int32`
(`Narrow`, over `HalfRange`). `PodLogs` adds `readAll`: one container a namespace,
the tail bound first and the byte bound on what it leaves, as the apiserver applies
them, `scanLog` line by line. The source is external and does not change during a
walk; a service's empty pages with a live token are finite (`MaxEmpty`).

The apiserver documents that it returns slightly more or slightly less than a byte
limit (`podlog.go:300-302`), so a stream ends anywhere within `ByteSlack` of
`limitBytes`, counted in whole lines. `boundEngaged` asks `bytesRead >= LimitBytes`,
which holds of a stream cut at the limit or past it. One cut short of it is taken for
the whole log: the walk asserts complete, and the lines behind the cut are deleted
downstream. A short cut can hide the tail bound too, because fewer lines than
`TailLines` came. The comment above `boundEngaged` says it "reports whether a bound the
operator set actually cut this read short"; of such a read it does not. What does hold
is `CompleteButForShortCuts`: it excepts exactly those streams, and of them it still
claims that what is carried has no gap. `CompleteIsWhole` speaks of `cloudwatch` and
`stackdriver`.

### LogPipe and LogCollect

`processEntries` of the four collectors. `AddMessage` is one entry through the Drain
engine (`WalkTree`, which takes `EnsureChild` node by node, `BestMatches` at the leaf,
and past `MaxClusters` over the whole tree); `ConsolidateGoStack` and `ConsolidatePython` are
the two passes, `ComposeAbsorbed` what becomes of an earlier pass's absorptions,
`ResolveEntries` the remap at the end. The engines are the same in the four
collectors. What differs is kept: `cloudwatch` folds templates of one id in every pass
(`dedupeMergedSurvivors`), `stackdriver` once at the end (`foldDuplicateTemplates`),
`loki` and `k8s-logs` never; the first three remap by who absorbed whom,
`k8s-logs` by the time it overlaps with (`OverlapTargets`).

A template's id is a hash of its pattern, so the pattern stands for it; where a hash
breaks a tie the model chooses. A text is what `Tokenize(PreProcess(message))` leaves,
and the detection expressions are reduced to what a text begins with, in the pattern
or in an example row, which is where the code looks. Severities, aliases and the
wording of merged patterns are left out. `MinGroup` and the windows stand for the
constants 3, 30 s and 5 s.

A read is over when the pipeline starts, and all it leaves behind is the entries.
`LogCollect` therefore has the behaviours of the read, and those of the pipeline
after a read with any of `Logs`, and not their product.

The properties of the result say what they except (`Regular`), because the code does
not have them there:

* An entry that `MaxClusters` forced into a cluster may widen it into the pattern of
  another: two templates with one id (`PatternsDistinct` and the others except it).
* A line of the log may read as the name the code gives a crash, `Go runtime crash
  (goroutine dump)`, or a traceback. Its template and the merged one then have one id.
  With such a line in `Logs` TLC finds an entry that does not land when the detection
  takes the line for a fragment itself, and none when it does not. The theorems hold
  for any detection, so they except such logs; no run has one.
* Two Go crashes too far apart for one group are two templates of one id. `loki` and
  `k8s-logs` emit both. If the Python pass then absorbs one of them, `loki` and
  `stackdriver` re-point the entries of the other too, although its template is
  still there: `absorbedBy` knows ids, not templates. `cloudwatch` folds first.
* In `k8s-logs` the later of the two hides the earlier one in the map of survivors,
  and a fragment of the earlier may then overlap no survivor. Its entries keep an id
  without a template. `process.go:58-62` says chunk assembly skips those; it skips only
  an empty id (`chunk.go:80`), so it makes a chunk of a template that is not emitted.
* `CountsAddUp` does not speak of `k8s-logs`: a fragment goes to the survivor it
  overlaps most, which need not be the one that took its count, although
  `process.go:46-47` calls it "the surviving template that replaced it".

### CdpTab

Commands, replies and events cross one ordered stream each way. `HandleCreate` to
`HandlePages` are Chrome's answers, `Replace`, `NewDocument`, `Settle`, `CloseTab`
and `LoadFrame` what pages and the user do; `ReadMessage` is the reader with
`publish`; the other actions are the collector between two points at which it
waits. Subscriptions hold one signal (`signals`), as the one-place channels of
`subscribe` do. The collector works on one tab at a time and opens its own as the
first operation only; the model ends at `Detach`. `CdpConn` has what this module
takes for granted: that a call gets its own reply or an error.

### CdpConn

An element of `Calls` is one invocation of `Call` and owns one id and one
channel. `Register` is the first critical section of `mu`; `LockWrite`,
`WriteHeader` and `WritePayload` are the two writes of a frame, each under `wmu`
(`lockedRW`); `ReceiveReply` and `GiveUp` are the arms of the select; `Forget`
is `forget`. The reader reads a reply and looks it up (`ReadReply`), hands it
over after the unlock (`HandReply`), answers control frames through the same
lock (`ReadControl`, `LockAnswer`, `WriteAnswer`), or fails and closes `done`.
Chrome answers in any order and more than once, may stop reading, and may go
away. That a frame is two writes is a fact about the WebSocket library the
repository pins (gobwas/ws v1.4.0, not part of the tree), so `Mangles` is
external.

### LokiWalk

An entry is an instant and a number that tells entries of one instant apart.
`Pages(hi)` is Loki, which is external: the newest `PageLimit` entries of the
window in any tie-breaking order; `honoursEnd = FALSE` is a server that ignores
the end bound. `PageArrives` is one round of `Walk` with `fetchPage` and
`normalizePage`; `Narrow` is the four ways a full page is treated;
`AttemptFails` and `BackoffEnds` are `get`, `attempt` and `sleepBackoff`.
`edges` is a history variable.

### SearchWalk

A walk of `SearchWalk` is loki's, unchanged, or one of four searches (`walk`): a CRM
search of `hubspot` with the associations of what it found, a data source of `notion`
with the blocks and comments of its entries, a message search and a channel of
`slack`, the channel with its threads and posters. `QueryAnswers` is one page of
`searchQuery`, `queryWindow`, `readSearch` or the history loop of `readChannel`
(`HubspotPage` to `SlackHistory`), `AfterQuery` what the walk decides when a query is
over (`HubspotWindow`, `NotionWindow`, `SlackWindow`), `EntriesAnswer` the call for
the next entries a query named, `Completeness` the verdict. `CallFails` is `fail`,
`RateLimited` and `WaitEnds` the clients' retry loop: `retryWait` and `wait` are the
same in the three clients up to the header they read, and modelled once
(`ClientRetries` is `MaxAttempts - 1`). `Stopped` is the look at the context before
every call.

An entry keeps its instant (`created_time`) and its number: `hubspot`'s ids are
ordered by both, `notion`'s entries by the instant alone, so that several share one.
Whether the filter caps admit an `hs_object_id` window is one bit (`admits`). What an
entry's own calls return is not looked into: an entry is kept once they were
answered, and its own pages, blocks, thread or association pages stand for one call.

The services are external (`Serves`): the records do not change during a walk; a page
holds at most `PageLimit` entries in the order asked for; `notion` answers no empty
page while entries remain; a live cursor has something behind it (whether a service
may answer an empty page with a live cursor forever is not known from the code; the
loops have no bound of their own); a service that stops early says so, by the total
(`hubspot`, `slack`'s search) or a signal (`notion`'s `request_status`, `slack`'s
`is_limited`).

### ServeHTTP

A request connects, opens its session, is checked, walks, is encoded and lands
at the client; the stop signal wakes the shutdown goroutine (`stopper`), which
closes the listener, drains with a time limit and closes the sessions, while
`ServeHTTP` itself returns when the listener is closed and the program may then
exit. The client and the source are external: `graph` is what the client holds,
`Items` what the source holds. A complete answer replaces one by what it carries;
one that carries nothing only adds, because the client declines the deletion phase
for an answer that names nothing (`envelope.go:65-67`, `Deletes`). `Items` does not
change: that a collect which read the source before a change lands after one which
read it later is not in the model, and nothing in the repository orders the two. A
client that closes its session is not an action either: the session's reader outlives
it (`serve.go:100-105`), so nothing the model keeps would change.
A walk is assumed to keep `WalkContract` (`Honest`); what `encodeResult` refuses
is a completeness nobody built, an incomplete one without a reason and an
untyped node.

## Runs

| Run | Bounds | Shows |
|---|---|---|
| `fanout` | 3 enumerations, 2 workers, all 4 collectors, 4 groups with a chain of 3, depth 2, cancellation at every step | slots race-free, complete only when whole and over the whole tree of groups, one project list for all, `WalkContract` refined, terminates |
| `service_walks` | 3 services, 2 places, pages up to 2 or without end, aws, azure and k8s | complete only when every page of every service was visited and carried, services still queued at a cancellation included; `WalkContract` refined, terminates |
| `bounded_reads` | 2 groups of up to 3 events, pages of 2, bounds 0, 1, 2, 3, 5, byte limits 0 and 2, cut up to one line early or late, one empty page, an `int32` of 3 bits; the pipeline: 5 entries (8 in the crowded logs), depth 2, 3 children, 5 clusters, crashes of 2 fragments | complete carries everything wanted (`k8s-logs`: but for streams cut short of the byte limit), truncated only where the bound cut, terminates; clusters keep distinct patterns, every entry ends in a template that covers and counts it |
| `cdp_tab` | 3 operations, 2 document changes | no event missed, no subscription left, `Release` returns nil only for a tab that is gone |
| `cdp_tab_detach` | 1 operation, 1 document change | **violated:** `Detach` returns nil over a tab it opened and lost |
| `cdp_conn` | 2 calls, 1 `Close` | own replies, no leaked registration, reader never blocked, calls and `Close` return |
| `cdp_returns` | same | **violated:** a done context does not end a call that is still writing |
| `cdp_frames` | same | **violated:** frames of two writers interleave |
| `loki_walk` | 3 instants, 3 entries an instant, pages of 2, 2 retries; the searches: up to 5 entries, a cap of 3, batches of 2, waits of 1 and 2 against 2 | a complete walk missed nothing (of loki's: nothing but page-edge entries); terminates |
| `loki_whole_window` | same, loki only | **violated:** a complete walk can miss page-edge entries |
| `serve_http` | 2 requests, 2 live items and 1 stale | nothing live is deleted; requests and sessions end |
| `serve_http_grace` | same | **violated:** `ServeHTTP` returns before the drain ends |

Why the bounds are enough. Two workers and three enumerations give a busy
worker, an idle one and work still to hand out at the same time, and more
indices than workers. Two calls give a reply crossing an abandoned call, a
writer behind a blocked writer and an interleaved frame. Pages of two over
three entries an instant give a page inside one instant, a page across two and
an instant larger than a page. A cap of three under five entries needs a second
window; three entries of one instant fill a window that cannot move, two let it move
inside a page. A deadline of two admits two short waits or a long one, so that a call
runs out of attempts in one case and of time in the other. Three services over two places leave one waiting
while two work; two pages are a page with a successor, a last page and the bound.
Bounds of 1, 2, 3 and 5 fall inside a page, on its end, between two groups and past
an `int32` of three bits. A byte limit of two with a slack of one, over three lines,
gives a stream cut early, at the limit, late, and one that fits. A branch of three children under four first tokens collapses the fourth onto the
wildcard, and five clusters under eight entries fill up, with a last entry that fits a
cluster elsewhere in the tree or none. Five crash lines in every order make one group,
two groups, a group too small, and a merged crash that the Python pass takes; the
bursts put them within both windows, one or neither.
Three operations are an `OpenTab`, a wait and a `Release`;
two document changes replace a document during an evaluation and again before the
next. Two requests give a complete and an incomplete
collect in either order, with a stop between any two steps. What TLC checks on
these instances is, for most of the safety properties, proved below for every value of the constants.

### Findings

* `framework/serve.go:37-39` says the grace period bounds how long `ServeHTTP`
  waits for requests in flight. `ListenAndServe` returns as soon as `Shutdown`
  closed the listener, so `ServeHTTP` does not wait at all.
* `loki/internal/lokiapi/page.go:44` says `Complete` is false when the walk
  could not enumerate the window. A full page across two instants narrows past
  its oldest instant and the walk can still be complete.
* `common/cdpattach/cdpattach.go:13` says a call returns as soon as its context
  is done. The write comes first, without a deadline and under a shared lock.
* `common/cdpattach/cdpattach.go:92-93` says a control frame never interleaves
  with a command. The lock covers one write and a frame is two.

* `common/cdpattach/cdpattach.go:302-305` says `Detach` checks that every tab this
  connection opened is closed. `tab.go:39` records a tab once Chrome has answered: a
  creation abandoned by its context before that opens a tab nobody recorded, and
  `Detach` returns nil.

## Fairness

* `FanOut`: runnable goroutines run, and an enumeration's `Run` returns, because
  every request carries a context or a client timeout. Cancellation is never
  owed.
* `GitlabWalk`: the same, and a listing of the discovery returns.
* `ServiceWalk`, `ClusterWalk`: runnable goroutines run and a call returns, because
  the SDKs bound their attempts. A goroutine that waits for the semaphore takes a
  place that stays free: weak fairness, no order among the waiting.
* `BoundedRead`, `PodLogs`: a request is answered or, under a done context, fails.
* `CdpTab`: the collector's and the reader's goroutines run; Chrome handles its
  commands in order, closes what it was asked to close, gives a new document its
  script context, and a document that stays comes to satisfy the predicate. Nobody
  owes a cancellation, a navigation or an operation.
* `CdpConn`: runnable goroutines run; a `sync.Mutex` does not starve a waiter
  (strong fairness of `LockWrite`, `LockAnswer`); a write into a socket that is
  gone ends, and so does reading one once the buffer is empty (strong fairness
  of `ReadFails`). Chrome owes nothing: neither an answer nor that it reads.
* `LokiWalk`: an attempt has a client timeout and a backoff a timer.
* `SearchWalk`: the same, and the walk, one goroutine, goes on when they end. How often
  a call may be tried again comes from its budget, not from fairness.
* `ServeHTTP`: goroutines run and a walk ends; nobody owes a request, a stop
  signal or the end of the process.

## Proofs

All theorems are checked by TLAPS for every value of the constants, under the
assumptions the modules name: counts and limits are natural numbers, not zero where
the code has a default or a constant (`NAssumption`, `ConcurrencyAssumption`,
`DefaultAssumption`, `PlanAssumption`, `DepthAssumption`, `MaxPagesAssumption`,
`WindowAssumption`, `PageLimitAssumption`, `PerInstantAssumption`,
`RetriesAssumption`, `CapAssumption`, `BatchAssumption`, `MaxHeldAssumption`,
`WaitsAssumption`, `DeadlineAssumption`, `GroupsAssumption`, `EventsAssumption`, `BoundsAssumption`,
`EmptyAssumption`, `ByteLimitsAssumption`, `ByteSlackAssumption`, `DrainAssumption`), a page limit fits the request's field
(`LimitAssumption`), the collectors are those of the module (`ProvidersAssumption`,
`ReadersAssumption`, `WalksAssumption`, `PipesAssumption`), an entry is a sequence of
strings and a time that is not zero (`LogsAssumption`), a group's subgroups are groups (`GroupAssumption`), stale rows
are not items of the source (`StaleAssumption`), no call is `None`
(`NoneAssumption`).

* `FanOut_proof`. `IInv` joins `TypeOK` with `Handed` (which slots are empty,
  which index each worker holds, and that an index below `next` is either held
  or finished), `PhaseInv` (what each phase implies about feeding and joining)
  and `FoldInv` (the folded sets are those the slots determine).
  `CompleteIsWhole` is not inductive: that no enumeration was skipped follows
  from `next > N` when the feeder was not cancelled, which only `Handed` and
  `PhaseInv` together give. From `IInv`: `TypeCorrect`, `SlotsRaceFree`,
  `CompleteMeansWhole`, and `WalkKeepsContract`, where each step maps to a step
  of `WalkContract` or to a stutter.
* `CdpConn_proof`. `OwnReply` needs that an id names one call (`IdsUnique`), that
  what is on the wire and in `pending` agrees with it (`WireInv`, `PendingInv`),
  that what the reader hands over is for the call it hands it to (`ReaderInv`)
  and that a channel holds only its own reply (`ChanInv`).
* `LokiWalk_proof`. `AheadOrAtEdge`: as long as the walk runs, an entry that
  passes and was not kept is still below the end bound, or lies at an edge.
  For the searches: `NothingDropped` (what a window does not select and what was
  delivered is kept, due, or has left a reason), `Sorted` (what was delivered comes
  before what was not), `CutIsTold` (a query that ended short has a total or a signal
  that says so); with the lemma `TotalRead` on totals they give
  `SearchesReadEverything`, for windows that start after an id and for windows that start at a shared instant.
* `FanOut_proof`, of `GitlabWalk`. A step of `WalkNext` is a step of `FanOut`'s `Next`
  or a stutter, so `IInv` and the contract carry over (`WalkIsFanOut`,
  `GitlabKeepsContract`). `DInv` is about the discovery: as long as nothing was
  left out, whatever is below a listed group is listed or in `todo` (`Frontier`);
  who came back with findings was handed the finished list (`HandedInv`); and a gap
  is in the fold when the verdict is made (`ReportInv`). `CompleteReadsWholeTree` and
  `EnumerationsGetOneList` follow, for any graph of groups and any depth limit.
* `ClusterWalk_proof`. `PlacesCounted` ties `held` to the goroutines that work,
  `EndedWhole` gives every ended service all its pages or a reason, `KindsInv` does
  so for the kinds of k8s. That `held` stays within the semaphore (`TypeCorrect`) is
  exactly that every way out of a goroutine gives back one place. `CompleteIsEarned`
  needs that a loop cut short left a done context behind (`PhaseInv`), which aws
  counts as a failure. `WalksKeepContract` is the refinement.
* `BoundedRead_proof`. `NothingSkipped`: every wanted event is
  carried, or lies ahead of the cursor, or the walk is asking for it. With it
  `TypeCorrect` (no limit leaves a page's range, also under an `int32` the bound
  does not fit) and `CompleteCarriesAll`. For `k8s-logs`, `PodsCompleteCarriesAll`: as
  long as no container gave a reason, each one behind the walk is told, whole or as a
  stream cut short (`NoReasonNoLoss`), because a stream that ended without a bound
  engaged is one or the other (`WholeStream`) and nothing of a container is carried
  before its stream ended (`NothingAhead`). For `TruncatedWasCut` the converse: a walk
  that says it was cut must have left something that matched. `CutInv` says how a page
  is counted: the events a page took are the first of their group, as many as its
  limit (`FirstCounts`, by the rank of each); what lies behind the cursor was read
  (`OnlyBehind`); and the budget a page was asked with is what the bound leaves
  (`BudgetKept`), so a spent budget and an answered probe name an event outside.
* `CdpTab_proof`. `SubscriptionsEnd` needs `SubsInv`: which subscriptions the collector
  holds is determined by where it is, so that every way out of `OpenTab` and `WaitFor`
  gives back what that way took. `ReleasedTabsAreGone` needs `GoneInv`: before the first
  operation there is no tab of its own and no word of one (`Fresh`), its creation is the
  first of the commands that wait (`CreateFirst`), and a word that it is destroyed,
  wherever it has come to, is true and stays true (`GoneForGood`).
* `LogPipe_proof`. `ClustersStayApart`. Two patterns can only become equal when a
  widening meets a pattern, so the invariant keeps what a cluster was made of:
  `Filed` says each cluster is under the node its own pattern walks to, in a tree that
  only grows (`WalkFacts`, `FiledStays`: a branch taken once is taken again, whatever the
  cap did since); a pattern widened into another's would then have been at that one's
  node (`SameNode`) and, being wider, would have agreed with the message in more
  positions (`MergeAgrees`, `Widened`): the best match is the other
  cluster (`JoinKeeps`). A new cluster matched nothing at its node, its twin would have
  (`CreateKeeps`). What `walkTree`'s recursion gives at every depth is proved by an
  induction in the form of a set, `Reached`: a set of positions that holds the first and
  with each its successor holds all, because an interval is finite.
  `EntriesAlwaysLand` and `CountsAlwaysAddUp` follow one function `f`, from the clusters
  to the templates there are by now, through the whole pipeline (`Traced`): template `k`
  counts the entries of the clusters `f` takes to it and spans their times (`Keeps`);
  `absorbedBy` has `<<pattern, id>>` exactly when `f` takes the pattern's cluster to
  another id (`Follows`); and a pattern that is still an id is its own cluster's
  (`Owns`). A pass is, whatever its order, a partition of the templates of which each
  class leaves one (`PassIs`, `ClassesGo`), and takes `f` along (`Coalesced`,
  `PassTraces`, with `Composed` for the composition of what two passes absorbed); the
  folding of equal ids is another (`FoldFacts`). What each stage relies on is
  `GoStackReady`, `PythonReady` and `ResolveReady`; `PipeInv` joins them with what Drain
  gathered (`Gathered`). At the end an entry whose id is gone finds exactly one absorber
  (`AbsorberIs`), or for `k8s-logs` a survivor that overlaps its cluster fully, because
  the best overlap is at least that of the template `f` names (`OverlapCovers`), and the
  counts of an id's templates are the entries that end in it (`CountsTogether`,
  `Adding`). Nothing is assumed of the windows, `MinGroup` or the detection sets.
* `ServeHTTP_proof`. `AnswersOfWalks`: what is landed as complete is the answer of a
  named request's own complete walk; a walk keeps its contract (`WalksHonest`). Then
  `LiveItemsStay` and `DeletionsAreEarned`, for any number of overlapping requests.

Only model-checked: the liveness properties, which are out of the prover's reach
(`Terminates` of each walk, `CollectsEnd`, `StopEndsSessions`, `CallsReturn`,
`CloseEnds`, `WaitEnds`, `ReleaseEnds`). Every safety and action property and every
refinement that a passing run checks is also a theorem.

## Not modelled

* Declarations, JSON schemas and describe output (static documents); the wording of
  reasons and errors; credentials, TLS and transport settings; the test kit.
* Of the log pipelines: preprocessing and the detection expressions, severities and
  aliases, streams and label cardinality, chunks and their windows (`WindowStart` divides
  towards zero, so the two windows around the epoch share a start), proxies, emission.
  Correlation scores and Kubernetes derivations. All are sequential transformations of
  data whose correctness is that of an algorithm on text, labels or selectors.
* The enumerations of a service (most of the code: one file per resource type in `aws`,
  `azure`, `gcp`): they map fields of the provider's answers to nodes, and a model of
  them would repeat them.
* The sinks' rule for duplicates in `aws` and `azure`, and the passes over what was
  recorded.
* How a `gcp` enumeration becomes an outcome: `iterate.go` folds its scopes' refusals
  into a partial read, and a hard failure is meant to win over it. `FanOut` has the
  three outcomes, not the fold.
* Of `hubspot`: lists and named records, and the pacing of requests; of `notion`: title
  search and the descent into child pages; of `slack`: searches that overlap channels.
* `ServeStdio` (one session, no shutdown), `Attach`'s handshake, and the single-call
  operations of a tab (`Fetch`, `AddInitScript`, a bare `Eval`).
* The ports of the framework in Python, Rust and TypeScript.
* The installer.

## Plan

Done: the walks of every collector that asserts completeness by paging or by a
fan-out, the pipeline of the log collectors, the tab, and a proof of every safety
property among them. In this order next:

1. What is left of `hubspot`, `notion` and `slack` (lists, pacing, descendants), and
   the retry client of `bitbucket`.
2. `Installer`: staging, placing, the sidecar and the two registrations, with crashes
   and a concurrent installer.
3. The fold of `gcp`'s scopes below `FanOut`'s outcome.
4. Pure operators over bounded inputs: the chunk windows and what a chunk encodes.
5. The stdio speakers of the ports.
