# A TLA+ development for 15min-LivingCircle

This directory holds TLA+ modules that model the stateful core of the program,
the TLC configurations that check them, and theorems about them proved with the
TLA+ proof system. Paths below are relative to the repository; `app/` stands for
`backend/app/`.

## 1. The system and its parts

A FastAPI process (`app/main.py`) computes walking-time isochrones and service
coverage for a chosen centre. Analyses are submitted over HTTP, run in the
background and polled by the browser; a language-model agent answers questions
about a finished analysis; a browser editor changes the road network that
analyses use. The numerical work is done by a C++ engine, reached as a
subprocess or over RPC.

| Part | State it keeps | Operations | What makes it correct |
|---|---|---|---|
| Analysis scheduler, `app/analysis_scheduler.py` | reservations, a queue, consumer tasks, a sweeper task, `accepting` | reserve, submit, release, expire, run, drain, close | places are bounded and returned, jobs run at most once and never after their wait limit, drain and close are complete |
| Terminal history, `app/analysis_history.py` | terminal records by age | remember, prune, clear | live records are never dropped, dropped ones never return, contexts go with records |
| Submission, `app/main.py` 559-640 | the API stores, preparation threads | four POST handlers | one place per request whatever happens to it |
| Stage machine of an analysis, `app/main.py` 297-475 | status, stages, revision, result | publish geometry, POI stage, coverage | what a poll shows is monotone and complete |
| Route contexts, `app/poi_routes.py` | contexts by insertion | remember, forget, plan | bounded, tied to their record |
| Engine runtime, `app/engine.py` | permits and their waiters, health probe and cache | run, check, drain, close | permits neither leak nor multiply, one probe at a time, close leaves nothing |
| Application shutdown, `app/shutdown.py` | a deadline | drain both, close both, clear | graceful where it can be, bounded where it cannot |
| Agent runtime, `app/agent_*.py` | conversations and active turns | chat, tools, close | one turn per conversation, bounded number of turns, no answer about a stale analysis |
| POI and Baidu cache, `app/poi_cache.py`, `app/baidu/` | SQLite rows: entries, leases, failures, slots | get_or_fetch, pacing | one fetch at a time per key, fresh or declared stale |
| SQL region store, `app/mysql_regions.py`, `app/region_storage.py` | immutable versions, a published pointer, a process snapshot | import, publish, load | a reader never sees half a version |
| Network editor and region packages, `app/network_editor.py`, `app/region_*.py` | source annotations, network, manifest on disk | preview, save, context | optimistic revisions, all files or none |
| Reviews and manual edits, `app/refinement_*.py`, `app/manual_graph_edits.py` | reviews in the graph, a patch in the annotations | ask, plan, decide, replay | a review holds only for what was reviewed, a patch only for its base |
| Sampled analysis, `app/sampled_*.py`, `app/contour.py`, `app/blind_zone_coverage.py` | one semaphore | grid, contour, places, zones, boundary | contours bound what is inside, zones lack what they say |
| Place search, `app/poi_search.py`, `app/pois.py` | a queue of queries, workers | plan, read pages, merge, report | complete means complete |
| Network construction, coverage reports | none (functions of their inputs) | geometry | numerical |
| RPC compute service, `cpp-engine/rpc/` | an atomic count, draining flag | admit, compute, drain | never above capacity, permits returned |
| Engine algorithms, `cpp-engine/src/` | none | shortest paths, reachability, rings | agree with their definitions |
| Browser clients, `frontend/src/*Client.js` | a revision | submit, poll | no publication is missed |
| Browser editor, `frontend/src/NetworkEditor.vue`, `networkEditor*.js` | canvas, undo history, revision, draft | load, edit, undo, save, review, restore a draft | undo leads through states that were, a save never takes back what others saved |

How they interact: an HTTP handler *reserves* a place, prepares its input in a
thread and *submits*; a consumer takes the job, which *calls* the engine runtime
once or several times; the scheduler *calls back* the stores, the history and
the route contexts when a job ends; the shutdown coordinator *stops* scheduler
and runtime together. Agent, coverage and route endpoints *read* the records of
the stores. The cache, the region store and the editor's files are *shared with
other processes*.

What is hard: all Python state lives on one event loop, so atomicity is decided
by the position of each `await`; tasks are cancelled at every one of these;
threads of cancelled requests run on; timers race with completions; a shutdown
may begin at any moment; files and database rows are written one after the
other by processes that do not know of each other. `PROJECT.json` lists each hazard at its line.

## 2. Modules

| Module | Code | Role |
|---|---|---|
| `AnalysisService` | the promise of `_submit_analysis` to its callers | abstract specification |
| `AnalysisScheduler` | `analysis_scheduler.py`, `analysis_history.py`, the submit protocol of `main.py` | detailed specification, refines `AnalysisService` |
| `EngineRuntime` | the class of that name in `engine.py` | permits, health probe, drain, close |
| `EngineProcess` | `SubprocessTransport`, `engine_cleanup.py` | one engine process per call |
| `EngineRpc` | `engine_rpc.py`, `fixed_graph.py`, `cpp-engine/rpc` | the RPC transport and its service |
| `EngineLayers`, `EngineLayers_proofs` | `get_engine_runtime` | the three above in one specification; theorems about all |
| `ServiceShutdown`, `ServiceShutdown_proofs` | `shutdown.py`, `lifespan` | composition of the scheduler and the runtime; theorems about both |
| `AgentTurns` | `agent_runtime.py`, `agent_api.py` | turns of the assistant |
| `AgentTools` | `agent_tools.py`, the end of `_tool_loop` | what one conversation finds out and says |
| `Assistant`, `Assistant_proofs` | | the two above in one specification; theorems about both |
| `AnalysisRun` | `_run_analysis`, `get_analysis`, `_service_coverage` of `main.py`, `cppAnalysisClient.js` | one analysis and its readers |
| `SampledShapes` | `contour.py`, `sampled_geometry.py`, `blind_zone_coverage.py` | algorithms as operators |
| `SampledAnalysis` | `_run_sampled_task`, `sampled_service.py`, `route_sampling.py`, `representative_routes.py` | sampled analyses and their stages |
| `SampledIsoline` | the ring drawn by `extract_isoline` | what the drawn isochrone promises, for TLC |
| `AnalysisModes`, `AnalysisModes_proofs` | the POST handlers of `main.py` | both kinds of analysis in one specification; theorems about both |
| `PoiFetch` | `poi_cache.py`, `cache.py`, `baidu/client.py` | one answer of the provider, several processes |
| `PoiSearch` | `poi_search.py`, `pois.py`, `region_pois.py` | a paged search and what is reported of it |
| `PoiServices`, `PoiServices_proofs` | | the two above in one specification, theorems |
| `NetworkEditor`, `NetworkEditor_proofs` | `network_editor.py`, `region_package.py`, scripts | a region package on disk, theorems |
| `EditorCanvas` | `NetworkEditor.vue`, `networkEditorHistory.js` | one window's canvas next to other writers |
| `Refinement` | `refinement_inputs.py`, `refinement_impact.py`, `manual_graph_edits.py` | reviews and edits inside one graph |
| `RegionStore` | `mysql_regions.py`, `region_storage.py` | packages in the database and their lifetimes |
| `RegionLife`, `RegionLife_proofs` | | canvas, reviews and database in one specification, theorems |
| `Recursions`, `Recursions_proofs` | comprehensions and sums in the modules above | recursive functions along a sequence; lemmas on them and on induction |
| `MC...` | | symmetry sets, functions and definitions for TLC |

`EngineLayers`, `Assistant`, `AnalysisModes`, `PoiServices` and `RegionLife` put
neighbouring parts side by side: a behaviour is one of the parts and the others
rest. They let one run look at parts that a reader would look at together; they
claim nothing about the interaction, which each header describes. The parts that
do interact step by step are composed in `ServiceShutdown`.

### AnalysisScheduler

One step is a stretch of Python without an `await`. Two loops over the queue
(the sweeper's rotation and the final drain in `close()`) are taken one item per
step while `LoopFree` keeps everybody else waiting: they are atomic for the
others, but what they do in between can be spoken of (`JoinHonest`).

* A request and its job share one identity, a member of `Jobs`. `caller` is
  where its HTTP handler stands, `reservation` what it holds in `_reservations`.
  A handler cancelled while its preparation thread runs becomes `abandoned`:
  the thread cannot be stopped and the place is given back only when it ends.
* `queue`, `unfinished` and `join` are the `asyncio.Queue` with its count for
  `task_done`/`join`. `waited` and `recordAge` are ages, capped at the limit the
  code compares them with; an age beyond its limit is not distinguished from
  one at it, so no bound on the clock is needed.
* `worker`, `workerJob`, `cancelled` are the consumer tasks and the
  cancellations not yet delivered to them. `Return`, `Raise`, `CancelRun` and
  `AbsorbCancel` are the ways `job.run()` may end; `Settle` is a business
  function that has recorded its outcome and still awaits cleanup, as
  `_run_sampled_task` does when it closes its HTTP client. A cleanup that absorbs the
  cancellation ends the job as failed if it raises, with the recorded outcome if it
  returns.
* `store`, `history`, `contexts` are the API stores, `AnalysisHistory` and the
  route contexts. They change in the actions that call `remember` and `prune`.
* `AbsorbingJobs` are the jobs whose cleanup can raise an ordinary exception
  while they are cancelled.

Business functions are abstracted to their outcomes; what they compute is not
part of this module. `asyncio.Queue.task_done` is modelled from how it is used.

### EngineRuntime

`permits`, `line` and `call` are the `asyncio.Semaphore` of Python 3.12 with its
queue of waiters and the invocations of `run_engine`: a release counts up and
hands the value to the first waiter, which owns it from then on although it has
not been resumed (`granted`). A waiter may be cancelled, or time out, at any of
those points (`CancelCall`, `CancelledLeaves`). `Admitted` are calls made inside
`engine_wait_scope`, that is by jobs the scheduler has accepted: they wait for a
permit and are served during a drain; all others are refused when no permit is
free or when the runtime is not open.

Each invocation of `check_engine` is a `Checker`. A probe is named by the
checker that started it; `current` is `_health_probe`, `retirement` the task that
cancels and clears it, `joined` which probe each checker waits for. The end of a
probe task and the callback that clears it are one step.

### EngineProcess

One invocation of `_run_engine` or `_check_engine` with the tasks it makes:
`startup` is `create_subprocess_exec`, `communication` the `communicate()` task,
`cleanup` the task given to `finish_cleanup`. The child forks before asyncio
hands its `Process` over, dies as a zombie and is reaped by the child watcher;
it may answer, reject, exit with another code or write garbage. A cancellation
hits the start, the exchange or the cleanup itself, `MaxCancels` times.

### EngineRpc

`artifact` and `companion` are the two files an operator exports, one after the
other, and discards; a write may be cut (`Torn`). A graph stands for the bytes of
its artifact and is its own digest. The service, a process of its own, loads the
artifact when it starts; `handler` is `RunComputeCall` with its admission, the
lock-free gate (`seen` is the count the compare-exchange expects), the second
look behind the gate, and the computation. A client that has given up leaves its
handler running. The application prepares network and defaults from the two
files, checks the service once, and compares the graph of every answer with the
identity it was given.

### ServiceShutdown

EXTENDS the scheduler and instantiates the runtime with `Jobs` as its admitted
calls. The call of a running job is made by the consumer that runs it, so a job
goes on only when its call is over, and the cancellation of a consumer reaches
the call first. Added state: whether the drain's `runtime.wait_idle()` has
returned (`idleSeen`; an `Event`'s waiter stays released) and the deadline.

### AgentTurns

A member of `Requests` is one invocation of `chat()` together with the turn task
it creates; a conversation is named by the request that opened it. `turn` says at
which `await` the task stands: `asking` the model, `routing` a facility, or done
(`replied`, `raised`) while `chat()` has not resumed. `sessions` is the ordered
dictionary of conversations, `bound` and `busy` are fields of a conversation,
`spoken` those with a history, `idle` those past the ten minutes. `active` is
`AgentRuntime.active`.

A context names one published revision of one analysis; `analysis` says whether
`_resolve_agent_context` still finds it. An analysis that is gone does not come
back. `cut` holds the tasks with an undelivered cancellation, whoever sent it:
the client that left (`Disconnect`), the timeout, or `close()`. A route lookup
whose cleanup fails turns its cancellation into a tool result (`CutAbsorbed`);
`_route_agent_poi` catches the very exceptions that SQLite and the HTTP client
raise there. Two things are allowed more often than the code does them: a turn
may time out again, and its client may leave again, after an absorbed
cancellation. The tools of a turn are reduced to how many calls are executed
before the next route lookup.

### AgentTools

The model outside calls any tool with any argument. `tools` is one
`AnalysisTools`: routes and failures by facility, references oldest first, the
map action (`shown`), the comparison. A route lookup is one `await` with the
outcomes of `PoiRouteStore.route`, or of `route_sampled_poi` for a sampled
analysis. `find_nearest_medical_facility` tries candidates by distance until its
candidates or its calls are used up. `hand` is what `Conversation.references`
carries to the next turn. `wanted` is a history variable.

### AnalysisRun

`stage` is the `await` at which `_run_analysis` stands. Reports are Python objects
with identity: `result` is the object the record refers to, `content` what each
object holds. This matters because `add_poi_result` changes the published report
in place when the POI stage fails, while a request for coverage or the route
context may hold it. `published` is a history variable: what each revision was
when its number was assigned. `wants` is the request's wish for a POI stage.

`client` is the browser: it sends the last revision it has, shows an answer if it
carries a report of another revision, and ends with the first final status. The
record may be dropped while it polls. `coverage`, `gate` and `cached` are the
coverage requests, `_coverage_gate` and the cache; requests enter the gate in any
order, and the limit of 16 entries is an eviction at any time.

### SampledShapes and SampledAnalysis

`SampledShapes` holds the algorithms as operators on small inputs: a grid node is
below, at or above the threshold; `CellSegments` is the table of sixteen cases with
its saddles, `Follow`, a recursive function, and `Rings` link segments to closed
rings; `InRing` is the ray casting of `_point_in_ring` in doubled coordinates;
`Partition` splits an area by the services it lacks, one after the other.
`SampledAnalysis` is `_run_sampled_task`: one analysis at a time holds the semaphore
and goes through its stages; every stage takes an arbitrary input from its small set
(a grid, the outcomes of routes, the places of a street) and leaves input and result
in `work` until the next. `Leaves` is the exit from the block of the semaphore, with
an outcome or an error on its way; the HTTP client is closed afterwards, by an `await`
of its own, which may fail or be cancelled (`CloseFails`): then the scheduler writes
`failed` over the outcome, and a report stays in the record.

### PoiFetch

A caller is one `_get_json`. The processes share `age` (the stored answers), `lease`,
`cooling` (the provider's rest after a refusal), `slot` (the next request slot) and
SQLite's write lock. `Ask`, `TakeLease`, `Poll`, `Decide`, `BeginSlot`, `BookSlot`,
`Response`, `Retry` and `Release` are the transactions of `get_or_fetch` and
`wait_for_request_slot` and the request between them; a caller may be cancelled and a
process may die between any two. A statement that the database refuses ends the fetch
(`Cancel` for the taking of a lease, `SlotFails` for a slot) or leaves the lease to
run out (`Release`). What a call returns in the end (a fresh answer, an old one in
place of an error, or the error) is not told apart. Clients without a key are as good
as refused from the beginning. Times are units since, or until, a moment, counted no
further than they matter.

### PoiSearch

The provider has a listing for each query and hands it out in pages; `told` says
whether it gives totals. Workers take a query from the deque, read its next
missing page, merge it and put the query back; the deadline, the request limit, a
refusal or a cancelled caller ends the search; what they had sent may still
arrive, or turn into an ordinary failure. `Status`, `Reports`, `Bundled` and
`Surveyed` are the four readers of the result.

### NetworkEditor

`files` and `manifest` are a package on disk, a content a number, a hash its content.
`lock` is the process-wide lock. A window's request goes through the checks before the
lock (the engine, the map service), the before-images, the second look at the
revision, one file after the other, and the rollback. It may give up before the first
file is touched (`GivesUp`). A window that is refused keeps its revision and what it
has drawn until it loads again. `tool` is a script of the command line that writes
without the lock, `importer` an import that reads without it. `Crash` ends the process
between any two files. `raced` and `wounds` are history variables: which scripts ran
while the editor held before-images, and how often a write was cut short or its
rollback failed.

### EditorCanvas

One window with its graph, one node and an edge that ends in it: enough for an
edit to replace a record, to take another along, and for undo to bring both
back. Records are immutable and carry who made them and when. `entries`, `cursor`
are the history of patches; `trail`, a history variable, the graphs they lead
between. A load shows graph and revision before it fetches the outline and clears
the history (`torn` in between). A save or a review is one request whose answer
may be lost after the service has acted. `Patient` restricts the user, not the
code: he waits for a load to end, loads again when it failed half way, and uses no
key during a drag. Without it the property `StaleRefused` fails, see below. Left out
are a second load while one is under way (the reload button allows it, and it only
repeats what one load does to the history), drafts that another window of the browser
has written to the same `localStorage`, and the limit of the history's bytes.

### Refinement

The region is one arm of a generated junction with two ports, the crossing of a
review between them, one drawn by hand, and one elsewhere. `Asked`, `Holds`,
`Applied` are the questions, when an earlier review still answers one, and what a
decision does; `Distances` and `Evaluated` are the plan with its scenarios;
`PatchTo`, `Fits`, `Replayed` are the manual edits. The user decides, redraws,
saves and reloads while the road source changes and the network is exported anew.

### RegionStore

`tx` is one transaction of an import or a publication, statement by statement,
with the row lock of its region; `stored`, `files`, `current` are committed.
`thread` is `initialize_region_storage` in its worker thread: it lists the
published versions, loads one after the other and publishes the set; the start
may be cancelled meanwhile. `moments` is a history variable: every committed set
of pointers.

## 3. Runs

| Run | Instance | States | Shows |
|---|---|---|---|
| `scheduler_safety` | 3 jobs, 2 workers, 2 places, limits of 2 ticks | 154 thousand | places, records, queue order, refinement of `AnalysisService` |
| `scheduler_absorbed` | 2 jobs, 1 worker, a failing cleanup | | a begun close need not end: see below |
| `engine_safety` | 3 admitted calls, 1 direct, 2 permits, 3 checkers; 2 RPC calls, gate of 1, 2 graphs | 916 thousand | permits, probe, gate, answers of the prepared graph |
| `engine_live` | 2 admitted calls, 1 permit, 2 checkers; 1 process cancelled twice | 27 thousand | waiters served, checks answered, close ends, children reaped |
| `shutdown` | 2 jobs, 1 worker, 1 place, 1 direct call, 1 checker, 1 permit | 88 thousand | both owners together; a begun shutdown ends; places come back |
| `agent_turns` | 3 requests, 2 slots, 2 conversations; 3 facilities, 2 turns of 2 tool calls | 338 thousand | turns exclusive and current, slots return, replies grounded |
| `analysis_readers` | 1 analysis, 1 browser, 3 coverage requests; 2 sampled analyses, 5x5 grids | 224 thousand | readers get revisions as published; shapes are right |
| `poi_services` | 3 callers, 2 processes; 2 queries, 2 workers, 2 pages, 2 requests | 2.0 million | fetches, pacing and searches |
| `editor_package` | 2 windows, 2 contents, 2 mishaps | 3.5 million | packages whole or repairable, no lost save |
| `editor_unseen` | 1 window, 1 script | | the second look misses a bundle: see below |
| `regions` | 3 transactions, 2 regions, 2 versions; 2 changes, 2 loads; 3 decisions or edits | 889 thousand | database, canvas and reviews |
| `canvas_stale` | 1 edit, 1 other save, 2 loads | | a stale record is put back: see below |

Why the bounds are enough.

* Scheduler: three jobs with two places and two workers let one run, one wait and
  one prepare, let two expire in one rotation while a third survives, and let the
  history drop one record by age and one by capacity.
* Engine: two permits for three admitted calls leave one permit free while a
  served waiter has not resumed; three checkers are the fewest where one leaves,
  one joins and one waits for the retirement. Two RPC calls on a gate of one race
  for its place; graphs are interchangeable, so one stands for the first artifact.
* Shutdown: with two jobs and one consumer a job waits in the queue behind one that
  need never end, and only the sweeper can take it out again; the drain meets a queued
  job and a running one at once. `Cast` says which requests come: the second analysis
  after the first, and not in a run with a direct call and a health check, which are
  there for the order between the owners. It bounds the clients only; the numbers are
  the subject of the runs before it.
* Assistant: three requests on two slots and two conversations let one conversation
  be continued, or make room, during the turn of another. Two calls in each of two
  turns are the fewest where one answer outlives another and a card is handed on.
* Analyses: two revisions are all `_run_analysis` publishes; of three coverage
  requests one computes, one waits and one is served from the cache. The sampled
  grids are all of nine nodes inside a border beyond the threshold, at most two
  nodes exactly at it: every cell case and every pair of adjacent ones occurs. A
  street of five places with a radius of one has parts of every size up to five.
* Places: a lease of one unit runs out under its owner while a third caller comes;
  a budget of two and one retry are reached. Listings are empty, within the pages,
  and beyond the provider's limit; one query may have a faulty first page.
* Editor: two mishaps are a failed write whose rollback fails, a crash before and
  after a restart, or a fault and one script. The canvas has two changes, a history
  that holds both and two loads; the history's trimming is not reached by it. Of a
  graph's three steps one may be a decision, one a change of what it was about, one
  a second decision.
* Database: two imports of one package meet on its row and key while a third
  transaction publishes; two starts of the application show what one leaves to
  the next.

Jobs, calls, checkers, requests, windows, clients and versions are interchangeable,
hence the symmetry in the safety runs; no run with a liveness property uses it.

Properties worth knowing by name:

* `PlacesConsistent`: each place has one owner (handler, thread or queue), there are
  no more than the limit, and `submit()` never meets a full queue.
* `FirstComeFirstServed`: who waits in the queue is overtaken by nobody, although a
  rotation of the sweeper takes the queue apart between the consumers' turns.
* `JoinHonest`: the drain's `join()` returns only when nothing is queued or running,
  even while the sweeper holds survivors in its hands.
* `ImplementsService`: the scheduler refines `AnalysisService`.
* `PermitsConsistent`, `ProbeShared`: permits, waiters and owners add up at every
  await; one probe at a time, whoever joins gets a live one, one caller's
  cancellation does not stop the others'.
* `ProcessesOwned`: an invocation that returned has left neither a child nor a
  second reader of its pipes.
* `GateExact`, `AnswersPrepared`: the gate's count is the number of permits held;
  an answer was computed on the graph the request was prepared on.
* `GracefulCancelsNothing`: a drain that ends in time leaves nothing to cancel,
  although runtime and scheduler become idle independently of one another.
  `OnlyDeadlineInterrupts`: until the deadline no accepted analysis is cancelled,
  flushed, or refused by the engine.
* `PlaceReturned`: a place comes back even if no running job ever ends, `ShutdownReturns`:
  a begun shutdown ends.
* `AnswersCurrent`, `ReplyGrounded`: a reply is given only while its analysis is the
  current one, and claims only what tools have found.
* `LastRevisionShown`, `CoverageOfRevision`: readers get a revision as it was
  published, although a report can change in place.
* `IsolineExact`: who is within the time is inside the drawn line, who is beyond it
  and outside is not. `SampledSound`: a zone lacks what it says. `OneSamples`: one
  analysis samples at a time and gives its place back before its client closes; a
  report stands in a failed record only where that close failed.
* `SingleFlight`, `ProviderSpared`: of two fetches of one answer one has outstayed its
  lease; requests keep their distance across processes. `SearchSound`: "ready" and "complete" are true.
* `PackageSound`, `InterruptionsRepairable`, `NoLostSave`: a package that verifies is
  one package, and what was interrupted can be completed from the newest backup (to the
  right origin of its context as well, the first time).
* `EditsKept`: undo leads through graphs that were there, "no unsaved changes" is
  true, no save takes back what another window saved, and of the reviews in a graph
  exactly what was drawn is written, never onto another generated network.
* `RefinementSound`: a review holds only for the connection it was made of, a scenario
  is what its decision does, and a decision touches no other question.
* `NoDuplicateKey`, `ServesOneMoment`, `LifetimesClean`: imports agree on who creates
  a version; a lifetime serves what was published together and leaves nothing.

### Fairness

Strong fairness is asked of the steps of tasks that are ready to run: the event
loop runs every ready task, but a rotation of the queue may disable it for a
moment again and again. In `ServiceShutdown` one strong conjunct covers time, the
end of preparation threads and the taking of a job, which are always in competition
with the same loops. Engine calls and health probes end because both transports
bound them (a 25 s call timeout, a 3 s health timeout), the sweeper's timer fires,
and so does the deadline of the drain. Nobody is assumed to make a request, to
cancel one, or to begin a shutdown; a running job need not end until it is
cancelled. A turn of the assistant goes on because a model call and a route lookup
have timeouts of their own; its own timeout is not assumed. The steps of one
engine invocation are weakly fair: the timeout of the exchange is one of them, and
killing a child that was started cannot be refused. In `LayersSpec` and
`AssistantSpec` the part that rests has no enabled step and its fairness says
nothing. All other modules are checked for safety only.

### Where code and documents disagree

`scheduler_absorbed` finds a close that never ends. `_close()` cancels each
consumer once and gathers them. If the job's cleanup raises an ordinary
exception during the cancellation (the `DELETE` in the `finally` clause of
`PoiCache.get_or_fetch` is an SQLite statement that can fail), the exception
takes the place of `CancelledError`, `_run_job` handles it as a failed job, and
the consumer returns to `queue.get()`. `shutdown.py:35` promises to cancel "and
await real cleanup".

`editor_unseen`: the comment at `network_editor.py:218` says "Detect changes made by
another process while preparing the save"; the revision compared there covers
neither the places nor the manifest, which a bundle replaces.

`canvas_stale`: `docs/network-editor.md:103` says that a save refuses a stale
version. `load()` shows the new graph under its new revision while the undo history
is still the old one; an edit made by a key or a form while the reload is pending
can be undone after it, and the save that follows takes back another window's
change under a revision the service accepts. With a patient user (`Patient`) the
property holds, and `regions` checks it so.

Seen while modelling and not turned into a run:

* `docs/analysis-scheduling.md:36` says that completion does not delete a record,
  which holds until the history's limits.
* `PoiCache` is described as cross-worker single-flight, but a lease lasts 30 seconds
  and is not renewed (`SingleFlight` says what is left).
* A sampled analysis that has recorded `completed` may become `failed` and keep its
  report when a shutdown cancels the close of its HTTP client (`OneSamples` allows
  exactly this); a sampled analysis never raises `resultRevision`.
* The rollback of a context restores the context before the manifest; cut short in
  between, the package verifies with the provenance of the other context.
* `sampled_geometry.py:100` says that holes are excluded; an enclosed slow pocket
  becomes a polygon of its own and counts as inside. `IsolineExact` therefore speaks
  of what can be reached from the border. A line that runs into the border of the
  grid is dropped.
* A boundary route of a sampled analysis may be shown and be listed as failed.
* `poiCategoryStatus` of a sampled analysis counts stale pages as read; the coverage
  report does not.
* The reply about a route says "more than 15 minutes" whatever the threshold is.
* While the outline loads, an edit is accepted and then called saved; a failed
  outline leaves a new graph beside the old history; undo and save work during a
  drag. `Patient` excludes these in `regions`, `canvas_stale` does not.
* A reviewed crossing whose ports stop being a pair is asked about by nobody, even if
  its waiting time changes.

## 4. Proofs

Each theorem holds for every value of the constants that the named assumption
allows. Every safety theorem follows one scheme: an invariant that the steps
preserve (`...Inv`), one lemma per action or group of actions for the step, and the
theorem from `Init`, the step and `Inv => Property`. What the inductive invariants
add to the properties is said here, because it is what the code relies on.

**`Recursions_proofs`** has lemmas only. The induction theorems of the library take a
predicate as a parameter, which the provers here cannot instantiate; `Induct` and
`InductTo` say the same of a *set* of numbers, `Recursion` that a function with a
given start and step exists. With them it is proved, for every sequence and bound,
what the recursive functions of `Recursions` compute: `Only` keeps the chosen
elements and no others, a sequence without duplicates stays one, and `SumTo` adds up
and telescopes.
The modules that compute along a sequence (the registry of the assistant, the deque
of a search, the partition of an area, the probing of facilities) use these functions
or recursive functions of their own, so that the modules below can say what they
compute for inputs of any size.

**`ServiceShutdown_proofs`**, the scheduler (from `SchedulerAssumption`).
`SchedulerInv` has five parts.

* `TypeInv`: `TypeOK` is not inductive by itself. A rotation takes the head of the
  queue and an ending run its worker's job, so a rotation must never have more items
  to look at than the queue holds, and busy consumers must have a job
  (`TypeCorrect`).
* `PlacesInv`: the queue has no duplicates, its elements are exactly the jobs with a
  queued reservation, the reserved ones are exactly those of handlers and threads
  still preparing, and their number is within the limit. Each action moves at most
  one job between these sets (`PlacesAgree`, `PendingNeverExceeds`,
  `ReservedFindsRoom`, and `PlacesAreConsistent`, the property of the run).
* `LifetimeInv`: what phase and deadline allow the coordinator and the consumers.
* `RecordsInv`: the status of a record goes with the place of its job, busy consumers
  have different jobs, and the history holds finished jobs that nobody owns, oldest
  first and within its capacity.
* `QueueInv`: arrival order relative to the position of the rotation under way. The
  items it has not looked at are in order, the survivors behind them too, and each
  survivor is older than those in front of it; so the order is restored when it ends.

From them `RecordsStayConsistent`, and the action properties `JoinIsHonest` and
`FinishedStaysFinal`.

`ServedInOrder` needs the position of the rotation once more: the turn of an item is its
place in the queue, less its length if it has been put back already, and every step of
the rotation, which moves the head to the end, leaves the order of turns alone.
`SchedulerImplementsService` is the refinement: every step of the scheduler is a step
of `AnalysisService` or a stutter under the mapping `S`.

The application's shutdown, in the same module, composes the scheduler with the
runtime, whose lemmas it takes from `EngineLayers_proofs`. `OwnersAreThemselves` shows
that every behaviour of the composition is one of the scheduler and one of the
runtime, so that what is proved of the parts holds in it. `ServiceInv` joins their
invariants with `ShutdownInv`: the phases of coordinator and runtime agree, a job that
is inside the engine is owned by a consumer, `join()` is called after the last
admission, and once the runtime was idle in the drain only jobs call it. From these
follow `GraceCancelsNothing`, `ClearingIsQuiet` and the action property
`GraceInterruptsNobody`: whoever could cancel a running job, flush the queue or refuse
a job's call acts after the deadline, or finds nobody left to do it to.

**`EngineLayers_proofs`**, the runtime (from `RuntimeAssumption`). `RuntimeInv` says that the
semaphore's line holds exactly the waiting calls, each once, that permits free, handed
over and held add up, that a probe in charge has been started and is not retired, that
the idle event is set exactly when nothing is in flight, and that a closed runtime
has nothing left. A release hands its permit to the head of the line, which the line's
exactness makes a waiting call. `PermitsAlwaysConsistent`, `ProbeIsShared`.

The layers (the safety specification `LayersSafety` of all three). `ProcessInv`
accounts for the child and the reader at each step of an invocation, also between fork
and handover, where a cancellation may strike (`ProcessesAreOwned`). `GateInv`: a
handler of the service has a permit only behind the gate, and the counter is the
number of those (`GateIsExact`). `PreparedInv`: an application past its artifact stage
has prepared the graph it is configured with, and so has each request it sent
(`AnswersArePrepared`).

**`Assistant_proofs`**, the turns (from `AgentAssumption`).

* `TurnsAreExclusive`: a request that opens a conversation names it after itself and
  must not find that name busy; hence `TalkInv` says in addition that a conversation
  has a context only after its opener was admitted, and that each turn has a
  conversation with a context. Most steps only move a turn among its live states; the
  lemma `MoveKeeps` settles all of them. `CutInv` says that only a live task has a
  cancellation to deliver.
* `AnswersAreCurrent`: an action property, with `RoundsInv` for its last conjunct:
  what a turn has from its tools it has after a round.
* `ConversationsAreKept`: `LimitsInv` (a turn that may ask the model once more is
  below the limit of rounds) and `RegistryInv`: a conversation in the middle of a turn
  is listed until the runtime closes, then nothing is. Pruning by age and eviction by
  count take away with `Only`, which keeps what it should (`OnlyElements`).
* `RepliesAreGrounded` (`ToolsSpec`, from `ToolsAssumption`): what is said at the end
  of a turn rests on what was compared before. `ToolsInv` says after each step of the
  tools where they stand (`Placed`), that a route shown was found, asked for or
  chosen (`Shows`), and that a comparison is true of what it names (`Compares`). That
  a comparison not called partial has seen *every* medical facility follows by
  counting: it has as many routes as there are candidates, and to candidates only
  (`WholeComparison`). References are kept by appending and cutting; `Mentioned` is a
  recursion over the list of facilities, and each of its steps leaves every reference
  listed once.
* `AssistantIsSound`: all of these of the specification that the run checks
  (`AssistantAtBothLevels`).

**`AnalysisModes_proofs`**, one analysis and its readers (`Spec` of `AnalysisRun`).
`StageInv` says
what each stage has published. An answer on its way to the browser stays true while
the analysis goes on: `ClientInv` ties it to a revision, not to the present report.
`CoverageInv` adds that a report of a completed analysis no longer changes.
`LastRevisionIsShown`, `RecordsAreSettled`, `CoverageIsOfRevision`.

The sampled analyses (`SampledSpec`, from `SampledAssumption`). `SamplingIsExclusive`:
who is at a stage, and nobody else, has the semaphore, and `Moment` says for each
place in the task what the record may hold there and how the client stands
(`RecordsRight`; `MovesOn`, `LeavesKeeps` and `EndsKeeps` are the three ways a task
goes on). `SamplesAreSound` is about what the stages compute, for any number of
facilities, categories and places: `SplitExact` and, by induction over the categories,
`PartitionExact` say that each region of the partition is *all* that lacks exactly the
same services, hence that zones lack what they say and leave nothing out;
`RepresentativesProbed`, by induction over the candidates, that probing stops only at
the limit or when no candidate is left. `ModesAreSound` puts both kinds of analysis
together, as the run does (`ModesAreSeparate`).

**`PoiServices_proofs`** (from `FetchAssumption`). `LeasesHeld`: until it runs out,
the lease of a call is on its key, under its name, and exactly as old as the call
remembers; that is why two calls with unexpired leases are the same call
(`FetchesAreSingle`). `SlotsSpaced`: the provider's slot is free no sooner than the
gap is over, and booked by the one writer, who found it free (`ProviderIsSpared`).

The search (from `SearchAssumption`; `SearchesAreSound`). `Hunting`: as long as
nothing has disturbed the search, a query with pages to come is in the deque or in a
worker's hands, and no worker has stopped before the deque was empty; `Staged`: only
during a search is anybody reading. From these the parts of the property that say that
no query is forgotten and nobody reads on. `WholeListing` is the arithmetic behind
"complete": fresh pages up to the end of a listing have all its records. If totals
were told they have been compared with the sum of the pages; if not, every page but
the last was full, and the sum of full pages telescopes to the length of the listing.

**`RegionLife_proofs`** (the database from `StoreAssumption`). `LocksInv`: a transaction holds its
region's row while it looks, inserts and commits, and what it found missing under that
lock is still missing when it inserts (`KeysAreUnique`). `ThreadInv` and `StageInv`:
what the preparing thread has listed was current at one moment, and what it has loaded
is of that list and whole; only this makes the published set one moment's
(`ServedAtOneMoment`, `LifetimesLeaveNothing`).

The editor's canvas and the manual refinement are in the same module, since
`RegionLife` composes them (`WorkIsKept`, from `CanvasAssumption`, for a user who
waits while a request or a drag is under way, `Patient`; without the patience the
property is false, run `canvas_stale`). `PatienceInv`: during a request or a drag
nothing else has changed the canvas. `HistoryInv`: there is a trail of canvases such
that each entry of the history leads from one to the next and the cursor is at the one
on the screen; `KeepRecords` covers the entries trimmed at the limit. `LatestInv`:
each item has a date of the others' last save, nothing the window holds is older than
that while its revision is current, and an outdated revision never becomes current
again.

`ReviewsInv` holds of the canvas, of the network on disk and of what the patch makes of
its source (`PatchReplays`: replaying a patch on the network it was drawn on gives what
was drawn): each place has one review at most, of a question about that place, and the
review says the same as the record of what it was made of. Manual edits keep this
without looking at reviews (`RedrawnReviewed`), which is why `Holds` must compare path
and waiting time (`HeldIsMade`). `AskedApart`: two questions asked at once are about
different edges, so that an answer leaves the others alone (`OthersStay`).
`AnswerLinks`: the links of a scenario are those of the answered graph, up to a name.
From these `ReviewsAreSound` and the second half of `WorkIsKept`.

**`NetworkEditor_proofs`** (`PackageSpec`, from `EditorAssumption`). `EditorInv` has
five parts.

* `OwnerInv`: only the holder of the lock is inside a request, and who replaces files
  has before-images.
* `ToolInv`: a script that nobody has raced finds the package it has loaded.
* `WholeInv`: unless the export script ran into a save, the hashes of *every* manifest
  there is (on disk, in before-images, in a script's or an import's memory) are those
  of a network and its own annotations.
* `SavedInv`: unless any script did, a request that changes files has the before-images
  of a package that verified and of the revision its window had loaded (`Grounded`),
  and its list of files says how far it has come (`SaveStands`, `ContextStands`,
  `RollbackStands`). With nobody writing the package verifies, or a write was cut
  short and the newest backup completes it (`BackupCompletes`).
* `TypeInv`, for the files that are left to write and to put back.

From it `PackagesAreSound`, `BackupsRepair` and the action property `NoSaveIsLost`.
The proof found one claim too strong: that a repaired package names the origin of its
context. A second interruption can make a backup of a package that verifies although
its context and its provenance differ (the first rollback restores the context before
the manifest); TLC shows it with three mishaps, one more than the run has.
`InterruptionsRepairable` therefore counts the interruptions (`wounds`) and asks for
the origin after the first one only.

Only model-checked, and why:

* liveness and everything under fairness (`NobodyLeftWaiting`, `SlotReturned`,
  `PlaceReturned`, `InvocationEnds`, `ShutdownReturns`): outside the prover's reach,
  as is `ENABLED`;
* `IsolineExact` (`SampledIsoline`): who cannot be reached from the border of the grid
  is found by a search, a recursive operator; and that a contour winds around what it
  should is a theorem about closed curves in the plane, not about this code.

Every other property that a passing run checks is a theorem.

## 5. Plan

All modules and theorems of the plan are written. What could follow is a proof that
the sixteen cases of `CellSegments` join into closed rings, the first step towards
`IsolineExact`.

Larger instances worth a longer run by hand: two consumers in `ServiceShutdown`, two
keys in `PoiFetch`, a history shorter than the edits in `EditorCanvas`
(`MaxSteps = 1` or `MaxChanges = 3`).


## 6. Not modelled

* Network construction (conversion, junction detection and generation, alignment,
  audits): floating-point geometry without state; no finite instance would say much.
* The C++ algorithms (shortest paths, reachability, rings, simplification), parsing
  and formatting of the engine: pure functions that unit tests compare with
  references. The contour of the sampled analysis, in Python, is modelled.
* Map presentation, deployment scripts, one-shot tools, local experiments: no
  protocol state of their own, or the control of a scheduled analysis once more.
* Inside modelled parts: the download of a region (it reads files without the
  editor's lock), the creation of regions, publication rights; the semaphore of four
  in `BaiduClient`; cache statistics; the geometry of a route and of place binding;
  boundary smoothing and kriging weights; selection and drawing tools of the editor;
  previews of generation; the ranking of evaluated refinements and the questions
  about entrances and complex junctions, which nothing can apply.
* Not used by the application and left out: `poi.py` (`collect_pois`),
  `build_blind_zone_grid` of `sampled_geometry.py`, `select_boundary_samples` of
  `route_sampling.py`.

Assumed of the outside: InnoDB serves a consistent snapshot to a transaction and
locks rows and keys; SQLite has one writer; asyncio's semaphore, queue and
subprocesses behave as in Python 3.12; the provider's totals are right up to its
limit and its listings do not change within the cache's lifetime. `PROJECT.json`
lists every part with its status.
