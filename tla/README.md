# TLA+ models of TruthStream

TruthStream checks articles for facts. A Spring Boot *gateway* (`src/backend`)
takes jobs from a React *frontend* (`src/frontend`) and hands them over HTTP to
a FastAPI *AI service* (`src/ai-service`), which queues them in Redis, runs them
in worker pools through one of several pipelines (Gemini calls, web searches),
writes the results to PostgreSQL, and publishes progress on Redis channels that
the gateway relays to the browser as server-sent events.

This directory models the parts of that system in which the order of events
matters, model-checks them with TLC on small instances, and proves the main
safety properties with TLAPS for every value of the constants.

## 1. Inventory

| Component | Code | State it keeps | Operations | What is hard | Correct means | Status |
|---|---|---|---|---|---|---|
| Worker pools and job tasks | `orchestration/worker_executor.py` | `active_jobs`, `waiting_queue`, `active_tasks` | acquire, wait, release, run a job | tasks interleave at every await | the limit, FIFO order, no lost waiter, every waiter served | modelled: `WorkerPool` |
| Gemini key pool and breaker | `services/gemini.py` | cooldown per key, current index, `cooldown_until`, budgets, semaphore | call, retry, rotate, cool down, reload | calls of several jobs share keys and breaker; time passes under them | the breaker tells the truth about the keys; every call ends | modelled: `GeminiBreaker` |
| Job lifecycle | `JobService`, `FastApiClient`, `internal.py`, `worker_executor.py`, `pipeline_router.py`, `queries.py` | `jobs.status`, two Redis lists, the cancel channel, tasks | create, dispatch, queue, run, cancel, watchdog, cleanup | four writers without a lock; lost messages, crashes, restarts | the status follows the task, comes to rest, a cancel is final | modelled: `JobLifecycle` |
| Database connections | `db/connection.py`, `db/queries.py`, reuse path, watchdog | ten asyncpg connections | acquire, release, nested acquire | everyone waits for everyone | somebody can always go on | modelled: `ConnectionPool` |
| Event relay | `redis_publisher.py`, `SseService`, `RedisConfig`, `useJobStream`, `useJobHydration`, `JobContext` | subscriptions, emitters, listeners, the page's reducer | publish, register, relay, complete, time out, clean up, reconnect, cancel | at-most-once delivery, reconnects during cleanups, registrations that fail, threads that overtake each other, stale reads, a row that others write | a page shows what happened, the gateway forgets ended streams | partly modelled: `EventRelay` |
| Pipelines and agents | `pipeline_router.py`, `orchestration/pipelines/*`, `agents/*` | rows of articles, claims, sources, verdicts, bias | clone, extract, look up, judge, recover, write | every statement commits by itself; runs read what others have half written; clones that break off | a complete job is readable, verdicts go back to a judgement | partly modelled: `Pipelines` |
| Article source pool, search | `article_source_pool.py`, `search.py` | quota flag and search cache in Redis | parallel queries, three engines, one extra query | a shared flag that is read before it is set, partial failure, outages | the budget holds (it does not, finding 3), what is found reaches the claims | partly modelled: `SourcePool` |
| Verdict calculation | `utils/verdict_calc.py`, `quality.py`, `priority.py`, `text.py` | none | pure functions | boundaries | nothing is claimed without evidence | partly modelled: `Verdicts` |
| Startup, readiness | `main.py` | the application state | lifespan, `/ready`, reload keys | partial start | ready only when it can serve | `Restart` of `JobLifecycle`, `Reload` of `GeminiBreaker` only |
| Submission, rate limits | `RateLimitService`, `JobService.createJob`, `JobRepository` | counters in Redis | check, record, find a finished job | check-then-act, expiry | the excess is bounded, nobody is locked out for ever | modelled: `Submission` |
| REST results | `JobResultService` | none | joins | what its queries expect of the tables | a job's rows are found | reads only; its expectations are invariants of `Pipelines` |
| Embeddings, semantic cache | `embeddings.py`, `queries.py` | embeddings of claims | embed, find a similar claim | foreign claims, missing vectors | a cached verdict is somebody's judgement | the cache in `Pipelines`; vectors are data |
| Observability, configuration, presentation, Eureka, containers | | none of their own | | | | not modelled: pure computation, reads, declarations or rendering |

How they interact:

- gateway to AI service: one HTTP POST per job, sent after the commit and never
  repeated;
- AI service to its workers: two Redis lists;
- gateway and watchdog to the workers: `job:cancel:events` (Redis Pub/Sub, no
  persistence);
- workers to the browser: `job:<id>:events` (Pub/Sub again), the gateway's
  listener and emitter of the job, one server-sent event stream per page;
- everybody to everybody: the row of the job in PostgreSQL;
- runs of the AI service to one another: the tables of claims, sources and
  verdicts (semantic cache, clones), the search cache and the quota flag in Redis,
  the Gemini keys.

The hazards this leads to, each at its line, are listed under "hazards" in
`PROJECT.json` with the properties that watch them.

## 2. Modules

| Module | Models | Abstract specification |
|---|---|---|
| `WorkerPool` | one `WorkerPool` object and the tasks in it | `BoundedExecution`: every job runs at most once, at most so many together |
| `GeminiBreaker` | `GeminiClientManager`, `ProviderStateRegistry`, `execute_gemini_call` | |
| `JobLifecycle` | every writer of `jobs.status` and the messages between them | `JobStatus`: the order of the values of the column |
| `ConnectionPool` | who holds and awaits connections of the asyncpg pool | |
| `EventRelay` | one job's last events, the gateway's streams, the pages | |
| `Pipelines` | the statements by which runs write articles, claims, sources, verdicts, bias rows and the final status; semantic cache and clones | `JobResults`: a run adds to the results of its own job only, those of a finished job stand, complete jobs are readable; also `JobStatus` |
| `Verdicts` | `compute_fallback_verdict` | |
| `SourcePool` | `build_article_source_pool` and `search_web` of several jobs | |
| `Submission` | `POST /api/jobs` of one user: lookup, rate limit, insert | |
| `MC*` | the instances for TLC | |
| `*_proofs` | the theorems of a module and their proofs | |

Each model stands for one concern. Where one relies on another, its fairness
says so: `JobLifecycle` assumes nothing of admission (`WorkerPool` shows that it
may not come) and assumes that connections come (`ConnectionPool` says when
they do); `EventRelay` has the writers of the row again, without queues and faults of
their own, and takes from `JobLifecycle` that a job that has begun ends; `Pipelines`
opens the phases *cloning* and *working* of `JobLifecycle`, and takes what the
source pool returns from `SourcePool`: at most so many sources per claim, all
UNCLEAR (`PoolAssumption`). `Submission` ends where the dispatch of
`JobLifecycle` begins.

Every module also holds *slips*: an action or operator with one plausible
programming error (a dropped guard, an off-by-one, a missing reset). No
behaviour of `Spec` uses them. Put in the place of the original each of them
violates the property named for it under "mutants" in `PROJECT.json`, which
shows that the property depends on the code and that the instance is big
enough to notice.

## 3. How the models correspond to the code

`PROJECT.json` ("map") gives the lines of every definition. In outline:

**WorkerPool.** asyncio switches tasks only at an `await`, and the lock of the
pool is never held over one, so every section of code between two awaits is one
action. `AcquireSlot` is `acquire_slot` with the branch of
`run_job_with_semaphore` on its result: position 0 means "granted" although the
first waiter gets it too. `EnterWait` and `PollSlot` are the two parts of
`wait_for_slot`, `ReleaseSlot` is `release_slot` with the promotion of the
head. Jobs have distinct ids and are handed to the pool once
(`JobLifecycle!OneTicket`). Heartbeat and `get_status` are left out.

**GeminiBreaker.** Clock values are kept as the time that remains, so `Tick`
counts all of them down together. `Turn` is one turn of the loop over keys, up
to the await of the call; `FailKey` is cool down, rotate, next turn;
`MarkCooldown` opens the breaker when no key is left. `Finish`, `KeyError`,
`Transient`, `Retry`, `RetryError` are the outcomes of the two awaits,
`Abandon` a job that is cancelled or times out inside a call. The kind of an
error (matched in its text) is a choice.

**JobLifecycle.** The task of a job walks through the phases listed at the head
of the module. An `UPDATE` in flight is a phase of its own, because a task that
is cancelled there, or a process that crashes there, leaves a row that may or
may not have changed (`Outcomes`). `CancelDecide`, `CancelPublish`,
`CancelCommit` are the three moments of the gateway's transaction, in the order
of the code: check, publish, commit. `Sweep` is the watchdog's query; `Strike` and
`FailStruck` handle its rows one by one while everything else goes on. `Crash`
loses tasks and the subscription but neither rows nor lists, `RedisRestart`
loses lists and may leave the service without a cancel listener. Ages of rows
are not modelled: the watchdog may select any active row.

**ConnectionPool.** A client's place is the innermost `async with
pool.acquire()` it is inside of or waits to enter; `held` is the set of frames
that hold a connection. The reuse path is three frames deep (lookup, clone,
insert), the watchdog two. An exception or a cancellation leaves all frames
at once (`Unwind`), as `async with` does.

**EventRelay.** `Admit`, `HoldListener`, `Subscribe`, `Greet` are the four changes of
`SseService.register`, in its order, with everything else going on between them;
`SubscribeFails` is the exception of `addMessageListener`, after which the maps keep
emitter and listener and nobody times them out, and `Serve` the moment Spring takes
over the emitter that was returned, before which a send is kept for later and no
callback comes. `Ignore`, `Relay`, `RelayFails`, `Complete` are
`handleRedisMessage`; `DropEmitter` and `DropListener` the two halves of
`cleanup`, which find what the maps hold by then, not what their stream had put
there. A stream that ends begins as many cleanups as there are calls: two for a
timeout (`onTimeout`, `onCompletion`) and for `complete()` (its callback, the handler).
`Publish` gives every subscribed listener a thread for the message,
for the container has no executor of its own and starts one per message.
`Open`, `Hydrate`, `HydrateBare`, `HydrateFails` are the page's REST calls, `Reduce` is
its reducer, `LoseStream` and `GiveUp` are the two error listeners of
`useJobStream`.

The row of the job is written by its task (`Start` to `Finish`, the standard path) and
by members of `Cuts`, each a cancel or a strike of the watchdog (`Strike`, `Overrule`,
`Accuse`, `Close`), which read an active row, write FAILED whatever the row holds by
then, and publish an error. The task may be ended by it (`Die`) or go on and write
PROCESSING and COMPLETE over FAILED, as in finding 1; `Restart` is the cleanup at
startup. `missed` remembers a FAILED that was overwritten, or that could not be written
because the UPDATE raised.

Simplifications: finding the wrapper and sending to it is one step; cleanups under way
are counted, not told apart; the number of a stream that nothing refers to is used
again; what the gateway sends before Spring has the emitter reaches the page at once
instead of at `Serve`; whether Spring leaves an emitter behind whose first write fails
is left open (`ServeFails`). Left out are the events before the outcome, the cancel
button of the page, the recovery path's `PARTIAL`, the other paths' order of their last
events, and a page that switches between jobs.

**Pipelines.** An action ends at an `INSERT` or `UPDATE`, for each commits by
itself and any other run may read it; what a run holds in Python variables
between them is `pending` (claims to come), `mine` (`inserted_claims`), `known`
(sources and cached verdicts), `todo` (rows it is going to write) and `final`.
`Begin` to `CloneFails` are the router's reuse and `reuse_completed_job`, whose
exceptions let the job go on to a run of its own. `Route`, `FastAnswer`,
`Extract`, `FallBack` lead to the claims; `Hit` and `Miss` are the two branches of
the semantic cache. Its reads are several statements (similar claim, sources,
verdict, in this order), so `Hit` may take over the first few sources only of a
claim that another run is still working on, and `Miss` may insert a claim though a
similar one has been judged by then. `FastConclude`, `Judge`, `JudgeFails`, `AllCached` decide what
will be written; `InsertSource` to `SetStatus` write it. The standard and the deep
pipeline are the same program with other limits and lines. `Fail` ends a run
anywhere (exception, cancellation, watchdog). Texts, confidences, similarity and
the answers of models are choices; a claim has a *topic*, and claims of one topic
are near each other. That asyncpg returns embeddings as text, from which
`insert_claim` makes a literal that PostgreSQL refuses, is the guard of
`CopyClaim`: such a clone can only fail.

**Verdicts.** The counts and weights of `compute_fallback_verdict` and its
thresholds, without the confidence. Quality is in tenths, ratios are multiplied
out.

**SourcePool.** One record per search, with the phase it awaits in; slot 0 is
the extra search of a thin pool. Engines answer, fail, refuse (429) or raise as
they please; while Redis is out of reach reads find nothing and writes are lost,
as their exception handlers have it. The daily counter of calls is left out, for
nothing reads it. So is the search per claim that follows the pool
(`article_source_pool.py:252`): a pool with a result gives each claim at least
one source, so its condition never holds (`Assign`). Nor are `find_sources`,
`search_web_with_fallback`, `scrape_url` and `judge.py` modelled: nothing calls
them. The condition `len(queries) < max_queries + 1` (line 211) is always true.

**Submission.** A request's phase is the next call of PostgreSQL or Redis in its
thread. The type of a request decides whether it looks for a finished job (`Lookups`),
but the URL is stored with the job of a text request as well (`Urls`), where later
lookups find it. The job row is visible to others from `Commit` on; an exception rolls it
back but not the counter (`Break`), and a call that raises may have been carried
out. `Runs`, `DayPasses`, `HourPasses` are the AI service and time. `seen` is a
history variable for one invariant. The model is of an instance with the limit
switched on; `application.yml:96` has it off by default.

## 4. Runs

| Run | Instance | States | Question |
|---|---|---|---|
| `WorkerPool_slots` | 5 jobs, 2 slots | 48,927 | Does a job wait only behind a full pool, are waiters promoted in order and served; is the limit kept but for one job; does the pool implement `BoundedExecution`? |
| `GeminiBreaker_calls` | 3 calls, 2 permits, 2 keys, delays 1 to 3, a reload | 18,325 | Does the breaker tell the truth about the keys, do attempts start on ready keys, does every call end? |
| `JobLifecycle_rows` | 1 job, 2 faults | 3,993 | Is a job in one place, its row never ahead of its task, its status in order? Does it come to rest, is a delivered cancellation final? |
| `JobLifecycle_revived` | 1 job, no fault | | finding 1 |
| `ConnectionPool_answers` | 2 tasks, the watchdog, 6 connections | 1,267 | Can somebody always go on, is every request answered? |
| `ConnectionPool_gridlock` | 5 tasks, the watchdog, 10 connections, as in the code | | finding 2 |
| `EventRelay_cuts` | 1 page, 1 stream, 1 cut, 1 loss, 2 threads at work | 5,379,679 | Does a page show only what happened, whoever writes the row, whatever is lost, in every order of the events? |
| `EventRelay_pages` | 1 page, 2 streams, 1 cleanup under way at a new stream | 257,038 | Do streams that meet no remains of another leave nothing behind, does an undisturbed page come to show the verdict, is every emitter released? |
| `Pipelines_rows` | 2 jobs at a time, 2 claims each, 1 topic | 2,009,473 | Are complete jobs readable; do cached verdicts go back to the owner's judgement; is nothing claimed without a judge; does a reused verdict stand; do clones say what the cloned job said, where do second overall verdicts come from; do the shared tables implement `JobResults`? |
| `SourcePool_searches` | 2 jobs with budgets 1 and 2, 2 queries, 1 outage | 2,463,510 | Does what is found reach the claims? |
| `SourcePool_budget` | the same | | finding 3 |
| `Submission_requests` | 4 requests, 2 of type url, a text with the URL, 2 threads, limit 2 | 258,423 | How far is the limit exceeded, when do duplicates arise, does a lockout end? |

The bounds, and why they are enough:

- `WorkerPool`: a leaked slot needs one job above the limit, a job that ends
  early and one more release. Five jobs on two slots leave a queue of up to
  three behind them, so that order in the queue matters too.
- `GeminiBreaker`: two keys with different delays are the least for which
  "earliest" and "all cooling" are questions; the theorems cover more.
  `MaxCalls` is the code's budget per job (15 by default), `MaxReloads` bounds
  `/admin/reload-keys`. Three callers compete for two permits.
- `JobLifecycle`: jobs meet only in the watchdog's sweep and in a crash, which
  treat every row by itself; one job shows the conflicts over a row, and the
  theorems hold for any set of jobs. `MaxFaults` bounds crashes, failing
  statements and rollbacks; two allow a crash and a failing cleanup after it.
  Lost dispatches, Redis restarts and cancels are not bounded.
- `ConnectionPool`: with n tasks 2n + 1 connections are the exact threshold,
  and 2n + 2 are checked: two tasks on six. `ConnectionPool_gridlock` has the code's
  ten connections and five tasks, which one fast pool runs (`worker_executor.py:77`).
  The slow pool alone, at most three jobs, is safe.
- `EventRelay`: `MaxStreams` bounds the streams the gateway remembers at the
  same time, two being the least for one to overwrite another; `MaxDrops`
  losses of connections, calls, statements and events, and `MaxSweeps` how many cleanups
  may be under way when a stream is opened. A page that reconnects gives streams
  that overlap, as a second page would. `Cuts` are the cancels and strikes that may
  come: one, at any moment, and with a loss another writer of the row breaks off or
  misses it. `MaxThreads` bounds the threads that still handle a message, or are about to
  complete their stream, when one is published: with 0 messages are handled in their
  order, with 1 two of them in either.
  What the gateway keeps for a stream depends neither on the row nor on what the
  messages say, and what a page shows comes to it over one stream at a time; so
  `EventRelay_pages` has two streams and no cut, and `EventRelay_cuts` has a cut and one
  stream, which the page leaves and opens again. `EventRelay_pages` has no loss, since
  every loss counts as a disturbance; a registration may still fail there (`ServeFails`).
  The theorems have no bounds.
- `Pipelines`: a claim is taken over by a job from another one, so two are enough
  for the cache, at the same time (`MaxRuns`, the slots of the worker pools) and with
  two claims each (`MaxClaims`, 5 in the code), which may be near each other. A
  clone of a clone takes three jobs, which only the theorems have. `MaxFailed` bounds the jobs
  that end as FAILED. One judgement, reading and opinion of the model suffice,
  for they are those that the computed verdict never gives (`REFUTED`; a source
  that `SUPPORTS`).
- `SourcePool`: budgets 1 and 2 give every branch, 3 is in the theorems; two
  queries, so that searches share entries of the cache or do not; an engine returns one
  result, `Thin` is 2: a pool may be thin or not. `MaxOutages` bounds outages of
  Redis; expiries are not bounded.
- `Submission`: `Threads` is the number of requests that are handled at the same
  time (Tomcat's threads). Two requests of type url are the least that overlap, a text that
  carries the URL gives duplicates without overlap, a fourth request has none. With a
  limit of 2, four requests on two threads reach it,
  exceed it and are turned away; a job may finish, fail and be run again at
  any time.

The jobs of `Pipelines` and the queries of `SourcePool` are interchangeable; runs with
liveness use no symmetry. `CHECK_DEADLOCK FALSE` is set for `WorkerPool`, where all
jobs may be over, `EventRelay`, where the page may be gone and the job over,
`Pipelines` and `SourcePool`, where all runs may have ended, and `Submission`, where
all requests may be answered.

### Fairness

- `WorkerPool`: weak fairness of every task. The event loop runs what is ready,
  and every stage of a job has a timeout or is ended by the watchdog.
- `GeminiBreaker`: calls and time go on (see `Fairness` in the module); nobody
  is assumed to call, to reload or to be cancelled.
- `JobLifecycle`: tasks go on, the watchdog comes round and finds what stays
  active, a stopped service is restarted, a gateway transaction ends. Strong
  fairness for the watchdog's query, since a row may stop being active and
  become so again. Nothing is assumed of dispatch, queues and admission.
- `ConnectionPool`: statements end (`command_timeout`), and asyncpg wakes
  waiters in turn, hence strong fairness of a request. `Unwind` is not fair.
- `EventRelay`: threads, callbacks and REST answers come, EventSource connects,
  the job ends. The five-minute timeout of a stream is *not* assumed, so that
  nothing is shown only because a stream was cut; `EmitterIsReleased` names it
  as its premise. Nor has a page to be opened or left, a job to be started or cut.
- `Submission`: a thread goes on with its request, and hours pass. Nobody has to send
  a request, no job has to be run, nothing has to break.
- `Pipelines` and `SourcePool` claim no liveness: that their awaits end is a matter
  of the timeouts around them, which `JobLifecycle` takes for granted.

## 5. Proofs

| Module | Theorems | Inductive invariant |
|---|---|---|
| `WorkerPool_proofs` | `TypeCorrect`, `WaitersKept`, `UnslottedIsHead`, `LiveSlotsBounded`, `PromotionIsFifo`, `PoolIsBounded`, `NobodyStarvesUnleaked`, `LeaksComeFromTheHead` | types; a job is in the queue once; what is queued has no slot and sleeps, except that the head may run; a job that has not come yet holds nothing; the invariants themselves |
| `GeminiBreaker_proofs` | `TypeCorrect`, `BreakerCoversKeys`, `NoNeedlessLockout`, `AttemptsOnReadyKeys`, `CallsOnlyWindDown` | types; the two invariants on breaker and cooldowns; on top of them, that nothing exceeds the longest delay |
| `JobLifecycle_proofs` | `TypeCorrect`, `SingleTicket`, `RowNeverAhead`, `LifecycleRefinesStatus`, `TasksGoForward`, `SettledStays`, `RestIsFinal`, `CancelledHasNoResult` | types, `OneTicket`, `RowFollowsTask`, and that nothing refers to a job without a row |
| `ConnectionPool_proofs` | `TypeCorrect`, `GridlockFree` | `held` is exactly the frames below each client's place; the watchdog stays in its own places |
| `EventRelay_proofs` | `TypeCorrect`, `OutcomeHappened`, `SoleStreamsAreForgotten`, `NoDeadEmitterStays`, `VerdictIsNotLost` | `IInv`: types; the verdict and the row follow task and cuts; a published event and a status that was read are true of the job, or of a FAILED that was overwritten; so is what is shown. `SoleInv`: what the gateway refers to was registered; while nothing is tangled, one stream at most is in use, and it is being registered with nothing due, open, or has a cleanup due for what is left of it. For `VerdictIsNotLost` also: an undisturbed job's events are in order (`CalmJob`), pages and streams refer to each other (`Connected`, `Flowing`, `Orderly`) |
| `Pipelines_proofs` | `TypeCorrect`, `OwnersJudgeFirst`, `ClonesCopyVerdicts`, `CompleteJobsAreReadable`, `OverallsCounted`, `UnjudgedStaysOpen`, `ReuseIsLastWord`, `ReuseBringsNoSources`, `PipelinesRefineResults`, `StatusKeepsOrder` | seven: `OwnerInv` (types; what a run is going to write is about its own claims or about claims judged before; the first verdict is the owner's; copies come from the cloned job; tables only grow), `ProgressInv` (what is in the tables at each place of a run; concluded jobs are readable), `CountInv` (overall verdicts by the place of the run), `AllJudgeInv` (without a judge nothing but UNVERIFIABLE is held, planned or said), `AllReuseInv` (a reused verdict is still to be written, or said and nothing more about that claim is to be), `SourceInv` (the sources a run holds or is going to write are of its own claims, or are in the table) and `ColumnInv` (the status at each place of a run) |
| `SourcePool_proofs` | `TypeCorrect`, `ExcessIsOne`, `NothingFoundIsLost` | types; a slot sends at most one request, slots above the budget none, slot 0 only for a thin pool; results are counted when the searches have ended |
| `Submission_proofs` | `TypeCorrect`, `ExcessBounded`, `NoLookupAddsDuplicate`, `CounterIsTemporary` | types; at most `Threads` are busy; counted and saving requests; a lookup that saw a finished job creates none while that is fresh |

The assumptions are those named in the modules: finite sets where a cardinality
is taken, positive limits. `NoNeedlessLockout` is for behaviours without reload
and without a delay of zero, conditions that the invariant itself states.

Seven arguments are worth knowing. *LiveSlotsBounded*: `active_jobs` can outgrow
the limit, but a slot in use is given only by `acquire_slot`, under its test, or
by a release, one for one; so the set of slots whose tasks still live does not.
*GridlockFree*: a client that waits holds at most two connections (tasks) or one
(the watchdog), so n tasks and the watchdog that all wait hold at most 2n + 1,
less than the pool has: somebody is not waiting.
*OwnersJudgeFirst*: a run writes about a foreign claim only after `Hit` has found a
verdict on it, so by induction on the table the owner's was there before; verdicts
are never deleted, though jobs fail and are run over clones. *ExcessBounded*: a request that
passes the check sees a count below the limit, and between its check and its INCR
at most `Threads - 1` others are at the same place; the sum of the counter and
of those about to count is what stays bounded. *PipelinesRefineResults*: a run
writes verdicts and claims under its own id only, but it does store sources under a
foreign one. Those come from `Hit`, which found them in the table; sources are
only ever appended there, so what the run holds, plans or has half written is there
whenever it writes, and nothing new reaches a finished job. *VerdictIsNotLost*: before the first
event there is one stream, whose page, emitter and listener refer to each other; nothing
but a loss, an overtaking thread, a cut or a second stream, each of which is recorded,
separates them before the thread with the verdict has handed it over. *OutcomeHappened*:
FAILED may go again, so the invariant does not say that the row is what a page shows; it
says that a FAILED that goes is remembered, and a verdict never goes, and then that
whatever carries news of the job (an event, a status that was read, a view) stays true.

`UnslottedIsHead`, `ReuseBringsNoSources`, `StatusKeepsOrder` and `ExcessIsOne` state
definitions that no run lists: `ExcessIsOne` says how far the cap of finding 3 is
exceeded; the first two are what the refinement of `BoundedExecution` and
`PipelinesRefineResults` rest on, `StatusKeepsOrder` says that the statements of `Pipelines`
respect the same `JobStatus` that `JobLifecycle` implements.

Every invariant, every safety property of steps and every refinement that a passing
run checks is proved as well. Liveness itself stays with TLC, for the prover handles
neither fairness nor `ENABLED`; what each liveness property rests on, and holds
without fairness for every value of the constants, is proved:

| Checked by TLC | Proved half |
|---|---|
| `ServedWhileLeakFree` | `NobodyStarvesUnleaked`: a waiter has a living task to wait for unless all slots have leaked; `LeaksComeFromTheHead`: a slot leaks in one way only |
| `CallEnds` | `CallsOnlyWindDown`: the steps left to a call, at most `3 * NumKeys + 1`, only decrease |
| `EventuallySettled` | `TasksGoForward`: a task has at most eleven steps; `SettledStays`, `RestIsFinal`: what has come to rest stays so |
| `DeliveredCancelIsFinal` | `CancelledHasNoResult`: no result is shown after the cancel |
| `AskIsAnswered` | `GridlockFree`: somebody can always give a connection back |
| `CalmPageSeesVerdict` | `VerdictIsNotLost`: the verdict is on its way to an undisturbed page |
| `EmitterIsReleased` | `NoDeadEmitterStays`: a dead emitter has a cleanup under way, unless its registration failed |
| `LockoutEnds` | `CounterIsTemporary`: a counter without an expiry has a request at work on it, or one that was cut off there |

Also out of the prover's reach is what `compute_fallback_verdict` gives for every
list of sources: `Weight` sums over a set by recursion. Proved of it is what needs no
sum (a claim whose sources are all UNCLEAR is UNVERIFIABLE).

## 6. Findings

1. **A cancelled job may complete** (`JobLifecycle_revived`,
   `pipeline_router.py:241`). A cancel event for a task that is not registered
   yet is dropped, and the pipeline then overwrites FAILED.
2. **The reuse path can lock up the connections** (`ConnectionPool_gridlock`,
   `pipeline_router.py:259`), and with them the watchdog meant to end such jobs
   (`README.md:257`). Jobs of type url run in the slow pool, three at most, and hold
   seven of the ten connections at most, watchdog included. But short text requests
   that also carry a url run in the fast pool, five at a time (`internal.py:36`,
   `worker_executor.py:77`), and take the reuse path for their url as well
   (`JobService.java:67`, `pipeline_router.py:249`).
3. **A thin pool exceeds its search budget** (`SourcePool_budget`,
   `article_source_pool.py:211`): one request more than `max_queries`, which
   `article_source_pool.py:164` calls a hard cap and line 10 "1 SerpAPI call total".
   Only the standard path is said to have a third (line 11). It is one at most
   (`ExcessIsOne`).

Behaviours the models also have, which no run singles out:

- a pool can starve its waiters (`AcquireSlot`, `ReleaseSlot`;
  `worker_executor.py:63`, `:190`): the first job to find the pool full gets
  position 0, is taken for admitted and runs without a slot. If it ends while it
  is the head of the queue, its own release promotes it, and the slot never comes
  back; with as many leaks as slots a waiter polls for ever. Hence the premise of
  `ServedWhileLeakFree`;
- reloaded keys are not eligible (`Reload`; `gemini.py:117`): `reload_keys` clears the
  cooldowns but not the circuit breaker, though `main.py:325` says that the new
  key is "immediately eligible for use";
- the thread of `done` may overtake that of the verdict (`TakeThread`, `Relay`;
  `RedisConfig.java:41`): the page closes its stream without it. Hence *Disturbed*
  in `CalmPageSeesVerdict`, which also lists losses, a connection error of the page,
  a stream registered among remains of another, and cuts;
- a clone of a job with an embedded claim always fails half way and is followed by a
  full run on top of its rows (`CopyClaim`, `CloneFails`; `pipeline_router.py:83`,
  `queries.py:111`), though `README.md:40` has such jobs cloned "instantly"; the result
  has two bias rows, and after a failure behind line 150 two overall verdicts, for
  which `JobResultService.java:32` expects one;
- claims taken over from another job keep that job's id (`Hit`): they are not in the
  result of this one (`JobResultService.java:38`) and are not cloned with it;
- the sources of a reused claim are inserted again for each reuse (`InsertSource`;
  `standard.py:294`), so that a claim may have more than the two of `README.md:71`, and
  the computed verdict of line 261 counts copies as votes;
- finished duplicates of one URL and day make the lookup of every later request fail with
  500 (`Lookup`, *ambiguous*; `JobRepository.java:31`): the method is called `findFirst`, but
  its `@Query` has no limit and its result is one job or none. Duplicates come from
  requests that overlapped or from a text request that carries the URL, and in no other
  way (`LookupsAddNoDuplicate`);
- a request that breaks off between INCR and EXPIRE leaves a counter without an
  expiry, which locks its user out once the limit is reached
  (*brokeCounting*; `RateLimitService.java:73`);
- a cancel that has read PROCESSING overwrites the COMPLETE of a task that
  finishes before the transaction commits (`CancelDecide`, `Land`,
  `CancelCommit`; `JobService.java:155`);
- the watchdog fails a job of its snapshot that has completed since
  (`Sweep`, `Land`, `FailStruck`; `worker_executor.py:131`);
- a page that connects again while a cleanup of its last stream is due may leave a
  listener subscribed for the life of the gateway (`HoldListener`, `DropListener`,
  `Subscribe`; `SseService.java:69`): the cleanup takes the listener out of the map
  before it is in the container, or `put` overwrites one that is not removed yet.
  Hence *tangled* in `SoleStreamIsForgotten`; `Working.md:192` promises the removal
  without condition;
- a registration whose `addMessageListener` throws leaves emitter and listener in the
  maps, until the next stream of the job replaces or a cleanup removes them
  (`SubscribeFails`; `SseService.java:70`). Hence the exception in `EmitterIsReleased`;
- a cancel or a strike tells a page of a failure while the task goes on to COMPLETE
  (`Overrule`, `Save`): the page has closed its stream and keeps showing the failure
  (*missed* in `ShownOutcomeHappened`);
- a page that subscribes after `done` hears nothing, times out, connects again
  and so on, showing "queued" and a connection error in turn (`SseService.java:70`);
- a stream request answered with an error makes the page show a running job as
  complete, next to the error (`GiveUp`; `useJobStream.ts:102`).

## 7. Not modelled, and what is left

Modelled no further:

- `Admission`: `WorkerPool` and `JobLifecycle` together (two pools, the phase
  *accepted*) would show which jobs only the watchdog ends. `JobLifecycle` assumes nothing
  of admission instead, so that what it shows holds for whatever the pools do.
- `main.py`: the lifespan opens clients one after the other, once; what concerns
  other parts (cleanup, reload of keys) is in their modules.
- Several pages of a job in `EventRelay`; they share nothing but the streams, which
  one page that reconnects already makes overlap.
- `JobResultService`, observability routes: reads and formatting.
- `AuthService`, entities, DTOs, configuration: library calls and declarations.
- Code that nothing calls: `judge.py`, `find_sources`, `search_web_with_fallback`,
  `scrape_url`.

Out of reach or out of scope: what language models answer, page contents, search
results and embeddings (data), the garbage collection of a task nobody refers
to (`worker_executor.py:262`), the security configuration, rendering.
