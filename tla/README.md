# A TLA+ verification of the batch inference engine

This directory holds the formal specification of the service in `src/app`: TLA+
modules, the TLC configurations that check them on small instances, and
theorems with proofs that TLAPS checks. `PROJECT.json` is the machine-readable
index: components, runs, mutants, the map from definitions to source lines,
findings, hazards and theorems.

## 1. The system

A client submits a batch of prompts over HTTP and gets an acknowledgment at
once. The engine stores a job, queues one work item per prompt in a fair
scheduler that all jobs share, and makes sure that enough worker tasks exist. A
worker takes a permit from an adaptive limiter, pops an item, calls the
provider (retrying 429s with backoff), records the result, releases the permit
and starts over; it ends when there is nothing to pop. Clients poll, stream
events, cancel and replay failed prompts. Everything runs on one asyncio event
loop in one process; nothing is persisted.

### Components

| Component | State | Operations | Interacts with | Correct when |
|---|---|---|---|---|
| Fair scheduler, `scheduler.py` | `_queues` (an insertion-ordered dict of queue, weight, credit), `_pending` | `add_job`, `remove_job`, `pop` | called by submit, cancel and workers | the counter is exact; a waiting job is bypassed only a bounded number of times; `pop` never reaches its fallback |
| Adaptive limiter, `ratelimit.py` | `_limit`, `_in_use`, `_success_streak`, the condition's wait queue | `acquire`, `release`, `record_throttle`, `record_success` | called by workers, and by task cancellation | permits are exact, the limit stays in its clamps, no wakeup is lost |
| Token bucket, `ratelimit.py` | tokens, time of the last refill | `acquire` | called before each provider call | rate and burst hold, a caller is never stuck |
| Engine, `engine.py` | `_active`, `_workers`, `_accepting` | `submit`, `cancel`, `replay_failed`, `shutdown`, `_ensure_workers`, `_worker`, `_process`, `_finalize` | all of the above, store, provider | each prompt has one result, states are final, limits hold, no prompt is stranded, shutdown ends |
| Retry, `engine.py`, and mock client, `mock_inference.py` | attempt counter, delay; the mock's call counter | `infer_with_retry`, `compute_backoff`; `infer` | token bucket, provider, limiter through `_on_retry` | at most `max_retries` + 1 calls, Retry-After honoured, retries within the rate |
| Store and job record, `store.py`, `models.py` | jobs, key index; state, counters, results | `create`, `get`, `find_by_idempotency_key`; `dead_letter`, `snapshot` | engine, API | one job per key, counters agree with results |
| HTTP API, `main.py`, and export of the dashboard, `static/ui.html` | none of its own; the pages read so far | endpoints, readiness, SSE stream, pagination, upload; `exportJob` | engine | an instance becomes ready again, a stream tells how the job ended, pages put together miss nothing |
| Metrics, `metrics.py` | counters and gauges | `inc`, `set`, `render` | set by the engine, by hand | gauges show the state they describe, counters add up |
| Self-test, `selftest.py` | its two jobs, peak, checks | `run_self_test` | a client of the engine | no false alarm, no false all-clear, an answer |
| Other providers, settings, logging, rest of the dashboard, scripts | | | | environment, configuration and I/O |

### What is hard

* **Interleaving.** Submissions, cancels, a shutdown and the steps of all
  workers interleave at every `await` that suspends. A result may arrive after
  its job was cancelled; a worker may end while a submit counts on it.
* **Wakeups.** The limiter raises its limit without waking anyone, and
  `release` wakes one task although growth and release free two permits.
* **Timeouts and retries.** The grace period of a shutdown may end while workers
  are starting, asleep, in a call or in a backoff. Backoffs end together and race
  for tokens with new prompts. The provider call itself has no time-out.
* **Readers of moving state.** The event stream, the pages of an export, the
  gauges and the self-test read the engine in several steps, between which it
  moves on.
* **Bookkeeping by hand.** `_pending`, `_in_use`, `_active`, the job counters
  and the result table are separate pieces of state that must agree.
* **Boundaries.** Queue and job limits, the retry limit, the floor of the
  limiter, rounds and credits.

The hazards are listed in `PROJECT.json`, each at its line, with the properties
that would catch it.

## 2. Modules

| Module | Models | Kind |
|---|---|---|
| `FairScheduler` | `scheduler.py` | methods as operators on a record; a spec of its own |
| `SchedulerFairness` | the same with a history variable | safety and fairness properties |
| `FairScheduler_proofs` | | lemmas about the three methods, for the scheduler alone and in the engine |
| `SchedulerFairness_proofs` | | proofs about the scheduler |
| `AdaptiveLimiter` | the limiter and the part of `_worker` that uses it | methods as operators; a spec of its own |
| `AdaptiveLimiter_proofs` | | proofs about the limiter |
| `BatchEngine` | `engine.py`, `store.py`, the job record | composes the two components |
| `BatchEngine_proofs` | | proofs about the engine: its invariants, and that it implements `AdaptiveLimiter` and `JobLifecycle` |
| `EngineMetrics` | the metrics as `engine.py` sets them | extends `BatchEngine` with variables of its own |
| `EngineMetrics_proofs` | | proofs about the metrics |
| `SelfTest` | `selftest.py` and its endpoint | a client composed with `BatchEngine` |
| `SelfTest_proofs` | | proofs about the self-test |
| `JobLifecycle` | what a client may see of a job | abstract specification: `BatchEngine` implements it, the readers run against it |
| `EventStream` | the SSE endpoint of `main.py` | extends `JobLifecycle` |
| `ResultPages` | the result endpoints of `main.py`, `exportJob` of `ui.html` | extends `EventStream` |
| `ResultPages_proofs` | | proofs about the event stream and the export |
| `TokenBucket` | the token bucket of `ratelimit.py` | a spec of its own, with time in ticks |
| `RetryLoop` | `infer_with_retry`, `_gated_infer`, `mock_inference.py` | extends `TokenBucket` and implements its specification |
| `RetryLoop_proofs` | | proofs about the token bucket and the retry loop |
| `MCScheduler`, `MCEngine`, `MCMetrics` | | symmetry sets for TLC |

**Granularity.** On one event loop a coroutine runs until it suspends, so an
action is the code between two suspensions. `submit`, `cancel` and
`replay_failed` contain `await`s that never suspend: the locks they and the
limiter take are never held across a suspension and so are always free. Each is
one action. A worker suspends in three places only: in the limiter's queue, in
the provider call and in the backoff sleep. In particular it does not suspend
between releasing its permit and trying to acquire the next one, so `Process`
records a result, releases, and acquires and pops again (or goes to sleep, or
ends) in one step. This is why the components are written as operators from a
state record to the next: `BatchEngine` runs several of them in one step.

**FairScheduler.** The record `sched` has the keys of `_queues`, their
insertion order as a relation (`older`), weights, items, credits and `_pending`.
`AddJob`, `RemoveJob` and `Popped` are the three methods. `Popped` is the purge
of drained queues, the round reset, and the service of the oldest job in
credit; the fallback of the code, with its second reset, is in `PopJob` and
`PopFallback`. Items are their `seq`.

**AdaptiveLimiter.** The record `lim` has the limit, permits in use, streak,
the sleepers of the condition in FIFO order (`waiters`) and the tasks that were
notified and have not run yet (`woken`). A woken task is overtaken by any task
that acquires before it runs; it then goes back to sleep at the end of the
queue, as `Condition.wait` does. `asyncio.Condition` is not part of the
repository: `Enqueued`, `Dequeued` and `Notified` are modelled from how the code
uses it and marked external. Actions: `LimStart` (a new task), `LimResume`
(notified), `LimThrottle` (a 429 that is retried), `LimFinish` (result
recorded, release, next acquire), `LimCancel` and `LimUnwind` (shutdown).

**BatchEngine.** `jobs` is the store, with a state `"none"` for ids not yet
used; `byKey` its key index; `active` is `_active`; `stage[w]` says where the
worker task `w` is suspended (`"off"`: the task is done or was never created,
so the id can stand for a new task); `item[w]` is the item in its local
variable; `attempt[w]` the counter of `infer_with_retry`; `phase` where
`shutdown()` is.

| Action | Code |
|---|---|
| `submit` with `SubmitOutcome`, `ensure_workers` | `submit_with_idempotency`; only the outcome `"accepted"` changes state, so the refusals (503, 409, reuse) are stutters |
| `replay_failed`, `cancel` | the methods of that name |
| `Start`, `Resume` | first run of a task; return from the limiter's queue |
| `Succeeds`, `Fails` | the provider answered or raised; `_process` to its end, `release`, next iteration |
| `RateLimited`, `BackoffElapsed` | a 429 below the retry limit; end of the sleep and next call |
| `BeginShutdown`, `GraceExpires`, `Unwind`, `FinishShutdown` | `shutdown`: stop accepting; time-out of `wait_for`, which cancels the workers through `gather`; a worker ends with `CancelledError`; the jobs that still run are cancelled |

**JobLifecycle.** `life[j]` has the fields of a job's snapshot: state, total,
completed, succeeded, failed. A job is accepted, gets at most one answer per
prompt, and ends once. Two things a reader of the API would hardly expect are
part of the contract because the code does them: a job that was cancelled still
counts the answers that were on their way, and a shutdown may cancel several
jobs in one step. `Lives` in `BatchEngine` is the refinement mapping.

**EventStream.** The generator of `GET /jobs/{id}/events`. `pc` says at which
`yield` or `sleep` it is suspended, `snap` and `last` are its local variables,
`sent` is the event it yielded last. `Open` is the lookup and the first event,
`Poll` one turn of the loop up to its next suspension, `AfterProgress` the rest
of the turn once a progress event was sent, `Return` the end, `Disconnect` a
client that leaves. Between any two of these the job takes any step that
`JobLifecycle` allows. `Finish` reads the job's state at the moment it runs but
sends the snapshot it is given, as the code does.

**ResultPages.** A request of `GET /jobs/{id}/results` or `/dead-letter` cuts a page
by position out of the job's results, ordered by `seq`, as they are at that moment
(`Page`, `Listed`). `sorted` puts each element of a set at the position that its
`Rank` says, the number of smaller elements. `Fetch` is one turn of the loop of `exportJob`: append the
page, advance the offset by the page size, stop on a short page or when `total`
items were read. Between two requests the job moves as `JobLifecycle` allows, and
answers are stored under any `seq` that has none. The dashboard only exports
results; the same loop over the dead letter stands for other clients, which have
no total to stop at. The dashboard offers the export of a job that is over, but
a cancelled job still gets answers then. A behaviour has one stream or one
export: readers do not affect each other.

**EngineMetrics.** Every action of `BatchEngine` once more, with the metric calls
that the code makes along it, in their order: `metrics` is the registry, `retries`
is `Job.retries`. `refresh_gauges` is called at submit, cancel and completion; the
worker loop sets the queue depth and the calls in flight by itself. A finalization
refreshes the gauges before the worker pops again. The steps of a shutdown set
nothing but `inflight`, so its cancelled jobs are not counted. `seen429` is
history.

**SelfTest.** `run_self_test` submits two jobs and a duplicate without suspending
(`SubmitPrimary`, `SubmitFair`, between which nothing else happens), then polls
the first job and, when it is over or its deadline has passed, the second one,
and judges (`checks`, `Report`). A refused submission is an exception, which is
the 503 of the endpoint (`Refused`). Deadlines are a nondeterministic `late`.
`calm` is history: nothing was queued at the start, and since then no other
client, failed prompt, shutdown or deadline has interfered.

**RetryLoop.** The attempts of a prompt: each calls `acquire()` of the shared
bucket (`gated_infer`) and then the mock client (`infer`), whose shared counter
makes every Nth call a 429 at once. `Throttled` gives up after `MaxRetries`
retries or sleeps for the longer of `compute_backoff` and the Retry-After it was
given; jitter and Retry-After are chosen from small sets. `due` and `load` are
history: what is left of the Retry-After, and `excess` counted at the provider
instead of at the bucket.

**TokenBucket.** `Rate` units flow in per tick and a call costs `Cost` units, so
fractions of a token are integers. `elapsed` is the time since `_last`, up to
what fills the bucket; a `_last` of `None` needs no value because the bucket is
full until the first call. `TryAcquire` is the body of the loop in `acquire()`,
run by a new caller (`Call`) or after a sleep (`Wake`); sleeps are rounded up to
whole ticks and may overrun. `excess` and `served` are history. `served`
says that a call was granted since the last tick. `excess` grows by `Cost` with each
call, shrinks by `Rate` with each tick and stops at 0: it is the largest value,
over all windows that end now, of what was granted minus what flowed in.
Rounding errors of floats are left out.

### Abstractions

* The provider is nondeterministic: each call may succeed, fail or raise a 429,
  after any delay. That covers every provider in `providers.py` and the mock
  client. It does not raise `CancelledError` by itself.
* In `BatchEngine` the token bucket is disabled, as it is by default
  (`PROVIDER_MAX_RPS` = 0); `TokenBucket` models it alone and `RetryLoop` in its
  place in the retry loop.
* Prompts are data. What distinguishes two payloads with the same key is their
  number and priority (`fingerprint`).
* `decrease_factor` is the exact fraction `DecNum/DecDen`; the code multiplies
  floats and truncates.
* The success streak saturates at `IncreaseAfter`: only `>=` is ever tested.
* `_process` returns at once when its job is already cancelled. That path is
  the stage `"skip"`, and `CancelledWorkNeverStarts` shows that it is never
  entered.
* Job ids are fresh in the code. In `BatchEngine` a job id is used once. In
  `FairScheduler` alone an id that has left the dict may stand for a new job.
* Token and cost totals, timestamps, histograms, logs and the text format of the
  metrics are left out. `CountersAddUp` is about the counters that are kept.

## 3. Runs

| Run | Question | Bounds |
|---|---|---|
| `sched_safety` | Is `_pending` exact, is bypass bounded, is the fallback dead? | 3 jobs, 3 priorities, batches of up to 5: longer than the largest weight, so rounds end with items left |
| `sched_starvation` (violation) | "no job can be starved"? | 3 jobs, 2 priorities, batches of up to 2 |
| `engine_safety` | Are prompts, counters and states consistent? Is work ever stranded, a permit or a wakeup lost, a key used twice, the queue too long? Are the gauges of the worker loop and the counters right? | 2 jobs of up to 2 prompts, the second possibly a replay, 1 key, 1 retry, pool of 3, limit between 1 and 3 with factor 2/3, so that 3 -> 2 -> 1 and two workers can sleep at once; a queue of 3, so that a batch is refused because of its size |
| `engine_lifecycle` | Do clients see what `JobLifecycle` allows, are final states final, do jobs finish, does a saturated instance recover, does shutdown end? | 2 jobs of up to 2 prompts, at most 2 active, 2 workers, 1 retry; no symmetry |
| `engine_parallel` (violation) | "drains the scheduler in parallel"? | pool of 3, limit 3 |
| `engine_throttle` (violation) | "every observed 429"? | as `engine_safety`, no keys |
| `engine_gauges` (violation) | "live system state"? | as `engine_safety`, no keys |
| `retry_rate` | Do rate and burst hold for what reaches the provider, is Retry-After honoured, does the loop drain? | 3 callers, 2 tokens, refill of half a token per tick, 2 retries, every 3rd call a 429; Retry-After of 1 and 4 ticks, below and above the largest backoff of 2 + 1 |
| `token_fraction` (violation) | Is half a request per second a rate? | capacity of half a token, as the engine configures it |
| `readers` | Is a client told how the job ended; does an export have everything, and an end? | 1 job of up to 4 prompts, pages of 2, so an export takes up to 3 requests and ends both on full and on short pages. Deadlock is not checked: the job has ended, the readers too, and nothing is left to do |
| `stream_final` (violation) | Does the terminal event show the terminal state? | 1 job of up to 3 prompts |
| `selftest` | Can the self-test be trusted, does it end, and does the limit on active jobs hold with it? | both jobs of the test and one of another client, 1 prompt each (2 make more than 3 million states), 2 workers, 1 retry, 2 priorities; at most 2 of the 3 jobs active, so that each of them can be refused; a queue of 2 |

`Backpressure` is checked twice: `engine_safety` reaches the limit of the queue,
`selftest` the limit on active jobs.

Every property of a passing run has a mutant of a mapped definition that breaks
it; the mutants stand before the definitions they mutate.

**Fairness.** `SchedSpec` assumes weak fairness of `pop`: workers keep popping.
`LiveSpec` assumes weak fairness of the steps of a worker that wait for nothing but
the event loop (`Runs`) and of the steps of `shutdown()`: the loop runs every
ready task and every expired timer. It does not assume that the provider
answers, since no time-out guards the call. `ShutdownEnds` holds without it; `JobsFinish` and
`ReadyAgain` have it as an antecedent (`ProviderAnswers`). Nothing is assumed of
clients or of the signal that starts a shutdown. `JobsFinish` needs no fairness
between workers and clients because a bounded number of jobs arrives; unbounded
arrivals are the subject of `sched_starvation`. `SelfTestSpec` assumes only that
the test is resumed after its sleeps and that its deadlines pass at some time.
`BucketSpec` and `RetrySpec` assume that time passes and that a task whose sleep
is over runs; in `RetrySpec` nobody has to bring a new prompt. `StreamSpec` and `ReaderSpec` assume that the generator is
resumed when its sleep or send is over; a client may leave at any moment and
need not come at all.

`DrainsWhenQuiet` has an antecedent of its own, that from some time on no caller
begins a new prompt. Without it a caller at the bucket can be overtaken for ever,
because the bucket has no queue; the code makes no promise about it.

**What the violations show.**
* *Starvation.* The round is reset only when no queued job has credit, and each
  new job arrives with full credit. Under a steady stream of arrivals a job
  that has spent its credit is never served again, against `scheduler.py:11` and
  `README.md:33`.
* *Idle capacity.* `_ensure_workers` creates
  `min(pool, max(1, pending)) - live` tasks, where `live` includes workers that
  are busy. A prompt submitted while as many workers are busy as prompts are
  queued gets no worker of its own and waits for one of them, although permits
  are free and the pool is not full, against `docs/architecture.md:58`.
* *Uncounted 429s.* `_on_retry` counts a 429 and shrinks the limit, but it is
  called only when a retry follows. The 429 that exhausts a prompt's retries does
  neither, against `ratelimit.py:10`, `metrics.py:152` and
  `docs/architecture-decisions.md:29`; with `MAX_RETRIES` = 0 the limit never
  shrinks.
* *Gauges that lag.* `scheduler_active_jobs` and `inference_concurrency_limit` are
  refreshed at a submit, a cancel, a completion and (the limit) a 429, against
  "Gauges: live system state." (`metrics.py:166`). The completion of a job
  refreshes them before the next `pop` purges its drained queue, so an idle engine
  shows a job until the next submission; this is the trace of the run. The limit
  is stale after growth: from the last 429 to the next arrival or end of a job
  the gauge stays at the value of that 429, and `ConcurrencyCollapsed`
  (`docs/operations.md:61`) can fire while the limiter has long recovered. TLC
  finds that conjunct violated on its own too, by a 429 on one prompt of a job and
  a success on another.
* *Fractional rates.* The engine passes `PROVIDER_MAX_RPS` as the capacity. Below
  1 the bucket never holds a whole token and no call is ever made, although the
  constructor's own default avoids this.
* *Stale terminal event.* The stream takes its snapshot before it yields a
  progress event and tests the state after it. A job that ends in between is
  reported as ended with the counters from before; the client never sees the
  last ones. Its name is right, which is `FinalNameIsTrue`.

## 4. Proofs

The proofs hold for every value of the constants that the ASSUMEs allow (see below).

**SchedulerFairness_proofs.** The inductive invariant `FairInv` strengthens the
types with: the insertion order is a strict total order on the keys; a queued
job has positive weight, and its credit lies between 0 and its weight; a job
outside the dict has no items; and the key fact behind bounded bypass, which
relates history and credit: while `j` waits, what `k` was served since then plus
what `k` may still be served before `j` is bounded by `k`'s weight. `BoundedBypass`
alone is not inductive, since it does not know how much credit is left.
* `FairInvInductive`: `FairInv` holds initially and every step preserves it.
* `SchedulerIsFair`, `PendingNeverDrifts`, `FallbackIsDead`: its consequences.

**AdaptiveLimiter_proofs.** The inductive invariant is the conjunction of the
limiter properties that `engine_safety` checks and `WaitersDistinct`. `NoLostWakeup` needs
`PermitsExact` (a worker that releases holds a permit, so the count does not
become negative) and `WaitersDistinct` (waking a sleeper makes the set of woken
tasks grow by one). The case that matters is a success that raises the limit:
two permits become free and one sleeper is woken, but the releasing worker
takes the other permit in the same step, or finds no work and gives it back
with another notification. The property would fail for a client that releases
and does not come back.
* `LimInvInductive`, `LimTypeCorrect`, `PermitsAreExact`, `WakeupsAreNotLost`.

The proof has one lemma for the top of the worker loop (`LoopKeeps`), which
needs only `LoopReady`, and one lemma for each way to get there (`StartReady`,
`ResumeReady`, `FinishReady`).

**BatchEngine_proofs.** *The limiter in the engine.* Every step of the engine is a
step of the limiter's own specification or leaves the limiter alone. This does not
follow from the actions by themselves: the limiter's `LimStart` asks that the worker
is neither asleep nor woken nor a holder, where the engine asks that its stage is
`"new"`. `Placed` is the link: where a worker is suspended says where the limiter
has it. A worker that the shutdown cancelled may or may not hold a permit. `LinkInv`
is `LimInv` and `Placed`, and it is inductive with the limiter lemmas above.
* `StepLinks`: under `LinkInv` a step of the engine is a step of the limiter or
  a stutter, and keeps `LinkInv`.
* `EngineImplementsLimiter`: the engine implements `LimSpec`.
* `EnginePermits`: hence permits are exact and no wakeup is lost in the engine,
  for every number of jobs, workers and permits.

*The jobs.* None of the properties of jobs is inductive alone. `EngineInv` is
`LinkInv` and `JobsInv`, whose core is `PromptsOK`: the queue of a job with `n`
items holds its *last* `n` prompts in order (`QueueOK`); what a worker holds was
dequeued, has no result, and is held by that worker only (`HeldOK`, `ItemsOK`); and,
as long as no worker was cancelled, a dequeued prompt of a running job is held or
has its result (`NoneLost`). So a pop hands out a prompt nobody has, and an answer
goes to a place that is free. `PromptsOK` is a predicate of jobs, scheduler and
items rather than of the state, because one step of a worker passes through several
such triples: a result recorded, then a queue popped. `KeysOK` says that no
cancelled job is in the scheduler's dict, which is why the early return of
`_process` is never taken; `LoadOK` has the limits and the pool. `EngineInv` was
checked with TLC (214,910 states) before it was proved.
* `EngineInductive`, `EngineInvariant`: `EngineInv` holds in every behaviour.
* `EngineTypes`, `NoPromptLostOrRepeated`, `CountersAgree`, `CompletesExactly`,
  `CancelledNeverStarts`, `BoundsHold`, `PoolKeepsUp`, `QueuedWorkCanProgress`,
  `PermitsFollowItems`, `KeysAreUnique`: the invariants of the engine that
  `engine_safety` checks. `QueuedWorkCanProgress` combines the pool with
  `NoLostWakeup`; it has `Minimum # 0` as a hypothesis (see the assumptions).
* `FinalIsFinal`: the action property about final states and answers.
* `EngineImplementsLifecycle`: the engine implements `JobLifecycle`. A
  submission or replay is one `Accept`, a result one `Answer`, `cancel` and
  `FinishShutdown` one `Cancel` (of every job that still runs), and every other
  step a stutter.

**EngineMetrics_proofs.** `MetricsInv` is `EngineInv` with what the registry
remembers. `GaugesFor` is stated for any scheduler and limiter record, since the
gauges are set in the middle of a step. `CountersAddUp` bounds retries by prompts,
which needs to know how many retries each prompt in flight has used: `UsedRetries`
and `SpentNow` are sets of pairs, one for each retry, so that the bounds become
cardinalities. A prompt that gives up takes `MaxRetries` pairs out of `SpentNow`
while the counter of exhausted prompts grows by one. `MetricsInv` was checked with
TLC on 3,386,800 states.
* `MetricsInductive`, `MetricsInvariant`; `HotGaugesAreExact`, `CountersDoAddUp`.
* `MetricsAreTransparent`: a behaviour with metrics is one of the engine, so the
  theorems above hold for it.

**SelfTest_proofs.** The test sees only counters and the length of the queue.
`TestInv` adds to `EngineInv` that the jobs it polls are the ones it submitted
(`Submitted`), and what has held since a calm start (`CalmSoFar`): only its own
prompts are queued and nothing failed. `PassedCanBeTrusted` then goes from counters
to results by `JobOK`.
* `TestInductive`; `PassedCanBeTrusted`, `NoFalseAlarm`.
* `TestUsesTheEngine`: a behaviour with a self-test is one of the engine.

**RetryLoop_proofs.** `RateBound` is not inductive: it does not know that what
was granted recently is missing in the bucket. The invariant `BucketInv` adds
`excess + Refilled <= Capacity`. A call takes as much out of the bucket as it
adds to `excess`; a tick refills at most what it takes off `excess`, unless
`excess` is 0, where the cap of the refill applies. `RetryInv` adds that
only a caller at the gate sleeps in the bucket, that what reached the provider is
what the bucket granted (`load = excess`), and that what is left of a Retry-After is
covered by what is left of the backoff.
* `RateIsBounded`, `BucketTypes`.
* `RetryImplementsBucket`: each step of the retry loop is a step of the bucket or
  leaves it alone, so what is proved of the bucket holds in the loop. No run
  checks it: `RateBound` is checked on the retry loop itself.
* `RetryTypes`, `UpstreamRateIsBounded`, `RetryAfterIsHonoured`.

**ResultPages_proofs.** `StreamInv`: the records of the jobs are in order, and a
stream that has ended saw its job ended; since a final state is final, the name
it sent stays right. `PagesInv` adds the export. The proof is about ranks: an
export that goes on has read exactly `offset` items from full pages, and every item
that was listed at the first request and whose rank is below `offset` has been
read (`Reading`). New results can only raise the rank of an item, so none slips
past the offset unread; a short page, or as many items as the job has prompts,
means that no rank is left (`PageFacts`, `FetchFacts`). For a completed job the
pages are a prefix of the listing (`ExactSoFar`). Below this are the facts about
`sorted`: the ranks of a set are 0 to its size minus 1, each taken once
(`RankFacts`, `RankOnto`, `SortedFacts`). `PagesInv` was checked with TLC on the
constants of `readers` and with 5 prompts and pages of 1 (500,080 states).
* `StreamTypes`, `FinalNameStaysTrue`.
* `ExportMissesNothing`, `CompletedExportsAreExact`, `ExportsStayBounded`.

**Assumptions.** The proofs use the ASSUMEs of the modules and nothing else: finite
sets of jobs and workers; positive batch, pool and page sizes; a positive initial and
maximal limit, any floor and any success streak, 0 included, and a decrease factor of
at most 1; a positive rate, capacity and cost, also with a bucket too small for a
call; any retry limit, 0 included. The self-test has two jobs and two keys of its
own. TLC evaluates them on the runs.

`config.py:46-48` validates none of the limiter's settings. With
`ADAPTIVE_MIN_CONCURRENCY` = 0 a 429 can bring the limit to 0, and when the calls in
flight then fail all workers sleep in `acquire()` on a non-empty scheduler: TLC finds
`WorkCanProgress` violated as soon as `engine_safety` is given `Minimum = 0` and a
factor of 1/3, and its theorem excludes this floor. Every other theorem holds with it.
A decrease factor above 1 would let `record_throttle`, which clamps from below only,
raise the limit past its maximum; the model excludes it, as it excludes negative
settings.

**Only model-checked.** Every invariant, action property and refinement that a
passing run checks is proved. The liveness properties (`JobsFinish`, `ReadyAgain`,
`ShutdownEnds`, `DrainsWhenQuiet`, `EndIsTold`, `TestEnds`) are beyond the prover:
it does not reason about fairness and ENABLED.

**What the gauges are worth.** In every state between two steps
`inference_inflight` and `scheduler_queue_depth` are exact (`HotGaugesAreExact`). The
other two are not live (`engine_gauges`), but they err on one side, which is part of
`MetricsInv` (`GaugesFor`): `scheduler_active_jobs` is never lower than the number of
jobs with queued prompts, and `inference_concurrency_limit` never higher than the
limit.

## 5. Not modelled

* Upload parsing, the list of jobs, the status view and authentication of the
  API: input handling and read-only views. The list is cut into pages like the
  results, but nothing in the repository puts its pages together.
* Totals of tokens and cost, histograms, the counters of refused and reused
  submissions and the text format of the metrics: sums of what was answered.
* `SlowProvider` and `FlakyProvider`: the nondeterministic provider of
  `BatchEngine` covers them.
* A provider that raises `CancelledError` by itself, which is outside the
  interface of `providers.py`.
* Settings, logging, the rest of the dashboard and the scripts: configuration
  and I/O without state that a property could be about.
* Crash recovery: the store is volatile and the code has none.

## 6. Plan

1. (done) Scheduler, limiter and engine; their safety and liveness; proofs for
   the two components and for the engine's use of the limiter.
2. (done) `TokenBucket` with its rate bound proved; `JobLifecycle` as the
   engine's contract; `EventStream` against that contract.
3. (done) `RetryLoop`, `ResultPages`, `EngineMetrics` and `SelfTest`; liveness
   without the assumption that the provider answers, where it holds.
4. (done) Proofs for the engine, its metrics and the self-test: types, one place
   per prompt, counters, final states, `ImplementsLifecycle`, the limits, the pool.
5. (done) Proofs for the bucket, the retry loop and the readers.
6. Left: the step lemmas behind the liveness properties that are not temporal,
   such as a measure that each step of a worker after the arrival of the last job
   makes smaller; the temporal argument itself stays with TLC.
