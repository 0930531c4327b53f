----------------------------- MODULE BatchEngine -----------------------------
(***************************************************************************)
(* The engine of app/engine.py: jobs, the global worker pool and shutdown, *)
(* on top of the fair scheduler and the adaptive limiter.                  *)
(*                                                                         *)
(* Everything runs on one asyncio event loop, so an action is what a       *)
(* coroutine does between two awaits that suspend it.  submit(), cancel()  *)
(* and replay_failed() never suspend.  A worker suspends in the limiter's  *)
(* queue, in the provider call and in the backoff sleep.  The token bucket *)
(* is disabled (PROVIDER_MAX_RPS = 0, the default), so it never suspends.  *)
(***************************************************************************)
EXTENDS FairScheduler, AdaptiveLimiter

CONSTANTS
  Keys,            \* idempotency keys that clients send
  None,            \* no key, no job, no item
  PoolSize,        \* settings.worker_pool_size
  MaxActiveJobs,   \* settings.max_active_jobs
  MaxQueue,        \* settings.max_queue_size
  MaxRetries       \* settings.max_retries

ASSUME EngineAssumption ==
  /\ PoolSize \in 1..Cardinality(Workers)
  /\ MaxActiveJobs \in Nat
  /\ MaxQueue \in Nat
  /\ MaxRetries \in Nat
  /\ None \notin Jobs /\ None \notin Keys

VARIABLES
  jobs,       \* the store: a Job for every id, state "none" before create()
  byKey,      \* the store's index of idempotency keys
  active,     \* _active
  stage,      \* where each worker task is suspended, "off" when it is done
  item,       \* the work item each worker holds
  attempt,    \* infer_with_retry's attempt counter of each worker
  phase       \* where shutdown() is

engineVars == <<sched, lim, holders, jobs, byKey, active, stage, item,
                attempt, phase>>

-----------------------------------------------------------------------------
(* State.                                                                  *)

JobState == {"none", "running", "completed", "cancelled"}
Stage    == {"off", "new", "waiting", "calling", "backoff", "skip", "cancelled"}
Phase    == {"up", "draining", "cancelling", "down"}
Seqs     == 0..(MaxBatch - 1)

NoResults == [s \in Seqs |-> "none"]

NewJob(n, priority, key, state) ==
  [state |-> state, priority |-> priority, total |-> n, key |-> key,
   completed |-> 0, succeeded |-> 0, failed |-> 0, results |-> NoResults]

NoItem == [job |-> None, seq |-> 0]

Live == {w \in Workers : stage[w] # "off"}

accepting == phase = "up"

Terminal(j) == jobs[j].state \in {"completed", "cancelled"}

(***************************************************************************)
(* The prompts are data: what tells two payloads apart is their number and *)
(* their priority.                                                         *)
(***************************************************************************)
fingerprint(n, priority) == <<n, priority>>

find_by_idempotency_key(key) == IF key = None THEN None ELSE byKey[key]

dead_letter(j) == {s \in Seqs : jobs[j].results[s] = "error"}

Init ==
  /\ SchedInit
  /\ LimInit
  /\ jobs = [j \in Jobs |-> NewJob(0, "normal", None, "none")]
  /\ byKey = [k \in Keys |-> None]
  /\ active = {}
  /\ stage = [w \in Workers |-> "off"]
  /\ item = [w \in Workers |-> NoItem]
  /\ attempt = [w \in Workers |-> 0]
  /\ phase = "up"

-----------------------------------------------------------------------------
(* Submission.                                                             *)

(* Mutants: one active job too many is accepted; the size of the batch is  *)
(* forgotten; a conflicting key is taken over.                             *)
SubmitOutcomeOneTooMany(n, priority, key) ==
  LET existing == find_by_idempotency_key(key)
  IN  IF ~accepting THEN "shutting down"
      ELSE IF existing # None THEN "reused"
      ELSE IF Cardinality(active) > MaxActiveJobs \/ sched.pending + n > MaxQueue
      THEN "overloaded" ELSE "accepted"

SubmitOutcomeForgetsSize(n, priority, key) ==
  LET existing == find_by_idempotency_key(key)
  IN  IF ~accepting THEN "shutting down"
      ELSE IF existing # None THEN "reused"
      ELSE IF Cardinality(active) >= MaxActiveJobs \/ sched.pending >= MaxQueue
      THEN "overloaded" ELSE "accepted"

SubmitOutcomeTakesKey(n, priority, key) ==
  LET existing == find_by_idempotency_key(key)
      same == existing # None /\ jobs[existing].total = n
  IN  IF ~accepting THEN "shutting down"
      ELSE IF same THEN "reused"
      ELSE IF Cardinality(active) >= MaxActiveJobs \/ sched.pending + n > MaxQueue
      THEN "overloaded" ELSE "accepted"

(***************************************************************************)
(* The checks of submit_with_idempotency, in the order of the code.  Only  *)
(* "accepted" changes the engine's state; the others are answers.          *)
(***************************************************************************)
SubmitOutcome(n, priority, key) ==
  LET existing == find_by_idempotency_key(key)
  IN  CASE ~accepting -> "shutting down"
        [] accepting /\ existing # None ->
             IF fingerprint(jobs[existing].total, jobs[existing].priority)
                  = fingerprint(n, priority)
             THEN "reused" ELSE "conflict"
        [] accepting /\ existing = None ->
             IF \/ Cardinality(active) >= MaxActiveJobs
                \/ sched.pending + n > MaxQueue
             THEN "overloaded" ELSE "accepted"

(* Mutant: workers are created only when none is alive.                    *)
ensure_workersWhenIdle(pending) ==
  LET spawn == IF Live = {} THEN Smaller(PoolSize, Larger(1, pending)) ELSE 0
  IN  \E new \in SUBSET (Workers \ Live) :
        /\ Cardinality(new) = spawn
        /\ stage' = [w \in Workers |-> IF w \in new THEN "new" ELSE stage[w]]

(* The tasks that _ensure_workers creates; they run later.                      *)
ensure_workers(pending) ==
  LET target == Smaller(PoolSize, Larger(1, pending))
      spawn  == Larger(0, target - Cardinality(Live))
  IN  \E new \in SUBSET (Workers \ Live) :
        /\ Cardinality(new) = spawn
        /\ stage' = [w \in Workers |-> IF w \in new THEN "new" ELSE stage[w]]

(* The store keeps the job and, if it has one, indexes its key.            *)
create(j, job) ==
  /\ jobs' = [jobs EXCEPT ![j] = job]
  /\ byKey' = IF job.key = None THEN byKey ELSE [byKey EXCEPT ![job.key] = j]

submit(j, n, priority, key) ==
  /\ jobs[j].state = "none"
  /\ SubmitOutcome(n, priority, key) = "accepted"
  /\ create(j, NewJob(n, priority, key, "running"))
  /\ active' = active \cup {j}
  /\ sched' = AddJob(sched, j, WorkItems(n), priority)
  /\ ensure_workers(sched'.pending)
  /\ UNCHANGED <<lim, holders, item, attempt, phase>>

(* A new job with the failed prompts of old, whatever state old is in.     *)
replay_failed(j, old) ==
  /\ dead_letter(old) # {}
  /\ submit(j, Cardinality(dead_letter(old)), jobs[old].priority, None)

(* Mutant: the queue of a cancelled job stays in the scheduler.            *)
cancelKeepsQueue(j) ==
  /\ jobs[j].state = "running"
  /\ jobs' = [jobs EXCEPT ![j].state = "cancelled"]
  /\ active' = active \ {j}
  /\ UNCHANGED <<sched, lim, holders, byKey, stage, item, attempt, phase>>

(* Mutant: a cancelled job stays active.                                   *)
cancelKeepsActive(j) ==
  /\ jobs[j].state = "running"
  /\ sched' = RemoveJob(sched, j)
  /\ jobs' = [jobs EXCEPT ![j].state = "cancelled"]
  /\ UNCHANGED <<lim, holders, byKey, active, stage, item, attempt, phase>>

cancel(j) ==
  /\ jobs[j].state = "running"
  /\ sched' = RemoveJob(sched, j)
  /\ jobs' = [jobs EXCEPT ![j].state = "cancelled"]
  /\ active' = active \ {j}
  /\ UNCHANGED <<lim, holders, byKey, stage, item, attempt, phase>>

-----------------------------------------------------------------------------
(* The worker pool.                                                        *)

(* Mutant: the item is popped before there is a permit.                    *)
worker_loopPopsFirst(w, l, js) ==
  LET work  == ~PopReturnsNone(sched)
      got   == [job |-> PopJob(sched), seq |-> PopItem(sched)]
      next  == IF ~CanAcquire(l) THEN "waiting"
               ELSE IF ~work THEN "off" ELSE "calling"
  IN  /\ LimLoop(w, l, work)
      /\ sched' = Popped(sched)
      /\ stage' = [stage EXCEPT ![w] = next]
      /\ item' = [item EXCEPT ![w] = IF next = "calling" THEN got ELSE NoItem]
      /\ attempt' = [attempt EXCEPT ![w] = IF next = "calling" THEN 1 ELSE 0]
      /\ jobs' = js

(***************************************************************************)
(* The top of the worker loop: acquire a permit, pop, and go on to the     *)
(* provider call; or sleep in the limiter's queue; or, with a permit and   *)
(* nothing to pop, release it and end.                                     *)
(***************************************************************************)
worker_loop(w, l, js) ==
  LET work  == ~PopReturnsNone(sched)
      got   == [job |-> PopJob(sched), seq |-> PopItem(sched)]
      next  == IF ~CanAcquire(l) THEN "waiting"
               ELSE IF ~work THEN "off"
               ELSE IF js[got.job].state = "cancelled" THEN "skip"
               ELSE "calling"
  IN  /\ LimLoop(w, l, work)
      /\ sched' = IF CanAcquire(l) THEN Popped(sched) ELSE sched
      /\ stage' = [stage EXCEPT ![w] = next]
      /\ item' = [item EXCEPT ![w] =
                    IF CanAcquire(l) /\ work THEN got ELSE NoItem]
      /\ attempt' = [attempt EXCEPT ![w] = IF next = "calling" THEN 1 ELSE 0]
      /\ jobs' = js

Start(w) ==
  /\ stage[w] = "new"
  /\ worker_loop(w, lim, jobs)
  /\ UNCHANGED <<byKey, active, phase>>

Resume(w) ==
  /\ stage[w] = "waiting"
  /\ w \in lim.woken
  /\ worker_loop(w, Dequeued(lim, w), jobs)
  /\ UNCHANGED <<byKey, active, phase>>

(***************************************************************************)
(* Mutants: a result that arrives after a cancel is counted but not kept;  *)
(* the last prompt is not noticed; a cancelled job is completed.           *)
(***************************************************************************)
RecordedWith(it, ok, keep, last, from) ==
  LET old  == jobs[it.job]
      done == old.completed + 1
  IN  [jobs EXCEPT ![it.job] =
        [old EXCEPT !.succeeded = IF ok THEN @ + 1 ELSE @,
                    !.failed    = IF ok THEN @ ELSE @ + 1,
                    !.completed = done,
                    !.results   = IF old.state \in keep
                                  THEN [@ EXCEPT ![it.seq] =
                                          IF ok THEN "ok" ELSE "error"]
                                  ELSE @,
                    !.state     = IF done >= old.total + last /\ old.state \in from
                                  THEN "completed" ELSE @]]

RecordedUnlessCancelled(it, ok) == RecordedWith(it, ok, {"running"}, 0, {"running"})
RecordedOffByOne(it, ok) == RecordedWith(it, ok, JobState, 1, {"running"})
RecordedResurrects(it, ok) == RecordedWith(it, ok, JobState, 0, JobState)

(* The second half of _process: count, store the result, maybe finalize.   *)
Recorded(it, ok) ==
  LET old  == jobs[it.job]
      done == old.completed + 1
  IN  [jobs EXCEPT ![it.job] =
        [old EXCEPT !.succeeded = IF ok THEN @ + 1 ELSE @,
                    !.failed    = IF ok THEN @ ELSE @ + 1,
                    !.completed = done,
                    !.results   = [@ EXCEPT ![it.seq] =
                                     IF ok THEN "ok" ELSE "error"],
                    !.state     = IF done >= old.total /\ old.state = "running"
                                  THEN "completed" ELSE @]]

(* Mutant: the permit is kept for the next item.                           *)
ProcessKeepsPermit(w, ok) ==
  LET j  == item[w].job
      js == Recorded(item[w], ok)
  IN  /\ worker_loop(w, IF ok THEN record_success(lim) ELSE lim, js)
      /\ active' = IF js[j].state # jobs[j].state THEN active \ {j} ELSE active
      /\ UNCHANGED <<byKey, phase>>

(***************************************************************************)
(* The provider has answered and no retry follows: record the result,      *)
(* release the permit and, without suspending, take the next item.         *)
(***************************************************************************)
Process(w, ok) ==
  LET j  == item[w].job
      js == IF stage[w] = "skip" THEN jobs ELSE Recorded(item[w], ok)
  IN  /\ worker_loop(w, Released(IF ok THEN record_success(lim) ELSE lim), js)
      /\ active' = IF js[j].state # jobs[j].state THEN active \ {j} ELSE active
      /\ UNCHANGED <<byKey, phase>>

Succeeds(w) == stage[w] = "calling" /\ Process(w, TRUE)

(***************************************************************************)
(* Any exception of the provider, a 429 after the last retry included; or  *)
(* _process returned early because the job was already cancelled.          *)
(***************************************************************************)
Fails(w) == stage[w] \in {"calling", "skip"} /\ Process(w, FALSE)

(* Mutant: one retry too many.                                             *)
RateLimitedOnceMore(w) ==
  /\ stage[w] = "calling"
  /\ attempt[w] <= MaxRetries + 1
  /\ LimThrottle(w)
  /\ stage' = [stage EXCEPT ![w] = "backoff"]
  /\ UNCHANGED <<sched, jobs, byKey, active, item, attempt, phase>>

RateLimited(w) ==
  /\ stage[w] = "calling"
  /\ attempt[w] <= MaxRetries
  /\ LimThrottle(w)
  /\ stage' = [stage EXCEPT ![w] = "backoff"]
  /\ UNCHANGED <<sched, jobs, byKey, active, item, attempt, phase>>

BackoffElapsed(w) ==
  /\ stage[w] = "backoff"
  /\ stage' = [stage EXCEPT ![w] = "calling"]
  /\ attempt' = [attempt EXCEPT ![w] = @ + 1]
  /\ UNCHANGED <<sched, lim, holders, jobs, byKey, active, item, phase>>

-----------------------------------------------------------------------------
(* Shutdown.                                                               *)

BeginShutdown ==
  /\ phase = "up"
  /\ phase' = "draining"
  /\ UNCHANGED <<sched, lim, holders, jobs, byKey, active, stage, item, attempt>>

(* The grace period ends while workers are alive: all are cancelled.       *)
GraceExpires ==
  /\ phase = "draining"
  /\ Live # {}
  /\ phase' = "cancelling"
  /\ LimCancel
  /\ stage' = [w \in Workers |-> IF w \in Live THEN "cancelled" ELSE "off"]
  /\ UNCHANGED <<sched, jobs, byKey, active, item, attempt>>

(* Mutant: a cancelled worker does not release its permit.                 *)
UnwindLeaks(w) ==
  /\ stage[w] = "cancelled"
  /\ stage' = [stage EXCEPT ![w] = "off"]
  /\ item' = [item EXCEPT ![w] = NoItem]
  /\ attempt' = [attempt EXCEPT ![w] = 0]
  /\ UNCHANGED <<lim, holders, sched, jobs, byKey, active, phase>>

(* A cancelled worker ends; the item it held is dropped.                   *)
Unwind(w) ==
  /\ stage[w] = "cancelled"
  /\ stage' = [stage EXCEPT ![w] = "off"]
  /\ item' = [item EXCEPT ![w] = NoItem]
  /\ attempt' = [attempt EXCEPT ![w] = 0]
  /\ IF w \in holders THEN LimUnwind(w) ELSE UNCHANGED <<lim, holders>>
  /\ UNCHANGED <<sched, jobs, byKey, active, phase>>

(* Mutant: shutdown waits for the queues to drain.                         *)
FinishShutdownWaits ==
  /\ phase \in {"draining", "cancelling"}
  /\ Live = {}
  /\ sched.pending = 0
  /\ phase' = "down"
  /\ jobs' = [j \in Jobs |->
                IF jobs[j].state = "running"
                THEN [jobs[j] EXCEPT !.state = "cancelled"] ELSE jobs[j]]
  /\ active' = {j \in active : jobs[j].state # "running"}
  /\ UNCHANGED <<sched, lim, holders, byKey, stage, item, attempt>>

(* Mutant: shutdown cancels the finished jobs too.                         *)
FinishShutdownCancelsAll ==
  /\ phase \in {"draining", "cancelling"}
  /\ Live = {}
  /\ phase' = "down"
  /\ jobs' = [j \in Jobs |->
                IF jobs[j].state # "none"
                THEN [jobs[j] EXCEPT !.state = "cancelled"] ELSE jobs[j]]
  /\ active' = {}
  /\ UNCHANGED <<sched, lim, holders, byKey, stage, item, attempt>>

(* All workers have ended: the jobs that still run become cancelled.       *)
FinishShutdown ==
  /\ phase \in {"draining", "cancelling"}
  /\ Live = {}
  /\ phase' = "down"
  /\ jobs' = [j \in Jobs |->
                IF jobs[j].state = "running"
                THEN [jobs[j] EXCEPT !.state = "cancelled"] ELSE jobs[j]]
  /\ active' = {j \in active : jobs[j].state # "running"}
  /\ UNCHANGED <<sched, lim, holders, byKey, stage, item, attempt>>

-----------------------------------------------------------------------------
(* The endpoints that change the engine's state.                           *)

submit_batch(j) ==
  \E n \in 1..MaxBatch, p \in Priorities, k \in Keys \cup {None} :
    submit(j, n, p, k)

replay_endpoint(j) == \E old \in Jobs : replay_failed(j, old)

cancel_job(j) == cancel(j)

Client ==
  \E j \in Jobs : submit_batch(j) \/ replay_endpoint(j) \/ cancel_job(j)

WorkerStep(w) ==
  \/ Start(w)
  \/ Resume(w)
  \/ Succeeds(w)
  \/ Fails(w)
  \/ RateLimited(w)
  \/ BackoffElapsed(w)
  \/ Unwind(w)

ShutdownStep == GraceExpires \/ FinishShutdown

(* The process exits; nothing happens any more.                            *)
Exited == phase = "down" /\ UNCHANGED engineVars

Next ==
  \/ Client
  \/ \E w \in Workers : WorkerStep(w)
  \/ BeginShutdown
  \/ ShutdownStep
  \/ Exited

Spec == Init /\ [][Next]_engineVars

(* The steps of a worker that wait for nothing but the event loop.         *)
Runs(w) == Start(w) \/ Resume(w) \/ BackoffElapsed(w) \/ Unwind(w)

Answers(w) == Succeeds(w) \/ Fails(w) \/ RateLimited(w)

(***************************************************************************)
(* The event loop runs every task that is ready, sleeps end, and so does   *)
(* the grace period.  Clients, the signal that starts a shutdown and the   *)
(* provider promise nothing: no timeout guards the provider call.          *)
(***************************************************************************)
LiveSpec ==
  /\ Spec
  /\ \A w \in Workers : WF_engineVars(Runs(w))
  /\ WF_engineVars(ShutdownStep)

(* No call of the provider hangs for ever.                                 *)
ProviderAnswers == \A w \in Workers : WF_engineVars(Answers(w))

-----------------------------------------------------------------------------
(* Correctness.                                                            *)

Queued(j)   == {sched.items[j][i] : i \in 1..Len(sched.items[j])}
InFlight(j) == {item[w].seq : w \in {v \in Workers : item[v].job = j}}
Done(j)     == {s \in Seqs : jobs[j].results[s] # "none"}
Succeeded(j) == {s \in Seqs : jobs[j].results[s] = "ok"}

(* Type invariant of the engine.                                           *)
EngineTypeOK ==
  /\ \A j \in Jobs :
       /\ jobs[j].state \in JobState
       /\ jobs[j].total \in 0..MaxBatch
       /\ jobs[j].completed \in Nat
       /\ jobs[j].succeeded \in Nat
       /\ jobs[j].failed \in Nat
       /\ jobs[j].results \in [Seqs -> {"none", "ok", "error"}]
  /\ byKey \in [Keys -> Jobs \cup {None}]
  /\ active \subseteq Jobs
  /\ stage \in [Workers -> Stage]
  /\ \A w \in Workers : item[w] = NoItem \/ item[w] \in [job : Jobs, seq : Seqs]
  /\ attempt \in [Workers -> 0..(MaxRetries + 1)]
  /\ phase \in Phase

(***************************************************************************)
(* No prompt is lost or run twice.  While a job runs, each of its prompts  *)
(* is in exactly one place: queued once, held by one worker, or recorded;  *)
(* and a prompt that is queued or in flight is never one that already has  *)
(* a result, even after a cancel.                                          *)
(***************************************************************************)
EachPromptOnce ==
  \A j \in Jobs :
    /\ Cardinality(Queued(j)) = Len(sched.items[j])
    /\ \A v, w \in Workers : item[v] = item[w] /\ item[v] # NoItem => v = w
    /\ Queued(j) \cap InFlight(j) = {}
    /\ Done(j) \cap (Queued(j) \cup InFlight(j)) = {}
    /\ jobs[j].state = "running" /\ phase \in {"up", "draining"} =>
         Queued(j) \cup InFlight(j) \cup Done(j) = 0..(jobs[j].total - 1)

(***************************************************************************)
(* The progress counters, which _process keeps next to the result table,   *)
(* agree with it at all times, also for results that arrive after the job  *)
(* was cancelled.                                                          *)
(***************************************************************************)
CountersMatchResults ==
  \A j \in Jobs :
    /\ jobs[j].completed = Cardinality(Done(j))
    /\ jobs[j].succeeded = Cardinality(Succeeded(j))
    /\ jobs[j].failed = Cardinality(dead_letter(j))

(***************************************************************************)
(* A job is completed exactly when it was not cancelled and every prompt   *)
(* has a result: no early completion, and no running job with nothing left *)
(* to do, which would stay "running" for ever.                             *)
(***************************************************************************)
CompletedIffAllDone ==
  \A j \in Jobs : jobs[j].state \in {"running", "completed"} =>
    (jobs[j].state = "completed" <=> Done(j) = 0..(jobs[j].total - 1))

(***************************************************************************)
(* _active is the set of running jobs, and both backpressure bounds hold   *)
(* in every state: MAX_ACTIVE_JOBS and MAX_QUEUE_SIZE are checked once, at *)
(* submit, before anything is added.                                       *)
(***************************************************************************)
Backpressure ==
  /\ active = {j \in Jobs : jobs[j].state = "running"}
  /\ Cardinality(active) <= MaxActiveJobs
  /\ sched.pending <= MaxQueue

(***************************************************************************)
(* The pool never exceeds its size, and it never falls behind the queue:   *)
(* there are at least as many live workers as queued prompts, up to the    *)
(* pool size.  A worker that finds nothing ends for good and only submit   *)
(* creates new ones, so queued work without a worker would be stranded.    *)
(***************************************************************************)
PoolFollowsQueue ==
  /\ Cardinality(Live) <= PoolSize
  /\ phase \in {"up", "draining"} =>
       Cardinality(Live) >= Smaller(PoolSize, sched.pending)

(***************************************************************************)
(* Queued work can always progress: some worker is runnable, in a provider *)
(* call or in a backoff, so the workers are never all asleep in the queue  *)
(* of the limiter.                                                         *)
(***************************************************************************)
WorkCanProgress ==
  sched.pending > 0 /\ phase \in {"up", "draining"} =>
    \E w \in Workers :
      stage[w] \in {"new", "calling", "backoff"} \/ w \in lim.woken

(***************************************************************************)
(* A worker holds a permit exactly while it holds an item, so permits are  *)
(* not leaked by cancelled workers; after shutdown nothing is left over.   *)
(***************************************************************************)
PermitPerItem ==
  /\ holders = {w \in Workers : item[w] # NoItem}
  /\ phase = "down" =>
       Live = {} /\ lim.in_use = 0 /\ active = {}

(***************************************************************************)
(* The early return of _process for cancelled jobs is never needed: a      *)
(* cancel removes the queue, so no prompt of a cancelled job is dequeued.  *)
(***************************************************************************)
CancelledWorkNeverStarts == \A w \in Workers : stage[w] # "skip"

(***************************************************************************)
(* A finished job stays in the state it finished in: a worker that         *)
(* completes the last prompt of a cancelled job does not resurrect it, and *)
(* shutdown does not cancel a completed one.  Its results are never        *)
(* withdrawn or overwritten.                                               *)
(***************************************************************************)
FinalStatesAreFinal ==
  [][\A j \in Jobs :
       /\ Terminal(j) => jobs'[j].state = jobs[j].state
       /\ \A s \in Done(j) : jobs'[j].results[s] = jobs[j].results[s]
    ]_engineVars

(***************************************************************************)
(* At most one job was ever created under an idempotency key, and the      *)
(* index finds it.                                                         *)
(***************************************************************************)
OneJobPerKey ==
  \A k \in Keys : {j \in Jobs : jobs[j].key = k} = {byKey[k]} \ {None}

(***************************************************************************)
(* The engine uses the limiter as the limiter expects: each of its steps   *)
(* is a step of LimSpec or leaves the limiter alone, so what is proved of  *)
(* the limiter holds in the engine, shutdown included.                     *)
(***************************************************************************)
ImplementsLimiter == LimSpec

(***************************************************************************)
(* What a client can see of the jobs obeys the contract of JobLifecycle:   *)
(* every step of the engine accepts one job, counts one answer of one job, *)
(* cancels running jobs, or changes nothing that a client sees.            *)
(***************************************************************************)
Lives ==
  [j \in Jobs |-> [state |-> jobs[j].state, total |-> jobs[j].total,
                   completed |-> jobs[j].completed,
                   succeeded |-> jobs[j].succeeded, failed |-> jobs[j].failed]]

Lifecycle == INSTANCE JobLifecycle WITH life <- Lives

ImplementsLifecycle == Lifecycle!LifeSpec

(***************************************************************************)
(* Every accepted job finishes, whatever else is submitted or cancelled    *)
(* and however often the provider throttles, as long as it answers.        *)
(***************************************************************************)
JobsFinish ==
  ProviderAnswers => \A j \in Jobs : jobs[j].state = "running" ~> Terminal(j)

(* The answers of GET /readyz and of GET /system/capacity.                 *)
saturated == Cardinality(active) >= MaxActiveJobs
readyz    == accepting /\ ~saturated

(***************************************************************************)
(* An instance that answers 503 to its readiness probe, because it has too *)
(* many active jobs, is ready again later or shuts down: nothing that      *)
(* finishes or is cancelled stays in _active.                              *)
(***************************************************************************)
ReadyAgain ==
  ProviderAnswers => ((accepting /\ ~readyz) ~> (readyz \/ ~accepting))

(***************************************************************************)
(* A shutdown that has begun ends, also when every worker sleeps in the    *)
(* limiter's queue or in a backoff, or hangs in a call that the provider   *)
(* never answers.                                                          *)
(***************************************************************************)
ShutdownEnds == phase # "up" ~> phase = "down"

-----------------------------------------------------------------------------
(* What the documentation says and the code does not do.                   *)

(***************************************************************************)
(* "A single global worker pool drains the scheduler in parallel."         *)
(* (docs/architecture.md:58): when a prompt is queued, a permit is free    *)
(* and the pool is not full, a worker is on its way to the prompt.         *)
(* _ensure_workers counts busy workers as available.                       *)
(***************************************************************************)
DrainsInParallel ==
  /\ phase = "up" /\ sched.pending > 0
  /\ CanAcquire(lim) /\ Cardinality(Live) < PoolSize
  => \E w \in Workers : stage[w] = "new" \/ w \in lim.woken

=============================================================================
