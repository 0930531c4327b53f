---------------------------- MODULE EngineMetrics ----------------------------
(***************************************************************************)
(* The metrics of app/metrics.py as app/engine.py keeps them: counters and *)
(* gauges that are set by hand, next to the state they describe.  Every    *)
(* action of BatchEngine appears here with the metric calls it makes.      *)
(*                                                                         *)
(* Counters of refused and reused submissions, tokens and cost are plain   *)
(* totals of answers and are left out, and so is the text format.          *)
(***************************************************************************)
EXTENDS BatchEngine

VARIABLES
  metrics,   \* the registry: a number for every metric
  retries,   \* Job.retries of every job
  seen429    \* history: the 429 answers of the provider

metricVars == <<metrics, retries, seen429>>

allVars == <<sched, lim, holders, jobs, byKey, active, stage, item, attempt,
             phase, metrics, retries, seen429>>

-----------------------------------------------------------------------------
(* A fresh registry; the constructor of the engine sets one gauge.         *)
Registry ==
  [jobs_submitted |-> 0, jobs_completed |-> 0, jobs_cancelled |-> 0,
   prompts_completed |-> 0, prompts_succeeded |-> 0, prompts_failed |-> 0,
   inference_retries |-> 0, inference_rate_limited |-> 0,
   retries_exhausted |-> 0,
   queue_depth |-> 0, active_jobs |-> 0, inflight |-> 0,
   concurrency_limit |-> StartLimit]

MetricsInit ==
  /\ Init
  /\ metrics = Registry
  /\ retries = [j \in Jobs |-> 0]
  /\ seen429 = 0

(* _refresh_gauges, called with the scheduler in state s, the limiter in l.*)
refresh_gauges(m, s, l) ==
  [m EXCEPT !.queue_depth = s.pending,
            !.active_jobs = Cardinality(s.keys),
            !.concurrency_limit = l.limit]

(* The top of the worker loop, reached with the limiter in state l.        *)
LoopMetrics(m, l) ==
  IF ~CanAcquire(l) THEN m
  ELSE IF PopReturnsNone(sched) THEN [m EXCEPT !.inflight = l.in_use]
  ELSE [m EXCEPT !.queue_depth = Popped(sched).pending,
                 !.inflight = l.in_use + 1]

CountPrompt(m, ok, exhausted) ==
  [m EXCEPT !.prompts_completed = @ + 1,
            !.prompts_succeeded = IF ok THEN @ + 1 ELSE @,
            !.prompts_failed    = IF ok THEN @ ELSE @ + 1,
            !.retries_exhausted = IF exhausted THEN @ + 1 ELSE @]

(* Mutant: a job is counted as completed when its last answer arrives,     *)
(* although it was cancelled.                                              *)
FinalizedByCount(m, j, l) ==
  IF jobs'[j].completed = jobs[j].total
  THEN refresh_gauges([m EXCEPT !.jobs_completed = @ + 1], sched, l)
  ELSE m

(* The last prompt: the job is finalized and the gauges are refreshed,     *)
(* before the worker pops again.                                           *)
Finalized(m, j, l) ==
  IF jobs'[j].state # jobs[j].state
  THEN refresh_gauges([m EXCEPT !.jobs_completed = @ + 1], sched, l)
  ELSE m

(* The metric calls of Process(w, ok).                                     *)
ProcessMetrics(w, ok, exhausted) ==
  LET l == IF ok THEN record_success(lim) ELSE lim
      m == IF stage[w] = "skip" THEN metrics
           ELSE Finalized(CountPrompt(metrics, ok, exhausted), item[w].job, l)
  IN  LoopMetrics([m EXCEPT !.inflight = lim.in_use - 1], Released(l))

-----------------------------------------------------------------------------
SubmitCounted(j) ==
  /\ submit_batch(j) \/ replay_endpoint(j)
  /\ metrics' = refresh_gauges([metrics EXCEPT !.jobs_submitted = @ + 1],
                               sched', lim)
  /\ UNCHANGED <<retries, seen429>>

CancelCounted(j) ==
  /\ cancel_job(j)
  /\ metrics' = refresh_gauges([metrics EXCEPT !.jobs_cancelled = @ + 1],
                               sched', lim)
  /\ UNCHANGED <<retries, seen429>>

StartCounted(w) ==
  /\ Start(w)
  /\ metrics' = LoopMetrics(metrics, lim)
  /\ UNCHANGED <<retries, seen429>>

ResumeCounted(w) ==
  /\ Resume(w)
  /\ metrics' = LoopMetrics(metrics, Dequeued(lim, w))
  /\ UNCHANGED <<retries, seen429>>

SucceedsCounted(w) ==
  /\ Succeeds(w)
  /\ metrics' = ProcessMetrics(w, TRUE, FALSE)
  /\ UNCHANGED <<retries, seen429>>

(* exhausted: the exception is a RateLimitError, raised because no retry   *)
(* is left.                                                                *)
FailsCounted(w, exhausted) ==
  /\ exhausted => stage[w] = "calling" /\ attempt[w] > MaxRetries
  /\ Fails(w)
  /\ metrics' = ProcessMetrics(w, FALSE, exhausted)
  /\ seen429' = IF exhausted THEN seen429 + 1 ELSE seen429
  /\ UNCHANGED retries

(* _on_retry.                                                              *)
RateLimitedCounted(w) ==
  /\ RateLimited(w)
  /\ metrics' = [metrics EXCEPT !.inference_retries = @ + 1,
                                !.inference_rate_limited = @ + 1,
                                !.concurrency_limit = lim'.limit]
  /\ retries' = [retries EXCEPT ![item[w].job] = @ + 1]
  /\ seen429' = seen429 + 1

(* Mutant: a cancelled worker gives its permit back and tells nobody.      *)
UnwindCountedSilently(w) == Unwind(w) /\ UNCHANGED metricVars

UnwindCounted(w) ==
  /\ Unwind(w)
  /\ metrics' = IF w \in holders THEN [metrics EXCEPT !.inflight = lim'.in_use]
                ELSE metrics
  /\ UNCHANGED <<retries, seen429>>

(* A shutdown finalizes jobs as cancelled without counting them.           *)
Uncounted ==
  /\ \/ \E w \in Workers : BackoffElapsed(w)
     \/ BeginShutdown
     \/ ShutdownStep
     \/ Exited
  /\ UNCHANGED metricVars

MetricsNext ==
  \/ \E j \in Jobs : SubmitCounted(j) \/ CancelCounted(j)
  \/ \E w \in Workers :
       \/ StartCounted(w) \/ ResumeCounted(w)
       \/ SucceedsCounted(w) \/ RateLimitedCounted(w) \/ UnwindCounted(w)
       \/ \E exhausted \in BOOLEAN : FailsCounted(w, exhausted)
  \/ Uncounted

MetricsSpec == MetricsInit /\ [][MetricsNext]_allVars

-----------------------------------------------------------------------------
JobsIn(states) == Cardinality({j \in Jobs : jobs[j].state \in states})

(* The answers that the jobs hold, each with its prompt.                   *)
StoredAnswers == {a \in Jobs \X Seqs : jobs[a[1]].results[a[2]] # "none"}

(***************************************************************************)
(* The gauges that the worker loop sets are exact whenever the event loop  *)
(* is free: inference_inflight is the number of permits in use, also after *)
(* a worker was cancelled, and scheduler_queue_depth, on which             *)
(* QueueSaturation is alerted, the number of queued prompts, although      *)
(* pops, submits, cancels and a completion in the middle of a step all     *)
(* set it.                                                                 *)
(***************************************************************************)
HotGaugesExact ==
  /\ metrics.inflight = lim.in_use
  /\ metrics.queue_depth = sched.pending

(***************************************************************************)
(* The counters add up, whatever the order of answers and cancels.  Every  *)
(* job that was accepted is counted once more, as completed or cancelled,  *)
(* or still runs (until a shutdown, which cancels without counting).  The  *)
(* prompts are the answers that the jobs hold, those that came after a     *)
(* cancel included.  However the backoffs of its workers overlap, a job    *)
(* never has more retries than MAX_RETRIES for each prompt that was        *)
(* started, and a prompt counts as exhausted only after using up its own.  *)
(***************************************************************************)
CountersAddUp ==
  /\ metrics.jobs_completed = JobsIn({"completed"})
  /\ phase # "down" =>
       metrics.jobs_submitted = metrics.jobs_completed + metrics.jobs_cancelled
                                + JobsIn({"running"})
  /\ metrics.prompts_completed = Cardinality(StoredAnswers)
  /\ metrics.prompts_completed = metrics.prompts_succeeded + metrics.prompts_failed
  /\ \A j \in Jobs : phase \in {"up", "draining"} =>
       retries[j] <= MaxRetries * Cardinality(Done(j) \cup InFlight(j))
  /\ MaxRetries * metrics.retries_exhausted <= metrics.inference_retries

(***************************************************************************)
(* "Gauges: live system state." (app/metrics.py:166): "Jobs currently in   *)
(* the scheduler." (line 170) and "Current adaptive concurrency limit."    *)
(* (line 173), on which ConcurrencyCollapsed is alerted                    *)
(* (docs/operations.md:61).                                                *)
(***************************************************************************)
GaugesAreLive ==
  /\ metrics.active_jobs = Cardinality(sched.keys)
  /\ metrics.concurrency_limit = lim.limit

(***************************************************************************)
(* "every observed 429 multiplicatively shrinks the allowed concurrency"   *)
(* (app/ratelimit.py:10) and "Total HTTP 429 responses observed."          *)
(* (app/metrics.py:152): _on_retry, which does both, is called for each of *)
(* them.                                                                   *)
(***************************************************************************)
EveryThrottleCounted == metrics.inference_rate_limited = seen429

=============================================================================
