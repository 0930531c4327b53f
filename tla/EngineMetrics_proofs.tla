------------------------ MODULE EngineMetrics_proofs ------------------------
(***************************************************************************)
(* The metrics that the engine sets by hand, for any numbers of jobs,      *)
(* prompts, workers and retries: the gauges of the worker loop are exact,  *)
(* the others err on one side only (GaugesFor), and the counters add up.   *)
(*                                                                         *)
(* The counters of jobs and prompts follow the engine's state step by      *)
(* step.  The bounds on retries do not: they need to know how many retries *)
(* the prompts that are in flight have used so far (Spent).                *)
(***************************************************************************)
EXTENDS EngineMetrics, BatchEngine_proofs

Counters ==
  {"jobs_submitted", "jobs_completed", "jobs_cancelled", "prompts_completed",
   "prompts_succeeded", "prompts_failed", "inference_retries",
   "inference_rate_limited", "retries_exhausted"}

Gauges == {"queue_depth", "active_jobs", "inflight", "concurrency_limit"}

Registers == [Counters \cup Gauges -> Nat]

(* The jobs of scheduler s that have queued prompts.                       *)
Busy(s) == {j \in Jobs : s.items[j] # <<>>}

(* What the gauges of m promise, with scheduler s and limiter l.           *)
GaugesFor(m, s, l) ==
  /\ m.inflight = l.in_use
  /\ m.queue_depth = s.pending
  /\ m.active_jobs >= Cardinality(Busy(s))
  /\ m.concurrency_limit <= l.limit

(* The counters of jobs and prompts.                                       *)
CountersFollow ==
  /\ metrics.jobs_completed = JobsIn({"completed"})
  /\ phase # "down" =>
       metrics.jobs_submitted = metrics.jobs_completed + metrics.jobs_cancelled
                                + JobsIn({"running"})
  /\ metrics.prompts_completed = Cardinality(StoredAnswers)
  /\ metrics.prompts_completed = metrics.prompts_succeeded + metrics.prompts_failed

(* The retries that worker w has used for the prompt it holds.             *)
Spent(w) == IF stage[w] = "backoff" THEN attempt[w] ELSE attempt[w] - 1

(* The retries that the prompts of job j may have used: all of them when   *)
(* the prompt has its answer, those spent so far when a worker holds it.   *)
UsedRetries(j) ==
  {u \in Seqs \X (1..MaxRetries) :
     \/ u[1] \in Done(j)
     \/ \E w \in Workers : item[w] = [job |-> j, seq |-> u[1]] /\ u[2] <= Spent(w)}

(* The retries that the workers have spent on the prompts they hold.       *)
SpentNow ==
  {u \in Workers \X (1..MaxRetries) : item[u[1]] # NoItem /\ u[2] <= Spent(u[1])}

RetriesFollow ==
  /\ MaxRetries * metrics.retries_exhausted <= metrics.inference_retries
  /\ Serving =>
       /\ \A w \in Workers : stage[w] \in {"calling", "backoff"} => attempt[w] >= 1
       /\ \A j \in Jobs : retries[j] <= Cardinality(UsedRetries(j))
       /\ MaxRetries * metrics.retries_exhausted + Cardinality(SpentNow)
            <= metrics.inference_retries

MetricsInv ==
  /\ EngineInv
  /\ metrics \in Registers /\ retries \in [Jobs -> Nat]
  /\ GaugesFor(metrics, sched, lim)
  /\ CountersFollow
  /\ RetriesFollow

-----------------------------------------------------------------------------
(* The metric calls.                                                       *)

(* A refresh sets three gauges.                                            *)
LEMMA RefreshFields ==
  ASSUME NEW m \in Registers, NEW s, NEW l, s.pending \in Nat,
         Cardinality(s.keys) \in Nat, l.limit \in Nat
  PROVE  LET r == refresh_gauges(m, s, l)
         IN  /\ r \in Registers /\ \A c \in Counters : r[c] = m[c]
             /\ r.queue_depth = s.pending /\ r.active_jobs = Cardinality(s.keys)
             /\ r.concurrency_limit = l.limit /\ r.inflight = m.inflight
BY DEF refresh_gauges, Registers, Counters, Gauges

(* One more answer.                                                        *)
LEMMA CountFields ==
  ASSUME NEW m \in Registers, NEW ok \in BOOLEAN, NEW exhausted \in BOOLEAN
  PROVE  LET r == CountPrompt(m, ok, exhausted)
         IN  /\ r \in Registers /\ \A g \in Gauges : r[g] = m[g]
             /\ \A c \in {"jobs_submitted", "jobs_completed", "jobs_cancelled",
                          "inference_retries", "inference_rate_limited"} :
                  r[c] = m[c]
             /\ r.prompts_completed = m.prompts_completed + 1
             /\ r.prompts_succeeded + r.prompts_failed
                  = m.prompts_succeeded + m.prompts_failed + 1
             /\ r.retries_exhausted = IF exhausted THEN m.retries_exhausted + 1
                                      ELSE m.retries_exhausted
<1> DEFINE su == IF ok THEN m.prompts_succeeded + 1 ELSE m.prompts_succeeded
           fa == IF ok THEN m.prompts_failed ELSE m.prompts_failed + 1
           ex == IF exhausted THEN m.retries_exhausted + 1 ELSE m.retries_exhausted
           co == m.prompts_completed + 1
           m1 == [m EXCEPT !["prompts_completed"] = co]
           m2 == [m1 EXCEPT !["prompts_succeeded"] = su]
           m3 == [m2 EXCEPT !["prompts_failed"] = fa]
           m4 == [m3 EXCEPT !["retries_exhausted"] = ex]
           r == CountPrompt(m, ok, exhausted)
<1>1. /\ su \in Nat /\ fa \in Nat /\ ex \in Nat /\ co \in Nat
      /\ su + fa = m.prompts_succeeded + m.prompts_failed + 1
  BY DEF Registers, Counters
<1>2. r = m4
  BY DEF CountPrompt, Registers, Counters
<1> HIDE DEF su, fa, ex, co, r
<1>3. m1 \in Registers
  BY <1>1 DEF Registers
<1>4. m2 \in Registers
  BY <1>1, <1>3 DEF Registers
<1>5. m3 \in Registers
  BY <1>1, <1>4 DEF Registers
<1>6. m4 \in Registers
  BY <1>1, <1>5 DEF Registers
<1>7. /\ m4["prompts_completed"] = co /\ m4["prompts_succeeded"] = su
      /\ m4["prompts_failed"] = fa /\ m4["retries_exhausted"] = ex
      /\ \A c \in (Counters \cup Gauges) \ {"prompts_completed",
              "prompts_succeeded", "prompts_failed", "retries_exhausted"} :
           m4[c] = m[c]
  BY DEF Registers, Counters, Gauges
<1> HIDE DEF m4
<1> QED BY <1>1, <1>2, <1>6, <1>7 DEF Counters, Gauges, r, co, ex

(* The top of the loop sets two gauges, if it gets as far as that.         *)
LEMMA LoopFields ==
  ASSUME NEW m \in Registers, NEW l, l.in_use \in Nat,
         Popped(sched).pending \in Nat
  PROVE  LET r == LoopMetrics(m, l)
         IN  /\ r \in Registers /\ \A c \in Counters : r[c] = m[c]
             /\ r.active_jobs = m.active_jobs
             /\ r.concurrency_limit = m.concurrency_limit
             /\ ~CanAcquire(l) => /\ r.inflight = m.inflight
                                  /\ r.queue_depth = m.queue_depth
             /\ CanAcquire(l) /\ PopReturnsNone(sched) =>
                  r.inflight = l.in_use /\ r.queue_depth = m.queue_depth
             /\ CanAcquire(l) /\ ~PopReturnsNone(sched) =>
                  /\ r.inflight = l.in_use + 1
                  /\ r.queue_depth = Popped(sched).pending
<1>1. CASE ~CanAcquire(l)
  BY <1>1 DEF LoopMetrics
<1>2. CASE CanAcquire(l) /\ PopReturnsNone(sched)
  BY <1>2 DEF LoopMetrics, Registers, Counters, Gauges
<1>3. CASE CanAcquire(l) /\ ~PopReturnsNone(sched)
  <2> DEFINE d == Popped(sched).pending
             n == l.in_use + 1
             r == [m EXCEPT !.queue_depth = d, !.inflight = n]
  <2>1. LoopMetrics(m, l) = r /\ d \in Nat /\ n \in Nat
    BY <1>3 DEF LoopMetrics
  <2> HIDE DEF d, n
  <2>2. /\ r \in Registers /\ \A c \in Counters : r[c] = m[c]
        /\ r.active_jobs = m.active_jobs
        /\ r.concurrency_limit = m.concurrency_limit
        /\ r.inflight = n /\ r.queue_depth = d
    BY <2>1 DEF Registers, Counters, Gauges
  <2> HIDE DEF r
  <2> QED BY <1>3, <2>1, <2>2 DEF d, n
<1> QED BY <1>1, <1>2, <1>3

-----------------------------------------------------------------------------
(* The numbers of the limiter.                                             *)

(* notify() wakes a task and changes no number.                            *)
LEMMA ReleasedNumbers ==
  ASSUME NEW l \in LimiterState
  PROVE  Released(l).in_use = l.in_use - 1 /\ Released(l).limit = l.limit
<1> DEFINE m == [l EXCEPT !.in_use = @ - 1]
<1>1. /\ DOMAIN m = {"limit", "in_use", "streak", "waiters", "woken"}
      /\ m.in_use = l.in_use - 1 /\ m.limit = l.limit
  BY DEF LimiterState
<1>2. Released(l) = Notified(m)
  BY DEF Released
<1> HIDE DEF m
<1>3. Notified(m).in_use = m.in_use /\ Notified(m).limit = m.limit
  BY <1>1 DEF Notified
<1> QED BY <1>1, <1>2, <1>3

(* The top of the loop leaves the limit alone and holds at most one permit *)
(* more.                                                                   *)
LEMMA LoopNumbers ==
  ASSUME NEW w \in Workers, NEW l \in LimiterState, NEW work \in BOOLEAN,
         LimLoop(w, l, work)
  PROVE  /\ lim'.limit = l.limit
         /\ lim'.in_use = IF CanAcquire(l) /\ work THEN l.in_use + 1 ELSE l.in_use
<1>1. l.in_use \in Nat
  BY DEF LimiterState
<1>2. CASE ~CanAcquire(l)
  BY <1>2 DEF LimLoop, Enqueued, LimiterState
<1>3. CASE CanAcquire(l)
  <2> DEFINE m == Acquired(l)
  <2>1. m \in LimiterState /\ m.in_use = l.in_use + 1 /\ m.limit = l.limit
    BY DEF Acquired, LimiterState
  <2>2. lim' = IF work THEN m ELSE Released(m)
    BY <1>3 DEF LimLoop
  <2> HIDE DEF m
  <2> QED BY <1>1, <1>3, <2>1, <2>2, ReleasedNumbers
<1> QED BY <1>2, <1>3

(* record_success raises the limit or leaves it.                           *)
LEMMA SuccessNumbers ==
  ASSUME LimInv, NEW ok \in BOOLEAN
  PROVE  LET l == IF ok THEN record_success(lim) ELSE lim
         IN  /\ l \in LimiterState /\ l.in_use = lim.in_use
             /\ l.limit >= lim.limit /\ l.limit \in Nat
BY LimInvParts, SuccessFacts

-----------------------------------------------------------------------------
(* The gauges.                                                             *)

(* The jobs with queued prompts are in the dict, and they can be counted.  *)
LEMMA BusyFacts ==
  ASSUME NEW s, SchedOK(s)
  PROVE  /\ s.pending \in Nat /\ Cardinality(s.keys) \in Nat
         /\ Cardinality(Busy(s)) \in Nat
         /\ Cardinality(Busy(s)) <= Cardinality(s.keys)
<1>1. /\ s.keys \in SUBSET Jobs /\ s.pending \in Nat
      /\ Busy(s) \in SUBSET s.keys /\ Busy(s) \in SUBSET Jobs
  BY DEF SchedOK, SchedulerState, Formed, Busy
<1>2. IsFiniteSet(s.keys)
  BY <1>1, JobSets
<1> QED BY <1>1, <1>2, JobSets, FS_Subset

(* pop() makes no job busy.                                                *)
LEMMA PopNumbers ==
  ASSUME NEW s, SchedOK(s), Exact(s)
  PROVE  /\ SchedOK(Popped(s)) /\ Popped(s).pending \in Nat
         /\ PopReturnsNone(s) => Popped(s).pending = s.pending
         /\ Cardinality(Busy(Popped(s))) <= Cardinality(Busy(s))
<1>1. /\ SchedOK(Popped(s)) /\ Busy(Popped(s)) \in SUBSET Busy(s)
      /\ PopReturnsNone(s) => Popped(s).pending = s.pending
  <2>1. CASE PopReturnsNone(s)
    BY <2>1, PopNothing DEF Busy
  <2>2. CASE ~PopReturnsNone(s)
    BY <2>2, PopOne DEF Busy
  <2> QED BY <2>1, <2>2
<1>2. IsFiniteSet(Busy(s))
  <2>1. Busy(s) \in SUBSET Jobs
    BY DEF Busy
  <2> QED BY <2>1, JobSets
<1> QED BY <1>1, <1>2, BusyFacts, FS_Subset

(* A refresh makes all gauges right, but for inflight.                     *)
LEMMA RefreshGauges ==
  ASSUME NEW m \in Registers, NEW s, SchedOK(s), NEW l, l.limit \in Nat,
         m.inflight = l.in_use
  PROVE  /\ refresh_gauges(m, s, l) \in Registers
         /\ GaugesFor(refresh_gauges(m, s, l), s, l)
         /\ \A c \in Counters : refresh_gauges(m, s, l)[c] = m[c]
<1> DEFINE r == refresh_gauges(m, s, l)
<1>1. /\ r \in Registers /\ \A c \in Counters : r[c] = m[c]
      /\ r.queue_depth = s.pending /\ r.active_jobs = Cardinality(s.keys)
      /\ r.concurrency_limit = l.limit /\ r.inflight = m.inflight
  BY BusyFacts, RefreshFields
<1> HIDE DEF r
<1> QED BY <1>1, BusyFacts DEF GaugesFor, r

(* The top of the worker loop, with registers m that are right when it is  *)
(* reached.                                                                *)
LEMMA LoopGauges ==
  ASSUME EngineInv, NEW w \in Workers, NEW l \in LimiterState, NEW js,
         NEW m \in Registers, GaugesFor(m, sched, l), worker_loop(w, l, js),
         metrics' = LoopMetrics(m, l)
  PROVE  /\ metrics' \in Registers /\ \A c \in Counters : metrics'[c] = m[c]
         /\ GaugesFor(metrics', sched', lim')
<1>1. SchedOK(sched) /\ Exact(sched) /\ l.in_use \in Nat /\ l.limit \in Nat
  BY InvTypes, Bounds DEF LimiterState
<1>2. /\ SchedOK(Popped(sched)) /\ Popped(sched).pending \in Nat
      /\ PopReturnsNone(sched) => Popped(sched).pending = sched.pending
      /\ Cardinality(Busy(Popped(sched))) <= Cardinality(Busy(sched))
  BY <1>1, PopNumbers
<1>3. /\ sched' = IF CanAcquire(l) THEN Popped(sched) ELSE sched
      /\ LimLoop(w, l, ~PopReturnsNone(sched))
  BY DEF worker_loop
<1>4. /\ lim'.limit = l.limit
      /\ lim'.in_use = IF CanAcquire(l) /\ ~PopReturnsNone(sched)
                       THEN l.in_use + 1 ELSE l.in_use
  BY <1>3, LoopNumbers
<1>5. /\ metrics' \in Registers /\ \A c \in Counters : metrics'[c] = m[c]
      /\ metrics'.active_jobs = m.active_jobs
      /\ metrics'.concurrency_limit = m.concurrency_limit
      /\ ~CanAcquire(l) => /\ metrics'.inflight = m.inflight
                           /\ metrics'.queue_depth = m.queue_depth
      /\ CanAcquire(l) /\ PopReturnsNone(sched) =>
           metrics'.inflight = l.in_use /\ metrics'.queue_depth = m.queue_depth
      /\ CanAcquire(l) /\ ~PopReturnsNone(sched) =>
           /\ metrics'.inflight = l.in_use + 1
           /\ metrics'.queue_depth = Popped(sched).pending
  BY <1>1, <1>2, LoopFields
<1>6. /\ Cardinality(Busy(sched')) <= Cardinality(Busy(sched))
      /\ Cardinality(Busy(sched)) \in Nat /\ Cardinality(Busy(sched')) \in Nat
  BY <1>1, <1>2, <1>3, BusyFacts
<1>7. m.active_jobs \in Nat /\ m.concurrency_limit \in Nat
  BY DEF Registers, Gauges
<1>8. metrics'.active_jobs >= Cardinality(Busy(sched'))
  BY <1>5, <1>6, <1>7 DEF GaugesFor
<1>9. metrics'.queue_depth = sched'.pending /\ metrics'.inflight = lim'.in_use
  BY <1>2, <1>3, <1>4, <1>5 DEF GaugesFor
<1> QED BY <1>4, <1>5, <1>8, <1>9 DEF GaugesFor

-----------------------------------------------------------------------------
(* The numbers of jobs and answers.                                        *)

(* They are numbers.                                                       *)
LEMMA CountTypes ==
  /\ JobsIn({"running"}) \in Nat /\ JobsIn({"completed"}) \in Nat
  /\ IsFiniteSet(StoredAnswers) /\ Cardinality(StoredAnswers) \in Nat
<1>1. IsFiniteSet(Jobs \X Seqs)
  <2>1. IsFiniteSet(Seqs)
    BY Countable
  <2> QED BY <2>1, SchedulerAssumption, FS_Product
<1>2. StoredAnswers \in SUBSET (Jobs \X Seqs)
  BY DEF StoredAnswers
<1>3. IsFiniteSet(StoredAnswers) /\ Cardinality(StoredAnswers) \in Nat
  BY <1>1, <1>2, FS_Subset, FS_CardinalityType
<1> QED BY <1>3, JobSets DEF JobsIn

(* A job is accepted: one more runs, and it has no answers.                *)
LEMMA AcceptedCount ==
  ASSUME EngineInv, NEW j \in Jobs, jobs[j].state = "none",
         jobs'[j].state = "running", \A x \in Seqs : jobs'[j].results[x] = "none",
         \A k \in Jobs \ {j} : jobs'[k] = jobs[k]
  PROVE  /\ JobsIn({"running"})' = JobsIn({"running"}) + 1
         /\ JobsIn({"completed"})' = JobsIn({"completed"})
         /\ StoredAnswers' = StoredAnswers
<1> DEFINE R == {k \in Jobs : jobs[k].state \in {"running"}}
<1>1. {k \in Jobs : jobs'[k].state \in {"running"}} = R \cup {j} /\ j \notin R
  OBVIOUS
<1>2. Cardinality(R \cup {j}) = Cardinality(R) + 1
  <2>1. IsFiniteSet(R)
    BY JobSets
  <2> HIDE DEF R
  <2> QED BY <1>1, <2>1, FS_AddElement
<1>3. {k \in Jobs : jobs'[k].state \in {"completed"}}
        = {k \in Jobs : jobs[k].state \in {"completed"}}
  OBVIOUS
<1>4. \A x \in Seqs : jobs[j].results[x] = "none"
  <2>1. DoneIn(jobs[j]) \subseteq 0..(jobs[j].total - 1) /\ jobs[j].total = 0
    BY InvTypes DEF JobOK
  <2> QED BY <2>1 DEF DoneIn
<1>5. StoredAnswers' = StoredAnswers
  BY <1>4 DEF StoredAnswers
<1> QED BY <1>1, <1>2, <1>3, <1>5 DEF JobsIn

(* A running job is cancelled: one less runs, and it keeps its answers.    *)
LEMMA CancelledCount ==
  ASSUME EngineInv, NEW j \in Jobs, jobs[j].state = "running",
         jobs'[j].state = "cancelled", jobs'[j].results = jobs[j].results,
         \A k \in Jobs \ {j} : jobs'[k] = jobs[k]
  PROVE  /\ JobsIn({"running"})' = JobsIn({"running"}) - 1
         /\ JobsIn({"completed"})' = JobsIn({"completed"})
         /\ StoredAnswers' = StoredAnswers
<1> DEFINE R == {k \in Jobs : jobs[k].state \in {"running"}}
<1>1. {k \in Jobs : jobs'[k].state \in {"running"}} = R \ {j} /\ j \in R
  OBVIOUS
<1>2. Cardinality(R \ {j}) = Cardinality(R) - 1
  <2>1. IsFiniteSet(R)
    BY JobSets
  <2> HIDE DEF R
  <2> QED BY <1>1, <2>1, FS_RemoveElement
<1>3. {k \in Jobs : jobs'[k].state \in {"completed"}}
        = {k \in Jobs : jobs[k].state \in {"completed"}}
  OBVIOUS
<1>4. StoredAnswers' = StoredAnswers
  BY DEF StoredAnswers
<1> QED BY <1>1, <1>2, <1>3, <1>4 DEF JobsIn

(* An answer is recorded: one more is stored, and a job completes or none  *)
(* changes its state.                                                      *)
LEMMA RecordedCount ==
  ASSUME EngineInv, NEW w \in Workers, item[w] # NoItem, NEW ok \in BOOLEAN,
         jobs' = Recorded(item[w], ok)
  PROVE  /\ item[w].job \in Jobs
         /\ Cardinality(StoredAnswers)' = Cardinality(StoredAnswers) + 1
         /\ jobs'[item[w].job].state # jobs[item[w].job].state =>
              /\ JobsIn({"running"})' = JobsIn({"running"}) - 1
              /\ JobsIn({"completed"})' = JobsIn({"completed"}) + 1
         /\ jobs'[item[w].job].state = jobs[item[w].job].state =>
              /\ JobsIn({"running"})' = JobsIn({"running"})
              /\ JobsIn({"completed"})' = JobsIn({"completed"})
<1> DEFINE j == item[w].job
           x == item[w].seq
<1>1. /\ j \in Jobs /\ x \in Seqs /\ jobs[j].results[x] = "none"
      /\ jobs'[j] = After(jobs[j], x, ok)
      /\ \A k \in Jobs \ {j} : jobs'[k] = jobs[k]
      /\ \A t \in Seqs \ {x} : jobs'[j].results[t] = jobs[j].results[t]
      /\ \/ jobs'[j].state = jobs[j].state
         \/ jobs[j].state = "running" /\ jobs'[j].state = "completed"
  BY AnswerFacts
<1>2. jobs'[j].results[x] # "none"
  <2>1. jobs[j] \in JobRecord
    BY <1>1, InvTypes
  <2>2. After(jobs[j], x, ok).results[x] = IF ok THEN "ok" ELSE "error"
    <3> HIDE DEF j, x
    <3> QED BY <1>1, <2>1, AfterFields
  <2> QED BY <1>1, <2>2
<1> HIDE DEF j, x
<1>3. Cardinality(StoredAnswers)' = Cardinality(StoredAnswers) + 1
  <2>1. StoredAnswers' = StoredAnswers \cup {<<j, x>>} /\ <<j, x>> \notin StoredAnswers
    BY <1>1, <1>2 DEF StoredAnswers
  <2> QED BY <2>1, CountTypes, FS_AddElement
<1> DEFINE R == {k \in Jobs : jobs[k].state \in {"running"}}
           C == {k \in Jobs : jobs[k].state \in {"completed"}}
<1>4. IsFiniteSet(R) /\ IsFiniteSet(C)
  BY JobSets
<1>5. ASSUME jobs'[j].state # jobs[j].state
      PROVE  /\ JobsIn({"running"})' = JobsIn({"running"}) - 1
             /\ JobsIn({"completed"})' = JobsIn({"completed"}) + 1
  <2>1. /\ {k \in Jobs : jobs'[k].state \in {"running"}} = R \ {j} /\ j \in R
        /\ {k \in Jobs : jobs'[k].state \in {"completed"}} = C \cup {j} /\ j \notin C
    BY <1>1, <1>5
  <2>2. /\ JobsIn({"running"}) = Cardinality(R) /\ JobsIn({"completed"}) = Cardinality(C)
        /\ JobsIn({"running"})' = Cardinality(R \ {j})
        /\ JobsIn({"completed"})' = Cardinality(C \cup {j})
    BY <2>1 DEF JobsIn
  <2> HIDE DEF R, C
  <2>3. Cardinality(R \ {j}) = Cardinality(R) - 1
    BY <1>4, <2>1, FS_RemoveElement
  <2>4. Cardinality(C \cup {j}) = Cardinality(C) + 1
    BY <1>4, <2>1, FS_AddElement
  <2> QED BY <2>2, <2>3, <2>4
<1>6. ASSUME jobs'[j].state = jobs[j].state
      PROVE  /\ JobsIn({"running"})' = JobsIn({"running"})
             /\ JobsIn({"completed"})' = JobsIn({"completed"})
  <2>1. \A k \in Jobs : jobs'[k].state = jobs[k].state
    BY <1>1, <1>6
  <2> QED BY <2>1 DEF JobsIn
<1> QED BY <1>1, <1>3, <1>5, <1>6 DEF j

-----------------------------------------------------------------------------
(* The retries.                                                            *)

(* They can be counted.                                                    *)
LEMMA RetryTypes ==
  /\ MaxRetries \in Nat /\ IsFiniteSet(1..MaxRetries)
  /\ Cardinality(1..MaxRetries) = MaxRetries
  /\ IsFiniteSet(SpentNow) /\ Cardinality(SpentNow) \in Nat
  /\ \A j \in Jobs : /\ IsFiniteSet(UsedRetries(j))
                     /\ Cardinality(UsedRetries(j)) \in Nat
<1>1. MaxRetries \in Nat
  BY EngineAssumption
<1>2. IsFiniteSet(1..MaxRetries) /\ Cardinality(1..MaxRetries) = MaxRetries
  <2>1. /\ IsFiniteSet(1..MaxRetries)
        /\ Cardinality(1..MaxRetries)
             = IF 1 > MaxRetries THEN 0 ELSE MaxRetries - 1 + 1
    BY <1>1, FS_Interval
  <2> QED BY <1>1, <2>1
<1>3. IsFiniteSet(Seqs) /\ IsFiniteSet(Workers)
  BY Countable, LimiterAssumption
<1>4. /\ IsFiniteSet(Seqs \X (1..MaxRetries))
      /\ IsFiniteSet(Workers \X (1..MaxRetries))
  BY <1>2, <1>3, FS_Product
<1>5. /\ SpentNow \in SUBSET (Workers \X (1..MaxRetries))
      /\ \A j \in Jobs : UsedRetries(j) \in SUBSET (Seqs \X (1..MaxRetries))
  BY DEF SpentNow, UsedRetries
<1> QED BY <1>1, <1>2, <1>4, <1>5, FS_Subset, FS_CardinalityType

(* The prompts that were started bound the retries of their job.           *)
LEMMA UsedBound ==
  ASSUME EngineInv, NEW j \in Jobs
  PROVE  Cardinality(UsedRetries(j))
           <= MaxRetries * Cardinality(Done(j) \cup InFlight(j))
<1> DEFINE S == Done(j) \cup InFlight(j)
<1>1. S \in SUBSET Seqs
  <2>1. \A w \in Workers : item[w].job = j => item[w].seq \in Seqs
    BY InvTypes, NoItemFacts, EngineAssumption DEF WorkItem, NoItem
  <2> QED BY <2>1 DEF Done, InFlight
<1>2. IsFiniteSet(S) /\ Cardinality(S) \in Nat
  BY <1>1, Countable
<1>3. UsedRetries(j) \in SUBSET (S \X (1..MaxRetries))
  <2> SUFFICES ASSUME NEW u \in UsedRetries(j) PROVE u[1] \in S
    BY DEF UsedRetries
  <2>1. \A w \in Workers : item[w] = [job |-> j, seq |-> u[1]] => u[1] \in InFlight(j)
    BY DEF InFlight
  <2> QED BY <2>1 DEF UsedRetries
<1> HIDE DEF S
<1>4. /\ IsFiniteSet(S \X (1..MaxRetries))
      /\ Cardinality(S \X (1..MaxRetries)) = Cardinality(S) * MaxRetries
  BY <1>2, RetryTypes, FS_Product
<1>5. Cardinality(UsedRetries(j)) <= Cardinality(S \X (1..MaxRetries))
  BY <1>3, <1>4, FS_Subset
<1>6. Cardinality(S) * MaxRetries = MaxRetries * Cardinality(S)
  BY <1>2, RetryTypes
<1> QED BY <1>4, <1>5, <1>6 DEF S

(* The retries of a job are not forgotten: a worker keeps the prompt and   *)
(* what it has spent on it, or the prompt has its answer.                  *)
LEMMA UsedGrows ==
  ASSUME NEW j \in Jobs, Done(j) \subseteq Done(j)',
         \A v \in Workers : Spent(v) \in Int /\ Spent(v)' \in Int,
         \A v \in Workers : item[v] # NoItem =>
           \/ item'[v] = item[v] /\ Spent(v)' >= Spent(v)
           \/ item[v].seq \in DoneIn(jobs'[item[v].job])
  PROVE  /\ UsedRetries(j) \subseteq UsedRetries(j)'
         /\ Cardinality(UsedRetries(j)) <= Cardinality(UsedRetries(j))'
<1>1. ASSUME NEW u \in Seqs \X (1..MaxRetries), u \in UsedRetries(j)
      PROVE  u \in UsedRetries(j)'
  <2>1. CASE u[1] \in Done(j)
    BY <2>1 DEF UsedRetries
  <2>2. ASSUME NEW v \in Workers, item[v] = [job |-> j, seq |-> u[1]],
               u[2] <= Spent(v)
        PROVE  u \in UsedRetries(j)'
    <3>1. item[v].job = j /\ item[v].seq = u[1] /\ item[v] # NoItem
      BY <2>2, EngineAssumption DEF NoItem
    <3>2. CASE item[v].seq \in DoneIn(jobs'[item[v].job])
      <4>1. u[1] \in Done(j)'
        BY <3>1, <3>2 DEF Done, DoneIn
      <4> QED BY <4>1 DEF UsedRetries
    <3>3. CASE item'[v] = item[v] /\ Spent(v)' >= Spent(v)
      <4>1. u[2] \in Int /\ u[2] <= Spent(v)'
        BY <2>2, <3>3, EngineAssumption
      <4>2. item'[v] = [job |-> j, seq |-> u[1]]
        BY <2>2, <3>3
      <4> QED BY <4>1, <4>2 DEF UsedRetries
    <3> QED BY <3>1, <3>2, <3>3
  <2> QED BY <1>1, <2>1, <2>2 DEF UsedRetries
<1>2. UsedRetries(j) \subseteq UsedRetries(j)'
  BY <1>1 DEF UsedRetries
<1>3. IsFiniteSet(UsedRetries(j)')
  <2>1. IsFiniteSet(Seqs \X (1..MaxRetries))
    BY Countable, RetryTypes, FS_Product
  <2>2. UsedRetries(j)' \in SUBSET (Seqs \X (1..MaxRetries))
    BY DEF UsedRetries
  <2> QED BY <2>1, <2>2, FS_Subset
<1> QED BY <1>2, <1>3, FS_Subset

(* And so they can be in the next state.                                   *)
LEMMA SpentNat ==
  /\ IsFiniteSet(SpentNow') /\ Cardinality(SpentNow)' \in Nat
  /\ \A j \in Jobs : IsFiniteSet(UsedRetries(j)') /\ Cardinality(UsedRetries(j))' \in Nat
<1>1. IsFiniteSet(Seqs) /\ IsFiniteSet(Workers) /\ IsFiniteSet(1..MaxRetries)
  BY Countable, LimiterAssumption, RetryTypes
<1>2. /\ IsFiniteSet(Seqs \X (1..MaxRetries))
      /\ IsFiniteSet(Workers \X (1..MaxRetries))
  BY <1>1, FS_Product
<1>3. /\ SpentNow' \in SUBSET (Workers \X (1..MaxRetries))
      /\ \A j \in Jobs : UsedRetries(j)' \in SUBSET (Seqs \X (1..MaxRetries))
  BY DEF SpentNow, UsedRetries
<1> QED BY <1>2, <1>3, FS_Subset, FS_CardinalityType

(* The numbers stay numbers.                                               *)
LEMMA SpentTypes ==
  ASSUME EngineInv
  PROVE  /\ MaxRetries \in Nat
         /\ \A v \in Workers : attempt[v] \in 0..(MaxRetries + 1) /\ Spent(v) \in Int
BY InvTypes, RetryTypes DEF Spent

(***************************************************************************)
(* The top of the loop, for a worker whose prompt, if it had one, has its  *)
(* answer: what it had spent is history, and it has spent nothing on the   *)
(* next prompt.                                                            *)
(***************************************************************************)
LEMMA LoopRetries ==
  ASSUME MetricsInv, EngineInv', Serving, NEW w \in Workers, NEW l, NEW js,
         worker_loop(w, l, js), \A j \in Jobs : Done(j) \subseteq Done(j)',
         item[w] # NoItem => item[w].seq \in DoneIn(jobs'[item[w].job])
  PROVE  /\ \A v \in Workers : stage'[v] \in {"calling", "backoff"} => attempt'[v] >= 1
         /\ \A j \in Jobs : Cardinality(UsedRetries(j)) <= Cardinality(UsedRetries(j))'
         /\ SpentNow' \subseteq SpentNow \ ({w} \X (1..MaxRetries))
<1>1. EngineInv /\ stage \in [Workers -> Stage] /\ attempt \in [Workers -> 0..(MaxRetries + 1)]
      /\ item \in [Workers -> WorkItem \cup {NoItem}]
  BY InvTypes DEF MetricsInv
<1>2. /\ \A v \in Workers \ {w} : /\ stage'[v] = stage[v] /\ item'[v] = item[v]
                                  /\ attempt'[v] = attempt[v]
      /\ \/ stage'[w] = "calling" /\ attempt'[w] = 1
         \/ stage'[w] \notin {"calling", "backoff"} /\ attempt'[w] = 0
  BY <1>1 DEF worker_loop
<1>3. /\ Spent(w)' <= 0
      /\ \A v \in Workers \ {w} : Spent(v)' = Spent(v)
  BY <1>2 DEF Spent
<1>4. \A v \in Workers : stage'[v] \in {"calling", "backoff"} => attempt'[v] >= 1
  BY <1>2 DEF MetricsInv, RetriesFollow
<1>5. \A v \in Workers : Spent(v) \in Int /\ Spent(v)' \in Int
  <2>1. \A v \in Workers : Spent(v) \in Int
    BY <1>1, SpentTypes
  <2> QED BY <1>2, <1>3, <2>1 DEF Spent
<1>6. \A j \in Jobs : Cardinality(UsedRetries(j)) <= Cardinality(UsedRetries(j))'
  <2>1. \A v \in Workers : item[v] # NoItem =>
           \/ item'[v] = item[v] /\ Spent(v)' >= Spent(v)
           \/ item[v].seq \in DoneIn(jobs'[item[v].job])
    BY <1>2, <1>3, <1>5
  <2> QED BY <1>5, <2>1, UsedGrows
<1>7. ASSUME NEW u \in Workers \X (1..MaxRetries), item'[u[1]] # NoItem,
             u[2] <= Spent(u[1])'
      PROVE  u \in SpentNow \ ({w} \X (1..MaxRetries))
  <2>1. u[2] \in Nat /\ u[2] >= 1 /\ u[1] \in Workers
    BY <1>7, EngineAssumption
  <2>2. u[1] # w
    BY <1>3, <1>5, <1>7, <2>1
  <2>3. item[u[1]] # NoItem /\ u[2] <= Spent(u[1])
    BY <1>2, <1>3, <1>7, <2>1, <2>2
  <2> QED BY <1>7, <2>2, <2>3 DEF SpentNow
<1>8. SpentNow' \subseteq SpentNow \ ({w} \X (1..MaxRetries))
  BY <1>7 DEF SpentNow
<1> QED BY <1>4, <1>6, <1>8

-----------------------------------------------------------------------------
(* The steps.                                                              *)

(* A step with its metric calls is a step of the engine.                   *)
LEMMA MetricsStep ==
  ASSUME MetricsNext \/ UNCHANGED allVars
  PROVE  [Next]_engineVars
<1>1. CASE UNCHANGED allVars
  BY <1>1 DEF allVars, engineVars
<1>2. CASE \E j \in Jobs : SubmitCounted(j) \/ CancelCounted(j)
  BY <1>2 DEF SubmitCounted, CancelCounted, Next, Client
<1>3. ASSUME NEW w \in Workers,
             \/ StartCounted(w) \/ ResumeCounted(w)
             \/ SucceedsCounted(w) \/ RateLimitedCounted(w) \/ UnwindCounted(w)
             \/ \E exhausted \in BOOLEAN : FailsCounted(w, exhausted)
      PROVE  Next
  <2>1. WorkerStep(w)
    BY <1>3 DEF StartCounted, ResumeCounted, SucceedsCounted, WorkerStep,
                RateLimitedCounted, UnwindCounted, FailsCounted
  <2> QED BY <2>1 DEF Next
<1>4. CASE Uncounted
  <2>1. CASE \E w \in Workers : BackoffElapsed(w)
    BY <2>1 DEF Next, WorkerStep
  <2> QED BY <1>4, <2>1 DEF Uncounted, Next
<1> QED BY <1>1, <1>2, <1>3, <1>4 DEF MetricsNext

(* So the engine's invariant is kept and no answer is withdrawn.           *)
LEMMA MetricsIsEngine ==
  ASSUME EngineInv, MetricsNext \/ UNCHANGED allVars
  PROVE  EngineInv' /\ \A j \in Jobs : Done(j) \subseteq Done(j)'
<1>1. [Next]_engineVars
  BY MetricsStep
<1>2. EngineInv' /\ (jobs' = jobs \/ Accepts \/ Records \/ Cancels)
  BY <1>1, EngineInductive
<1>3. ASSUME NEW j \in Jobs, NEW s \in Done(j) PROVE s \in Done(j)'
  <2>1. jobs'[j].results[s] = jobs[j].results[s]
    BY <1>2, FinalStep
  <2> QED BY <2>1 DEF Done
<1> QED BY <1>2, <1>3

(* The counters of jobs and prompts stay right when nothing they count     *)
(* happens.                                                                *)
LEMMA QuietCounters ==
  ASSUME CountersFollow, jobs' = jobs, phase' # "down" => phase # "down",
         \A c \in {"jobs_submitted", "jobs_completed", "jobs_cancelled",
                   "prompts_completed", "prompts_succeeded", "prompts_failed"} :
           metrics'[c] = metrics[c]
  PROVE  CountersFollow'
BY DEF CountersFollow, JobsIn, StoredAnswers

(* So do the bounds on retries when no worker takes or leaves a prompt.    *)
LEMMA QuietRetries ==
  ASSUME MetricsInv, EngineInv', \A j \in Jobs : Done(j) \subseteq Done(j)',
         Serving' => Serving, item' = item, retries' = retries,
         \A w \in Workers : Spent(w)' = Spent(w),
         \A w \in Workers : stage'[w] \in {"calling", "backoff"} => attempt'[w] >= 1,
         metrics'.retries_exhausted = metrics.retries_exhausted,
         metrics'.inference_retries = metrics.inference_retries
  PROVE  RetriesFollow'
<1>1. CASE ~Serving'
  BY <1>1 DEF MetricsInv, RetriesFollow
<1>2. CASE Serving'
  <2>1. SpentNow' = SpentNow
    BY DEF SpentNow
  <2>2. \A v \in Workers : Spent(v) \in Int
    BY SpentTypes DEF MetricsInv
  <2>3. \A j \in Jobs : Cardinality(UsedRetries(j)) <= Cardinality(UsedRetries(j))'
    BY <2>2, UsedGrows
  <2>4. \A j \in Jobs : /\ Cardinality(UsedRetries(j)) \in Nat /\ retries[j] \in Nat
                        /\ retries[j] <= Cardinality(UsedRetries(j))
    BY <1>2, RetryTypes DEF MetricsInv, RetriesFollow
  <2>5. \A j \in Jobs : Cardinality(UsedRetries(j))' \in Nat
    BY SpentNat
  <2>6. \A j \in Jobs : retries'[j] <= Cardinality(UsedRetries(j))'
    BY <2>3, <2>4, <2>5
  <2> QED BY <1>2, <2>1, <2>6 DEF MetricsInv, RetriesFollow
<1> QED BY <1>1, <1>2

(* The scheduler after a step.                                             *)
LEMMA NextSched ==
  ASSUME EngineInv' PROVE SchedOK(sched') /\ sched'.pending \in Nat
<1>1. SchedOK(sched')
  BY DEF EngineInv, JobsInv, PromptsOK
<1> QED BY <1>1, BusyFacts

(* The registers after one of the handlers counted and refreshed.          *)
LEMMA HandlerFields ==
  ASSUME MetricsInv, EngineInv', lim' = lim,
         NEW c \in {"jobs_submitted", "jobs_cancelled"},
         NEW m \in Registers, m = [metrics EXCEPT ![c] = @ + 1],
         metrics' = refresh_gauges(m, sched', lim)
  PROVE  /\ metrics' \in Registers /\ GaugesFor(metrics', sched', lim')
         /\ metrics'[c] = metrics[c] + 1
         /\ \A d \in Counters \ {c} : metrics'[d] = metrics[d]
<1>1. SchedOK(sched') /\ lim.limit \in Nat
  <2>1. SchedOK(sched')
    BY NextSched
  <2> QED BY <2>1, LimInvParts, Bounds DEF MetricsInv, EngineInv, LinkInv
<1>2. /\ m.inflight = metrics.inflight /\ m[c] = metrics[c] + 1
      /\ \A d \in Counters \ {c} : m[d] = metrics[d]
  BY DEF MetricsInv, Registers, Counters, Gauges
<1>3. m.inflight = lim.in_use
  BY <1>2 DEF MetricsInv, GaugesFor
<1> HIDE DEF MetricsInv
<1>4. /\ refresh_gauges(m, sched', lim) \in Registers
      /\ GaugesFor(refresh_gauges(m, sched', lim), sched', lim)
      /\ \A d \in Counters : refresh_gauges(m, sched', lim)[d] = m[d]
  <2> DEFINE s == sched'
             l == lim
  <2>1. SchedOK(s) /\ l.limit \in Nat /\ m \in Registers /\ m.inflight = l.in_use
    BY <1>1, <1>3
  <2> HIDE DEF s, l
  <2>2. /\ refresh_gauges(m, s, l) \in Registers
        /\ GaugesFor(refresh_gauges(m, s, l), s, l)
        /\ \A d \in Counters : refresh_gauges(m, s, l)[d] = m[d]
    BY ONLY <2>1, RefreshGauges
  <2> QED BY <2>2 DEF s, l
<1> QED BY <1>2, <1>4 DEF Counters

(* One more in a counter of the registers.                                 *)
LEMMA OneMore ==
  ASSUME NEW m \in Registers, NEW c \in Counters
  PROVE  [m EXCEPT ![c] = @ + 1] \in Registers
BY DEF Registers

(* A batch is accepted, a new one or a replay.                             *)
LEMMA SubmitMeasured ==
  ASSUME MetricsInv, EngineInv', \A j \in Jobs : Done(j) \subseteq Done(j)',
         NEW i \in Jobs, SubmitCounted(i)
  PROVE  MetricsInv'
<1>1. PICK n, p, k : submit(i, n, p, k)
  BY DEF SubmitCounted, submit_batch, replay_endpoint, replay_failed
<1>2. /\ jobs[i].state = "none" /\ phase' = phase /\ item' = item
      /\ attempt' = attempt /\ lim' = lim
      /\ jobs' = [jobs EXCEPT ![i] = NewJob(n, p, k, "running")]
      /\ ensure_workers(sched'.pending)
  BY <1>1 DEF submit, create
<1>3. EngineInv /\ jobs \in [Jobs -> JobRecord] /\ stage \in [Workers -> Stage]
  BY InvTypes DEF MetricsInv
<1>4. /\ jobs'[i].state = "running" /\ \A x \in Seqs : jobs'[i].results[x] = "none"
      /\ \A j \in Jobs \ {i} : jobs'[j] = jobs[j]
  BY <1>2, <1>3 DEF NewJob, NoResults
<1>5. /\ JobsIn({"running"})' = JobsIn({"running"}) + 1
      /\ JobsIn({"completed"})' = JobsIn({"completed"})
      /\ StoredAnswers' = StoredAnswers
  BY <1>2, <1>3, <1>4, AcceptedCount
<1> DEFINE m == [metrics EXCEPT !["jobs_submitted"] = @ + 1]
<1>6. /\ metrics' \in Registers /\ GaugesFor(metrics', sched', lim')
      /\ metrics'["jobs_submitted"] = metrics["jobs_submitted"] + 1
      /\ \A d \in Counters \ {"jobs_submitted"} : metrics'[d] = metrics[d]
  <2>1. m \in Registers
    BY OneMore DEF MetricsInv, Counters
  <2>2. metrics' = refresh_gauges(m, sched', lim)
    BY DEF SubmitCounted
  <2> HIDE DEF m
  <2>3. m = [metrics EXCEPT !["jobs_submitted"] = @ + 1]
    BY DEF m
  <2> QED BY <1>2, <2>1, <2>2, <2>3, HandlerFields
<1> HIDE DEF m
<1>7. CountersFollow'
  <2>1. /\ metrics'.jobs_submitted = metrics.jobs_submitted + 1
        /\ metrics'.jobs_completed = metrics.jobs_completed
        /\ metrics'.jobs_cancelled = metrics.jobs_cancelled
        /\ metrics'.prompts_completed = metrics.prompts_completed
        /\ metrics'.prompts_succeeded = metrics.prompts_succeeded
        /\ metrics'.prompts_failed = metrics.prompts_failed
    BY <1>6 DEF Counters
  <2>2. /\ metrics.jobs_completed \in Nat /\ metrics.jobs_cancelled \in Nat
        /\ metrics.jobs_submitted \in Nat
    BY DEF MetricsInv, Registers, Counters
  <2>3. /\ metrics'.jobs_completed = JobsIn({"completed"})'
        /\ metrics'.prompts_completed = Cardinality(StoredAnswers)'
        /\ metrics'.prompts_completed
             = metrics'.prompts_succeeded + metrics'.prompts_failed
    BY <1>5, <2>1 DEF MetricsInv, CountersFollow
  <2>4. phase' # "down" =>
          metrics'.jobs_submitted = metrics'.jobs_completed
                                    + metrics'.jobs_cancelled + JobsIn({"running"})'
    BY <1>2, <1>5, <2>1, <2>2, CountTypes DEF MetricsInv, CountersFollow
  <2> QED BY <2>3, <2>4 DEF CountersFollow
<1>8. RetriesFollow'
  <2>1. sched'.pending \in Nat /\ Cardinality(Live) <= PoolSize
    <3>1. sched'.pending \in Nat
      BY NextSched
    <3> QED BY <1>3, <3>1 DEF EngineInv, JobsInv, LoadOK, PoolFollowsQueue
  <2>2. \A w \in Workers : \/ stage'[w] = stage[w]
                           \/ stage[w] = "off" /\ stage'[w] = "new"
    BY <1>2, <1>3, <2>1, EnsureFacts
  <2>3. \A w \in Workers : Spent(w)' = Spent(w)
    BY <1>2, <2>2 DEF Spent
  <2>4. phase = "up" /\ Serving
    BY <1>1, AcceptedFacts DEF submit, Serving
  <2>5. \A w \in Workers : stage'[w] \in {"calling", "backoff"} => attempt'[w] >= 1
    BY <1>2, <2>2, <2>4 DEF MetricsInv, RetriesFollow
  <2>6. /\ metrics'.retries_exhausted = metrics.retries_exhausted
        /\ metrics'.inference_retries = metrics.inference_retries
    BY <1>6 DEF Counters
  <2> QED BY <1>2, <2>3, <2>4, <2>5, <2>6, QuietRetries DEF SubmitCounted
<1>9. retries' = retries
  BY DEF SubmitCounted
<1> QED BY <1>6, <1>7, <1>8, <1>9 DEF MetricsInv

(* A job is cancelled.                                                     *)
LEMMA CancelMeasured ==
  ASSUME MetricsInv, EngineInv', \A j \in Jobs : Done(j) \subseteq Done(j)',
         NEW i \in Jobs, CancelCounted(i)
  PROVE  MetricsInv'
<1>1. /\ jobs[i].state = "running" /\ phase' = phase /\ item' = item
      /\ attempt' = attempt /\ lim' = lim /\ stage' = stage
      /\ jobs' = [jobs EXCEPT ![i].state = "cancelled"]
  BY DEF CancelCounted, cancel_job, cancel
<1>2. EngineInv /\ jobs \in [Jobs -> JobRecord] /\ jobs[i] \in JobRecord
  BY InvTypes DEF MetricsInv
<1>4. /\ jobs'[i].state = "cancelled" /\ jobs'[i].results = jobs[i].results
      /\ \A j \in Jobs \ {i} : jobs'[j] = jobs[j]
  BY <1>1, <1>2 DEF JobRecord
<1>5. /\ JobsIn({"running"})' = JobsIn({"running"}) - 1
      /\ JobsIn({"completed"})' = JobsIn({"completed"})
      /\ StoredAnswers' = StoredAnswers
  BY <1>1, <1>2, <1>4, CancelledCount
<1> DEFINE m == [metrics EXCEPT !["jobs_cancelled"] = @ + 1]
<1>6. /\ metrics' \in Registers /\ GaugesFor(metrics', sched', lim')
      /\ metrics'["jobs_cancelled"] = metrics["jobs_cancelled"] + 1
      /\ \A d \in Counters \ {"jobs_cancelled"} : metrics'[d] = metrics[d]
  <2>1. m \in Registers
    BY OneMore DEF MetricsInv, Counters
  <2>2. metrics' = refresh_gauges(m, sched', lim)
    BY DEF CancelCounted
  <2> HIDE DEF m
  <2>3. m = [metrics EXCEPT !["jobs_cancelled"] = @ + 1]
    BY DEF m
  <2> QED BY <1>1, <2>1, <2>2, <2>3, HandlerFields
<1> HIDE DEF m
<1>7. CountersFollow'
  <2>1. /\ metrics'.jobs_cancelled = metrics.jobs_cancelled + 1
        /\ metrics'.jobs_completed = metrics.jobs_completed
        /\ metrics'.jobs_submitted = metrics.jobs_submitted
        /\ metrics'.prompts_completed = metrics.prompts_completed
        /\ metrics'.prompts_succeeded = metrics.prompts_succeeded
        /\ metrics'.prompts_failed = metrics.prompts_failed
    BY <1>6 DEF Counters
  <2>2. /\ metrics.jobs_completed \in Nat /\ metrics.jobs_cancelled \in Nat
        /\ metrics.jobs_submitted \in Nat
    BY DEF MetricsInv, Registers, Counters
  <2>3. /\ metrics'.jobs_completed = JobsIn({"completed"})'
        /\ metrics'.prompts_completed = Cardinality(StoredAnswers)'
        /\ metrics'.prompts_completed
             = metrics'.prompts_succeeded + metrics'.prompts_failed
    BY <1>5, <2>1 DEF MetricsInv, CountersFollow
  <2>4. phase' # "down" =>
          metrics'.jobs_submitted = metrics'.jobs_completed
                                    + metrics'.jobs_cancelled + JobsIn({"running"})'
    BY <1>1, <1>5, <2>1, <2>2, CountTypes DEF MetricsInv, CountersFollow
  <2> QED BY <2>3, <2>4 DEF CountersFollow
<1>8. RetriesFollow'
  <2>1. \A w \in Workers : Spent(w)' = Spent(w)
    BY <1>1 DEF Spent
  <2>2. /\ metrics'.retries_exhausted = metrics.retries_exhausted
        /\ metrics'.inference_retries = metrics.inference_retries
    BY <1>6 DEF Counters
  <2>3. CASE ~Serving
    <3>1. ~Serving'
      BY <1>1, <2>3 DEF Serving
    <3> QED BY <2>2, <3>1 DEF MetricsInv, RetriesFollow
  <2>4. CASE Serving
    <3>1. \A w \in Workers : stage'[w] \in {"calling", "backoff"} => attempt'[w] >= 1
      BY <1>1, <2>4 DEF MetricsInv, RetriesFollow
    <3> QED BY <1>1, <2>1, <2>2, <2>4, <3>1, QuietRetries DEF CancelCounted
  <2> QED BY <2>3, <2>4
<1>9. retries' = retries
  BY DEF CancelCounted
<1> QED BY <1>6, <1>7, <1>8, <1>9 DEF MetricsInv

(***************************************************************************)
(* The bounds on retries, at the top of the loop.  A prompt that counts as *)
(* exhausted has spent all its retries: they leave SpentNow as the counter *)
(* grows.                                                                  *)
(***************************************************************************)
LEMMA LoopFollow ==
  ASSUME MetricsInv, EngineInv', Serving, NEW w \in Workers, NEW l, NEW js,
         worker_loop(w, l, js), \A j \in Jobs : Done(j) \subseteq Done(j)',
         item[w] # NoItem => item[w].seq \in DoneIn(jobs'[item[w].job]),
         retries' = retries,
         metrics'.inference_retries = metrics.inference_retries,
         \/ metrics'.retries_exhausted = metrics.retries_exhausted
         \/ /\ metrics'.retries_exhausted = metrics.retries_exhausted + 1
            /\ {w} \X (1..MaxRetries) \subseteq SpentNow
  PROVE  RetriesFollow'
<1>1. /\ \A v \in Workers : stage'[v] \in {"calling", "backoff"} => attempt'[v] >= 1
      /\ \A j \in Jobs : Cardinality(UsedRetries(j)) <= Cardinality(UsedRetries(j))'
      /\ SpentNow' \subseteq SpentNow \ ({w} \X (1..MaxRetries))
  BY LoopRetries
<1>2. \A j \in Jobs : retries'[j] <= Cardinality(UsedRetries(j))'
  <2>1. \A j \in Jobs : /\ Cardinality(UsedRetries(j)) \in Nat /\ retries[j] \in Nat
                        /\ retries[j] <= Cardinality(UsedRetries(j))
    BY RetryTypes DEF MetricsInv, RetriesFollow
  <2>2. \A j \in Jobs : Cardinality(UsedRetries(j))' \in Nat
    BY SpentNat
  <2> QED BY <1>1, <2>1, <2>2
<1> DEFINE e == metrics.retries_exhausted
           n == metrics.inference_retries
           c == Cardinality(SpentNow)
           d == Cardinality(SpentNow)'
           used == MaxRetries * e
<1>3. /\ e \in Nat /\ n \in Nat /\ c \in Nat /\ d \in Nat /\ MaxRetries \in Nat
      /\ used \in Nat /\ used + c <= n
  <2>1. e \in Nat /\ n \in Nat
    BY DEF MetricsInv, Registers, Counters
  <2>2. MaxRetries * e + c <= n
    BY DEF MetricsInv, RetriesFollow
  <2> HIDE DEF e, n
  <2> QED BY <2>1, <2>2, RetryTypes, SpentNat
<1>4. /\ MaxRetries * metrics'.retries_exhausted + d <= n
      /\ MaxRetries * metrics'.retries_exhausted <= n
  <2>1. CASE metrics'.retries_exhausted = e
    <3>1. d <= c
      <4>1. SpentNow' \subseteq SpentNow
        BY <1>1
      <4> QED BY <4>1, RetryTypes, FS_Subset
    <3> HIDE DEF e, n, c, d
    <3>2. MaxRetries * metrics'.retries_exhausted = used
      BY <2>1
    <3> HIDE DEF used
    <3> QED BY <1>3, <3>1, <3>2
  <2>2. CASE /\ metrics'.retries_exhausted = e + 1
             /\ {w} \X (1..MaxRetries) \subseteq SpentNow
    <3> DEFINE row == {w} \X (1..MaxRetries)
    <3>1. IsFiniteSet(row) /\ Cardinality(row) = MaxRetries
      <4>1. IsFiniteSet({w}) /\ Cardinality({w}) = 1
        BY FS_Singleton
      <4>2. IsFiniteSet(row) /\ Cardinality(row) = Cardinality({w}) * Cardinality(1..MaxRetries)
        BY <4>1, RetryTypes, FS_Product
      <4> HIDE DEF row
      <4> QED BY <4>1, <4>2, RetryTypes
    <3>2. IsFiniteSet(SpentNow) /\ row \subseteq SpentNow
      BY <2>2, RetryTypes
    <3> HIDE DEF row
    <3>3. /\ IsFiniteSet(SpentNow \ row)
          /\ Cardinality(SpentNow \ row) = c - Cardinality(SpentNow \cap row)
      BY <3>2, FS_Difference
    <3>4. SpentNow \cap row = row
      BY <3>2
    <3>5. d <= Cardinality(SpentNow \ row)
      BY <1>1, <3>3, FS_Subset DEF row
    <3>6. d <= c - MaxRetries
      BY <3>1, <3>3, <3>4, <3>5
    <3>7. MaxRetries * metrics'.retries_exhausted = used + MaxRetries
      <4> HIDE DEF e
      <4> QED BY <1>3, <2>2
    <3> HIDE DEF e, n, c, d, used
    <3> QED BY <1>3, <3>6, <3>7
  <2> QED BY <2>1, <2>2
<1> QED BY <1>1, <1>2, <1>4 DEF RetriesFollow

(* A worker starts, or wakes up in the queue of the limiter.               *)
LEMMA EnterMeasured ==
  ASSUME MetricsInv, EngineInv', \A j \in Jobs : Done(j) \subseteq Done(j)',
         NEW w \in Workers, StartCounted(w) \/ ResumeCounted(w)
  PROVE  MetricsInv'
<1>1. PICK l \in LimiterState :
        /\ stage[w] \in {"new", "waiting"} /\ worker_loop(w, l, jobs)
        /\ metrics' = LoopMetrics(metrics, l)
        /\ l.in_use = lim.in_use /\ l.limit = lim.limit
        /\ UNCHANGED <<retries, phase>>
  <2>1. lim \in LimiterState
    BY LimInvParts DEF MetricsInv, EngineInv, LinkInv
  <2>2. CASE StartCounted(w)
    BY <2>1, <2>2 DEF StartCounted, Start
  <2>3. CASE ResumeCounted(w)
    <3>1. /\ Dequeued(lim, w) \in LimiterState
          /\ Dequeued(lim, w).in_use = lim.in_use
          /\ Dequeued(lim, w).limit = lim.limit
      BY <2>1 DEF Dequeued, LimiterState
    <3> QED BY <2>3, <3>1 DEF ResumeCounted, Resume
  <2> QED BY <2>2, <2>3
<1>2. EngineInv /\ metrics \in Registers /\ jobs' = jobs
  BY <1>1 DEF MetricsInv, worker_loop
<1>3. GaugesFor(metrics, sched, l)
  BY <1>1 DEF MetricsInv, GaugesFor
<1>4. /\ metrics' \in Registers /\ \A c \in Counters : metrics'[c] = metrics[c]
      /\ GaugesFor(metrics', sched', lim')
  BY <1>1, <1>2, <1>3, LoopGauges
<1>5. CountersFollow'
  BY <1>1, <1>2, <1>4, QuietCounters DEF MetricsInv, Counters
<1>6. RetriesFollow'
  <2>1. item[w] = NoItem /\ Serving
    BY <1>1, <1>2, StageItem
  <2>2. /\ metrics'.retries_exhausted = metrics.retries_exhausted
        /\ metrics'.inference_retries = metrics.inference_retries
    BY <1>4 DEF Counters
  <2> QED BY <1>1, <2>1, <2>2, LoopFollow
<1> QED BY <1>1, <1>4, <1>5, <1>6 DEF MetricsInv

(* The last prompt of a job, or not.                                       *)
LEMMA FinalizedFields ==
  ASSUME EngineInv, NEW m \in Registers, NEW j, NEW l, l.limit \in Nat,
         m.queue_depth = sched.pending, m.concurrency_limit <= l.limit,
         m.active_jobs >= Cardinality(Busy(sched))
  PROVE  LET r == Finalized(m, j, l)
         IN  /\ r \in Registers /\ r.queue_depth = sched.pending
             /\ r.concurrency_limit <= l.limit
             /\ r.active_jobs >= Cardinality(Busy(sched))
             /\ r.jobs_completed = IF jobs'[j].state # jobs[j].state
                                   THEN m.jobs_completed + 1 ELSE m.jobs_completed
             /\ \A c \in Counters \ {"jobs_completed"} : r[c] = m[c]
<1> DEFINE r == Finalized(m, j, l)
<1>1. CASE jobs'[j].state = jobs[j].state
  BY <1>1 DEF Finalized
<1>2. CASE jobs'[j].state # jobs[j].state
  <2> DEFINE n == [m EXCEPT !["jobs_completed"] = @ + 1]
             s == sched
             f == refresh_gauges(n, s, l)
  <2>1. /\ n \in Registers /\ n["jobs_completed"] = m["jobs_completed"] + 1
        /\ \A c \in Counters \ {"jobs_completed"} : n[c] = m[c]
    <3>1. n \in Registers
      BY OneMore DEF Counters
    <3> QED BY <3>1 DEF Registers, Counters
  <2>2. SchedOK(s)
    BY InvTypes
  <2>3. r = f
    BY <1>2 DEF Finalized
  <2> HIDE DEF n, s, f, r
  <2>4. /\ Cardinality(s.keys) \in Nat /\ s.pending \in Nat
        /\ Cardinality(Busy(s)) \in Nat /\ Cardinality(Busy(s)) <= Cardinality(s.keys)
    BY ONLY <2>2, BusyFacts
  <2>5. /\ f \in Registers /\ \A c \in Counters : f[c] = n[c]
        /\ f.queue_depth = s.pending /\ f.active_jobs = Cardinality(s.keys)
        /\ f.concurrency_limit = l.limit
    BY <2>1, <2>4, RefreshFields DEF f
  <2>6. /\ \A c \in Counters \ {"jobs_completed"} : f[c] = m[c]
        /\ f["jobs_completed"] = m["jobs_completed"] + 1
    BY <2>1, <2>5 DEF Counters
  <2>7. /\ r \in Registers /\ r.queue_depth = sched.pending
        /\ r.concurrency_limit <= l.limit
        /\ r.active_jobs >= Cardinality(Busy(sched))
        /\ r.jobs_completed = m.jobs_completed + 1
        /\ \A c \in Counters \ {"jobs_completed"} : r[c] = m[c]
    BY <2>3, <2>4, <2>5, <2>6 DEF s
  <2> QED BY <1>2, <2>7 DEF r
<1> QED BY <1>1, <1>2

(* The registers when the loop starts over: the answer is counted, and the *)
(* permit is back.                                                         *)
LEMMA AnswerFields ==
  ASSUME MetricsInv, NEW w \in Workers, w \in holders, NEW ok \in BOOLEAN,
         NEW exhausted \in BOOLEAN
  PROVE  LET l == IF ok THEN record_success(lim) ELSE lim
             f == Finalized(CountPrompt(metrics, ok, exhausted), item[w].job, l)
             m == [f EXCEPT !.inflight = lim.in_use - 1]
             j == item[w].job
         IN  /\ m \in Registers /\ Released(l) \in LimiterState
             /\ GaugesFor(m, sched, Released(l))
             /\ m.jobs_completed = IF jobs'[j].state # jobs[j].state
                                   THEN metrics.jobs_completed + 1
                                   ELSE metrics.jobs_completed
             /\ m.prompts_completed = metrics.prompts_completed + 1
             /\ m.prompts_succeeded + m.prompts_failed
                  = metrics.prompts_succeeded + metrics.prompts_failed + 1
             /\ m.retries_exhausted = IF exhausted THEN metrics.retries_exhausted + 1
                                      ELSE metrics.retries_exhausted
             /\ \A c \in {"jobs_submitted", "jobs_cancelled", "inference_retries",
                          "inference_rate_limited"} : m[c] = metrics[c]
<1> DEFINE l == IF ok THEN record_success(lim) ELSE lim
           j == item[w].job
           n == CountPrompt(metrics, ok, exhausted)
           f == Finalized(n, j, l)
           m == [f EXCEPT !.inflight = lim.in_use - 1]
<1>1. EngineInv /\ LimInv /\ metrics \in Registers /\ GaugesFor(metrics, sched, lim)
  BY DEF MetricsInv, EngineInv, LinkInv
<1>2. /\ l \in LimiterState /\ l.in_use = lim.in_use
      /\ l.limit >= lim.limit /\ l.limit \in Nat
  BY <1>1, SuccessNumbers
<1>3. lim.limit \in Nat /\ lim.in_use \in Nat /\ lim.in_use > 0
  <2>1. lim.in_use > 0
    BY <1>1, HolderFacts
  <2> QED BY <1>1, <2>1, LimInvParts
<1>4. Released(l) \in LimiterState
  BY <1>1, FinishReady DEF LoopReady
<1>5. /\ n \in Registers /\ \A g \in Gauges : n[g] = metrics[g]
      /\ \A c \in {"jobs_submitted", "jobs_completed", "jobs_cancelled",
                   "inference_retries", "inference_rate_limited"} :
           n[c] = metrics[c]
      /\ n.prompts_completed = metrics.prompts_completed + 1
      /\ n.prompts_succeeded + n.prompts_failed
           = metrics.prompts_succeeded + metrics.prompts_failed + 1
      /\ n.retries_exhausted = IF exhausted THEN metrics.retries_exhausted + 1
                               ELSE metrics.retries_exhausted
  BY <1>1, CountFields
<1> HIDE DEF n, j, l
<1>6. /\ n.queue_depth = sched.pending /\ n.concurrency_limit <= l.limit
      /\ n.active_jobs >= Cardinality(Busy(sched))
  <2>1. /\ n.queue_depth = metrics.queue_depth /\ n.active_jobs = metrics.active_jobs
        /\ n.concurrency_limit = metrics.concurrency_limit
        /\ metrics.concurrency_limit \in Nat
    BY <1>1, <1>5 DEF Gauges, Registers
  <2> QED BY <1>1, <1>2, <1>3, <2>1 DEF GaugesFor
<1>7. /\ f \in Registers /\ f.queue_depth = sched.pending
      /\ f.concurrency_limit <= l.limit
      /\ f.active_jobs >= Cardinality(Busy(sched))
      /\ f.jobs_completed = IF jobs'[j].state # jobs[j].state
                            THEN n.jobs_completed + 1 ELSE n.jobs_completed
      /\ \A c \in Counters \ {"jobs_completed"} : f[c] = n[c]
  BY <1>1, <1>2, <1>5, <1>6, FinalizedFields
<1>8. m = [f EXCEPT !.inflight = lim.in_use - 1]
  BY DEF m
<1> HIDE DEF f, m
<1>9. /\ m \in Registers /\ m.inflight = lim.in_use - 1
      /\ \A c \in (Counters \cup Gauges) \ {"inflight"} : m[c] = f[c]
  BY <1>3, <1>7, <1>8 DEF Registers, Gauges
<1>10. Released(l).in_use = lim.in_use - 1 /\ Released(l).limit = l.limit
  BY <1>2, ReleasedNumbers
<1>11. GaugesFor(m, sched, Released(l))
  BY <1>7, <1>9, <1>10 DEF GaugesFor, Gauges
<1>12. \A c \in Counters \ {"jobs_completed"} : m[c] = n[c]
  BY <1>7, <1>9 DEF Counters
<1>13. m.jobs_completed = IF jobs'[j].state # jobs[j].state
                          THEN metrics.jobs_completed + 1 ELSE metrics.jobs_completed
  BY <1>5, <1>7, <1>9 DEF Counters
<1>14. /\ m.prompts_completed = n.prompts_completed
       /\ m.prompts_succeeded = n.prompts_succeeded
       /\ m.prompts_failed = n.prompts_failed
       /\ m.retries_exhausted = n.retries_exhausted
       /\ \A c \in {"jobs_submitted", "jobs_cancelled", "inference_retries",
                    "inference_rate_limited"} : m[c] = n[c]
  BY <1>12 DEF Counters
<1>15. /\ m \in Registers /\ Released(l) \in LimiterState
       /\ GaugesFor(m, sched, Released(l))
       /\ m.jobs_completed = IF jobs'[j].state # jobs[j].state
                             THEN metrics.jobs_completed + 1
                             ELSE metrics.jobs_completed
       /\ m.prompts_completed = metrics.prompts_completed + 1
       /\ m.prompts_succeeded + m.prompts_failed
            = metrics.prompts_succeeded + metrics.prompts_failed + 1
       /\ m.retries_exhausted = IF exhausted THEN metrics.retries_exhausted + 1
                                ELSE metrics.retries_exhausted
       /\ \A c \in {"jobs_submitted", "jobs_cancelled", "inference_retries",
                    "inference_rate_limited"} : m[c] = metrics[c]
  BY <1>4, <1>5, <1>9, <1>11, <1>13, <1>14
<1> QED BY <1>15 DEF m, f, n, j, l

(* An answer of the provider that is not retried.                          *)
LEMMA AnswerMeasured ==
  ASSUME MetricsInv, EngineInv', \A j \in Jobs : Done(j) \subseteq Done(j)',
         NEW w \in Workers, NEW ok \in BOOLEAN, NEW exhausted \in BOOLEAN,
         stage[w] = "calling", exhausted => attempt[w] > MaxRetries,
         Process(w, ok), metrics' = ProcessMetrics(w, ok, exhausted),
         retries' = retries
  PROVE  MetricsInv'
<1> DEFINE l == IF ok THEN record_success(lim) ELSE lim
           js == Recorded(item[w], ok)
           f == Finalized(CountPrompt(metrics, ok, exhausted), item[w].job, l)
           m == [f EXCEPT !.inflight = lim.in_use - 1]
<1>1. EngineInv /\ item[w] # NoItem /\ Serving /\ w \in holders
  <2>1. EngineInv
    BY DEF MetricsInv
  <2>2. item[w] # NoItem /\ Serving
    BY <2>1, StageItem
  <2> QED BY <2>1, <2>2 DEF EngineInv, JobsInv, WorkersOK
<1>2. /\ worker_loop(w, Released(l), js) /\ jobs' = js /\ phase' = phase
      /\ metrics' = LoopMetrics(m, Released(l))
  BY DEF Process, ProcessMetrics, worker_loop
<1>3. /\ m \in Registers /\ Released(l) \in LimiterState
      /\ GaugesFor(m, sched, Released(l))
      /\ m.jobs_completed = IF jobs'[item[w].job].state # jobs[item[w].job].state
                            THEN metrics.jobs_completed + 1
                            ELSE metrics.jobs_completed
      /\ m.prompts_completed = metrics.prompts_completed + 1
      /\ m.prompts_succeeded + m.prompts_failed
           = metrics.prompts_succeeded + metrics.prompts_failed + 1
      /\ m.retries_exhausted = IF exhausted THEN metrics.retries_exhausted + 1
                               ELSE metrics.retries_exhausted
      /\ \A c \in {"jobs_submitted", "jobs_cancelled", "inference_retries",
                   "inference_rate_limited"} : m[c] = metrics[c]
  BY <1>1, AnswerFields
<1>4. js = Recorded(item[w], ok)
  OBVIOUS
<1> HIDE DEF l, js, f, m
<1>5. /\ metrics' \in Registers /\ \A c \in Counters : metrics'[c] = m[c]
      /\ GaugesFor(metrics', sched', lim')
  BY <1>1, <1>2, <1>3, LoopGauges
<1>6. /\ metrics'.jobs_completed = m.jobs_completed
      /\ metrics'.jobs_submitted = metrics.jobs_submitted
      /\ metrics'.jobs_cancelled = metrics.jobs_cancelled
      /\ metrics'.prompts_completed = m.prompts_completed
      /\ metrics'.prompts_succeeded = m.prompts_succeeded
      /\ metrics'.prompts_failed = m.prompts_failed
      /\ metrics'.inference_retries = metrics.inference_retries
      /\ metrics'.retries_exhausted = m.retries_exhausted
  BY <1>3, <1>5 DEF Counters
<1>7. CountersFollow'
  <2>1. /\ Cardinality(StoredAnswers)' = Cardinality(StoredAnswers) + 1
        /\ jobs'[item[w].job].state # jobs[item[w].job].state =>
             /\ JobsIn({"running"})' = JobsIn({"running"}) - 1
             /\ JobsIn({"completed"})' = JobsIn({"completed"}) + 1
        /\ jobs'[item[w].job].state = jobs[item[w].job].state =>
             /\ JobsIn({"running"})' = JobsIn({"running"})
             /\ JobsIn({"completed"})' = JobsIn({"completed"})
    BY <1>1, <1>2, <1>4, RecordedCount
  <2>2. /\ metrics.jobs_completed \in Nat /\ metrics.jobs_cancelled \in Nat
        /\ metrics.jobs_submitted \in Nat
    BY DEF MetricsInv, Registers, Counters
  <2>3. /\ metrics'.jobs_completed = JobsIn({"completed"})'
        /\ metrics'.prompts_completed = Cardinality(StoredAnswers)'
        /\ metrics'.prompts_completed
             = metrics'.prompts_succeeded + metrics'.prompts_failed
    BY <1>3, <1>6, <2>1 DEF MetricsInv, CountersFollow
  <2>4. phase' # "down" =>
          metrics'.jobs_submitted = metrics'.jobs_completed
                                    + metrics'.jobs_cancelled + JobsIn({"running"})'
    BY <1>2, <1>3, <1>6, <2>1, <2>2, CountTypes DEF MetricsInv, CountersFollow
  <2> QED BY <2>3, <2>4 DEF CountersFollow
<1>8. RetriesFollow'
  <2>1. item[w].seq \in DoneIn(jobs'[item[w].job])
    <3> DEFINE j == item[w].job
               x == item[w].seq
    <3>1. j \in Jobs /\ x \in Seqs /\ jobs'[j] = After(jobs[j], x, ok)
      BY <1>1, <1>2, <1>4, AnswerFacts
    <3>2. jobs[j] \in JobRecord
      BY <1>1, <3>1, InvTypes
    <3> HIDE DEF j, x
    <3>3. After(jobs[j], x, ok).results[x] = IF ok THEN "ok" ELSE "error"
      BY <3>1, <3>2, AfterFields
    <3> QED BY <3>1, <3>3 DEF DoneIn, j, x
  <2>2. \/ metrics'.retries_exhausted = metrics.retries_exhausted
        \/ /\ metrics'.retries_exhausted = metrics.retries_exhausted + 1
           /\ {w} \X (1..MaxRetries) \subseteq SpentNow
    <3>1. CASE ~exhausted
      BY <1>3, <1>6, <3>1
    <3>2. CASE exhausted
      <4>1. attempt[w] \in 0..(MaxRetries + 1) /\ MaxRetries \in Nat
        BY <1>1, SpentTypes
      <4>2. Spent(w) = MaxRetries
        BY <3>2, <4>1 DEF Spent
      <4>3. {w} \X (1..MaxRetries) \subseteq SpentNow
        BY <1>1, <4>1, <4>2 DEF SpentNow
      <4> QED BY <1>3, <1>6, <3>2, <4>3
    <3> QED BY <3>1, <3>2
  <2> QED BY <1>1, <1>2, <1>6, <2>1, <2>2, LoopFollow
<1> QED BY <1>5, <1>7, <1>8 DEF MetricsInv

(* A set that has at most one element more.                                *)
LEMMA AtMostOneMore ==
  ASSUME NEW S, NEW T, NEW b, IsFiniteSet(S), T \subseteq S \cup {b}
  PROVE  Cardinality(T) <= Cardinality(S) + 1
<1> DEFINE U == S \cup {b}
<1>1. /\ IsFiniteSet(U)
      /\ Cardinality(U) = IF b \in S THEN Cardinality(S) ELSE Cardinality(S) + 1
  BY FS_AddElement
<1>2. T \in SUBSET U
  OBVIOUS
<1> HIDE DEF U
<1>3. IsFiniteSet(T) /\ Cardinality(T) <= Cardinality(U)
  BY <1>1, <1>2, FS_Subset
<1>4. Cardinality(S) \in Nat /\ Cardinality(T) \in Nat
  BY <1>3, FS_CardinalityType
<1> QED BY <1>1, <1>3, <1>4

(* One more retry of the prompt that worker w holds.                       *)
LEMMA ThrottleRetries ==
  ASSUME MetricsInv, EngineInv', \A j \in Jobs : Done(j) \subseteq Done(j)',
         NEW w \in Workers, RateLimited(w),
         retries' = [retries EXCEPT ![item[w].job] = @ + 1],
         metrics'.retries_exhausted = metrics.retries_exhausted,
         metrics'.inference_retries = metrics.inference_retries + 1
  PROVE  RetriesFollow' /\ retries' \in [Jobs -> Nat]
<1> DEFINE a == attempt[w]
<1>1. EngineInv /\ item[w] # NoItem /\ Serving /\ stage[w] = "calling"
  <2>1. EngineInv /\ stage[w] = "calling"
    BY DEF MetricsInv, RateLimited
  <2> QED BY <2>1, StageItem
<1>2. /\ item' = item /\ attempt' = attempt /\ jobs' = jobs /\ phase' = phase
      /\ stage' = [stage EXCEPT ![w] = "backoff"] /\ a <= MaxRetries
  BY DEF RateLimited
<1>3. /\ MaxRetries \in Nat /\ \A v \in Workers : Spent(v) \in Int /\ attempt[v] \in Nat
      /\ stage \in [Workers -> Stage]
  BY <1>1, SpentTypes, InvTypes
<1>4. a >= 1 /\ \A v \in Workers : stage[v] \in {"calling", "backoff"} => attempt[v] >= 1
  BY <1>1 DEF MetricsInv, RetriesFollow
<1>5. /\ Spent(w) = a - 1 /\ Spent(w)' = a
      /\ \A v \in Workers \ {w} : Spent(v)' = Spent(v) /\ stage'[v] = stage[v]
  BY <1>1, <1>2, <1>3 DEF Spent
<1>6. item[w] \in WorkItem /\ jobs[item[w].job].results[item[w].seq] = "none"
  <2>1. item[w] \in WorkItem
    BY <1>1, InvTypes
  <2>2. jobs[item[w].job].results[item[w].seq] = "none"
    BY <1>1, AnswerFacts, Zenon
  <2> QED BY <2>1, <2>2
<1>7. PICK i \in Jobs, x \in Seqs :
        item[w] = [job |-> i, seq |-> x] /\ jobs[i].results[x] = "none"
  BY <1>6 DEF WorkItem
<1> DEFINE u == <<x, a>>
<1>8. \A j \in Jobs : /\ UsedRetries(j) \subseteq UsedRetries(j)'
                      /\ Cardinality(UsedRetries(j)) <= Cardinality(UsedRetries(j))'
  <2>1. \A v \in Workers : Spent(v) \in Int /\ Spent(v)' \in Int /\ Spent(v)' >= Spent(v)
    BY <1>3, <1>5
  <2> QED BY <1>2, <2>1, UsedGrows
<1>9. u \in UsedRetries(i)' /\ u \notin UsedRetries(i)
  <2>1. u \in Seqs \X (1..MaxRetries)
    BY <1>2, <1>3, <1>4, <1>7
  <2>2. u \in UsedRetries(i)'
    <3>1. item'[w] = [job |-> i, seq |-> u[1]] /\ u[2] <= Spent(w)'
      BY <1>2, <1>3, <1>5, <1>7
    <3> HIDE DEF u
    <3> QED BY <2>1, <3>1 DEF UsedRetries
  <2>3. u[1] \notin Done(i)
    BY <1>7 DEF Done
  <2>4. ASSUME NEW v \in Workers, item[v] = [job |-> i, seq |-> u[1]], u[2] <= Spent(v)
        PROVE  FALSE
    <3>1. item[v] = item[w]
      BY <1>7, <2>4
    <3>2. v = w
      BY <1>1, <3>1 DEF EngineInv, JobsInv, PromptsOK, ItemsOK
    <3> QED BY <1>3, <1>5, <2>4, <3>2
  <2> QED BY <2>2, <2>3, <2>4 DEF UsedRetries
<1>10. Cardinality(UsedRetries(i))' >= Cardinality(UsedRetries(i)) + 1
  <2> DEFINE S == UsedRetries(i)
             T == UsedRetries(i)'
  <2>1. /\ IsFiniteSet(S) /\ IsFiniteSet(T) /\ u \notin S /\ S \cup {u} \subseteq T
        /\ Cardinality(S) \in Nat /\ Cardinality(T) \in Nat
    BY <1>7, <1>8, <1>9, RetryTypes, SpentNat
  <2> HIDE DEF S, T, u
  <2>2. Cardinality(S \cup {u}) = Cardinality(S) + 1
    BY <2>1, FS_AddElement
  <2>3. Cardinality(S \cup {u}) <= Cardinality(T)
    BY <2>1, FS_Subset
  <2>4. Cardinality(T) >= Cardinality(S) + 1
    BY <2>1, <2>2, <2>3
  <2> QED BY <2>4 DEF S, T
<1>11. retries \in [Jobs -> Nat] /\ \A j \in Jobs : retries[j] <= Cardinality(UsedRetries(j))
  BY <1>1 DEF MetricsInv, RetriesFollow
<1>12. \A j \in Jobs : /\ retries'[j] = IF j = i THEN retries[j] + 1 ELSE retries[j]
                       /\ retries'[j] \in Nat
  BY <1>7, <1>11
<1>13. \A j \in Jobs : retries'[j] <= Cardinality(UsedRetries(j))'
  <2>1. \A j \in Jobs : /\ Cardinality(UsedRetries(j)) \in Nat /\ retries[j] \in Nat
                        /\ Cardinality(UsedRetries(j))' \in Nat
    BY <1>11, RetryTypes, SpentNat
  <2>2. retries'[i] <= Cardinality(UsedRetries(i))'
    BY <1>7, <1>10, <1>11, <1>12, <2>1
  <2>3. ASSUME NEW j \in Jobs, j # i PROVE retries'[j] <= Cardinality(UsedRetries(j))'
    BY <1>8, <1>11, <1>12, <2>1, <2>3
  <2> QED BY <2>2, <2>3
<1>14. Cardinality(SpentNow)' <= Cardinality(SpentNow) + 1
  <2> DEFINE S == SpentNow
             T == SpentNow'
             b == <<w, a>>
  <2>1. T \subseteq S \cup {b}
    <3> SUFFICES ASSUME NEW t \in Workers \X (1..MaxRetries), item[t[1]] # NoItem,
                        t[2] <= Spent(t[1])', t \notin S
                 PROVE  t = b
      BY <1>2 DEF SpentNow
    <3>1. t[1] = w
      BY <1>5 DEF SpentNow
    <3>2. t[2] <= a /\ ~(t[2] <= a - 1) /\ t[2] \in Int
      BY <1>3, <1>5, <3>1 DEF SpentNow
    <3>3. t[2] = a
      BY <1>3, <3>2
    <3> QED BY <3>1, <3>3
  <2>2. IsFiniteSet(S) /\ IsFiniteSet(T) /\ Cardinality(S) \in Nat /\ Cardinality(T) \in Nat
    BY RetryTypes, SpentNat
  <2> HIDE DEF S, T, b
  <2>3. Cardinality(T) <= Cardinality(S) + 1
    BY <2>1, <2>2, AtMostOneMore
  <2> QED BY <2>3 DEF S, T
<1>15. /\ MaxRetries * metrics'.retries_exhausted + Cardinality(SpentNow)'
            <= metrics'.inference_retries
       /\ MaxRetries * metrics'.retries_exhausted <= metrics'.inference_retries
  <2> DEFINE e == MaxRetries * metrics.retries_exhausted
             n == metrics.inference_retries
  <2>1. metrics.retries_exhausted \in Nat /\ n \in Nat
    BY DEF MetricsInv, Registers, Counters
  <2>2. e \in Nat
    BY <1>3, <2>1
  <2>3. e + Cardinality(SpentNow) <= n
    BY <1>1 DEF MetricsInv, RetriesFollow
  <2>4. MaxRetries * metrics'.retries_exhausted = e
    OBVIOUS
  <2> HIDE DEF e
  <2> QED BY <1>14, <2>1, <2>2, <2>3, <2>4, RetryTypes, SpentNat
<1>16. \A v \in Workers : stage'[v] \in {"calling", "backoff"} => attempt'[v] >= 1
  BY <1>2, <1>4, <1>5
<1>17. retries' \in [Jobs -> Nat]
  BY <1>7, <1>11
<1> QED BY <1>13, <1>15, <1>16, <1>17 DEF RetriesFollow

(* A 429 that is retried.                                                  *)
LEMMA ThrottleMeasured ==
  ASSUME MetricsInv, EngineInv', \A j \in Jobs : Done(j) \subseteq Done(j)',
         NEW w \in Workers, RateLimitedCounted(w)
  PROVE  MetricsInv'
<1>1. /\ sched' = sched /\ jobs' = jobs /\ phase' = phase
      /\ lim' = record_throttle(lim) /\ RateLimited(w)
  BY DEF RateLimitedCounted, RateLimited, LimThrottle
<1>2. lim'.in_use = lim.in_use /\ lim'.limit \in Nat
  <2>1. lim \in LimiterState /\ lim' \in LimiterState
    BY DEF MetricsInv, EngineInv, LinkInv, LimInv, LimTypeOK
  <2>2. lim'.in_use = lim.in_use
    BY <1>1, <2>1 DEF record_throttle, LimiterState
  <2>3. lim'.limit \in LimMin..LimMax
    BY <2>1 DEF LimiterState
  <2> QED BY <2>2, <2>3, Bounds
<1> DEFINE g == lim'.limit
           n == metrics.inference_retries + 1
           t == metrics.inference_rate_limited + 1
<1>3. n \in Nat /\ t \in Nat /\ metrics \in Registers
  BY DEF MetricsInv, Registers, Counters
<1>4. metrics' = [metrics EXCEPT !["inference_retries"] = n,
                                 !["inference_rate_limited"] = t,
                                 !["concurrency_limit"] = g]
  BY <1>3 DEF RateLimitedCounted, Registers, Counters
<1> HIDE DEF n, t, g
<1>5. g \in Nat
  BY <1>2 DEF g
<1>6. /\ metrics' \in Registers
      /\ metrics'.inference_retries = n /\ metrics'.concurrency_limit = g
      /\ \A c \in (Counters \cup Gauges) \ {"inference_retries",
            "inference_rate_limited", "concurrency_limit"} : metrics'[c] = metrics[c]
  BY <1>3, <1>4, <1>5 DEF Registers, Counters, Gauges
<1>7. GaugesFor(metrics', sched', lim')
  <2>1. /\ metrics'.inflight = metrics.inflight
        /\ metrics'.queue_depth = metrics.queue_depth
        /\ metrics'.active_jobs = metrics.active_jobs
    BY <1>6 DEF Gauges
  <2> QED BY <1>1, <1>2, <1>5, <1>6, <2>1 DEF MetricsInv, GaugesFor, g
<1>8. CountersFollow'
  <2>1. \A c \in {"jobs_submitted", "jobs_completed", "jobs_cancelled",
                  "prompts_completed", "prompts_succeeded", "prompts_failed"} :
          metrics'[c] = metrics[c]
    BY <1>6 DEF Counters
  <2> QED BY <1>1, <2>1, QuietCounters DEF MetricsInv
<1>9. RetriesFollow' /\ retries' \in [Jobs -> Nat]
  <2>1. /\ metrics'.retries_exhausted = metrics.retries_exhausted
        /\ metrics'.inference_retries = metrics.inference_retries + 1
    BY <1>6 DEF Counters, n
  <2>2. retries' = [retries EXCEPT ![item[w].job] = @ + 1]
    BY DEF RateLimitedCounted
  <2> QED BY <1>1, <2>1, <2>2, ThrottleRetries
<1> QED BY <1>6, <1>7, <1>8, <1>9 DEF MetricsInv

(* Once the workers are cancelled, the retries are history.                *)
LEMMA LateRetries ==
  ASSUME MetricsInv, ~Serving',
         metrics'.retries_exhausted = metrics.retries_exhausted,
         metrics'.inference_retries = metrics.inference_retries
  PROVE  RetriesFollow'
BY DEF MetricsInv, RetriesFollow

(* A cancelled worker unwinds.                                             *)
LEMMA UnwindMeasured ==
  ASSUME MetricsInv, EngineInv', NEW w \in Workers, UnwindCounted(w)
  PROVE  MetricsInv'
<1>1. /\ stage[w] = "cancelled" /\ sched' = sched /\ jobs' = jobs /\ phase' = phase
      /\ retries' = retries
      /\ IF w \in holders THEN LimUnwind(w) ELSE UNCHANGED <<lim, holders>>
      /\ metrics' = IF w \in holders THEN [metrics EXCEPT !.inflight = lim'.in_use]
                    ELSE metrics
  BY DEF UnwindCounted, Unwind
<1>2. EngineInv /\ LimInv /\ metrics \in Registers /\ retries \in [Jobs -> Nat]
      /\ GaugesFor(metrics, sched, lim) /\ CountersFollow
  BY DEF MetricsInv, EngineInv, LinkInv
<1>3. ~Serving'
  BY <1>1, <1>2 DEF EngineInv, JobsInv, WorkersOK, Serving
<1>4. /\ metrics' \in Registers /\ \A c \in Counters : metrics'[c] = metrics[c]
      /\ GaugesFor(metrics', sched', lim')
  <2>1. CASE w \notin holders
    BY <1>1, <1>2, <2>1
  <2>2. CASE w \in holders
    <3>1. lim \in LimiterState /\ lim' = Released(lim) /\ lim.in_use \in Nat
      BY <1>1, <1>2, <2>2, LimInvParts DEF LimUnwind
    <3>2. lim.in_use > 0
      BY <1>2, <2>2, HolderFacts
    <3>3. lim'.in_use = lim.in_use - 1 /\ lim'.limit = lim.limit
      BY <3>1, ReleasedNumbers
    <3> DEFINE n == lim'.in_use
    <3>4. n \in Nat /\ metrics' = [metrics EXCEPT !.inflight = n]
      BY <1>1, <2>2, <3>1, <3>2, <3>3
    <3> HIDE DEF n
    <3>5. /\ metrics' \in Registers /\ metrics'.inflight = n
          /\ \A c \in (Counters \cup Gauges) \ {"inflight"} : metrics'[c] = metrics[c]
      BY <1>2, <3>4 DEF Registers, Counters, Gauges
    <3>6. /\ metrics'.queue_depth = metrics.queue_depth
          /\ metrics'.active_jobs = metrics.active_jobs
          /\ metrics'.concurrency_limit = metrics.concurrency_limit
          /\ \A c \in Counters : metrics'[c] = metrics[c]
      BY <3>5 DEF Gauges, Counters
    <3> QED BY <1>1, <1>2, <3>3, <3>5, <3>6 DEF GaugesFor, n
  <2> QED BY <2>1, <2>2
<1>5. CountersFollow'
  BY <1>1, <1>2, <1>4, QuietCounters DEF Counters
<1>6. RetriesFollow'
  BY <1>3, <1>4, LateRetries DEF Counters
<1> QED BY <1>1, <1>2, <1>4, <1>5, <1>6 DEF MetricsInv

(* The steps that make no metric call.                                     *)
LEMMA UncountedMeasured ==
  ASSUME MetricsInv, EngineInv', \A j \in Jobs : Done(j) \subseteq Done(j)',
         Uncounted \/ UNCHANGED allVars
  PROVE  MetricsInv'
<1>1. metrics' = metrics /\ retries' = retries
  BY DEF Uncounted, metricVars, allVars
<1>2. EngineInv /\ LimInv /\ metrics \in Registers /\ retries \in [Jobs -> Nat]
      /\ GaugesFor(metrics, sched, lim) /\ CountersFollow
  BY DEF MetricsInv, EngineInv, LinkInv
<1>3. ASSUME GaugesFor(metrics, sched', lim'), CountersFollow', RetriesFollow'
      PROVE  MetricsInv'
  BY <1>1, <1>2, <1>3 DEF MetricsInv
<1>4. ASSUME sched' = sched, lim' = lim, jobs' = jobs, item' = item,
             Serving' => Serving, phase' # "down" => phase # "down",
             \A w \in Workers : Spent(w)' = Spent(w),
             Serving' => \A w \in Workers :
               stage'[w] \in {"calling", "backoff"} => attempt'[w] >= 1
      PROVE  MetricsInv'
  <2>1. CountersFollow'
    BY <1>1, <1>2, <1>4, QuietCounters
  <2>2. RetriesFollow'
    <3>1. CASE ~Serving'
      BY <1>1, <3>1, LateRetries
    <3>2. CASE Serving'
      BY <1>1, <1>4, <3>2, QuietRetries
    <3> QED BY <3>1, <3>2
  <2> QED BY <1>2, <1>3, <1>4, <2>1, <2>2
<1>5. ASSUME NEW w \in Workers, BackoffElapsed(w)
      PROVE  MetricsInv'
  <2>1. /\ stage[w] = "backoff" /\ stage' = [stage EXCEPT ![w] = "calling"]
        /\ attempt' = [attempt EXCEPT ![w] = @ + 1]
        /\ sched' = sched /\ lim' = lim /\ jobs' = jobs /\ item' = item /\ phase' = phase
    BY <1>5 DEF BackoffElapsed
  <2>2. Serving /\ stage \in [Workers -> Stage]
        /\ attempt \in [Workers -> 0..(MaxRetries + 1)] /\ MaxRetries \in Nat
    BY <1>2, <2>1, StageItem, InvTypes, RetryTypes
  <2>3. \A v \in Workers : stage[v] \in {"calling", "backoff"} => attempt[v] >= 1
    BY <2>2 DEF MetricsInv, RetriesFollow
  <2>4. /\ stage'[w] = "calling" /\ attempt'[w] = attempt[w] + 1
        /\ \A v \in Workers \ {w} : stage'[v] = stage[v] /\ attempt'[v] = attempt[v]
        /\ \A v \in Workers : attempt[v] \in Nat
    BY <2>1, <2>2
  <2>5. \A v \in Workers : Spent(v)' = Spent(v)
    BY <2>1, <2>4 DEF Spent
  <2>6. \A v \in Workers : stage'[v] \in {"calling", "backoff"} => attempt'[v] >= 1
    BY <2>1, <2>3, <2>4
  <2> QED BY <1>4, <2>1, <2>2, <2>5, <2>6
<1>6. CASE BeginShutdown \/ Exited \/ UNCHANGED allVars
  <2>1. /\ sched' = sched /\ lim' = lim /\ jobs' = jobs /\ item' = item
        /\ stage' = stage /\ attempt' = attempt
        /\ phase' = phase \/ (phase = "up" /\ phase' = "draining")
    BY <1>6 DEF BeginShutdown, Exited, engineVars, allVars
  <2>2. /\ Serving' => Serving
        /\ phase' # "down" => phase # "down"
        /\ \A w \in Workers : Spent(w)' = Spent(w)
    BY <2>1 DEF Serving, Spent
  <2>3. Serving' => \A w \in Workers :
          stage'[w] \in {"calling", "backoff"} => attempt'[w] >= 1
    BY <2>1, <2>2 DEF MetricsInv, RetriesFollow
  <2> QED BY <1>4, <2>1, <2>2, <2>3
<1>7. CASE GraceExpires
  <2>1. /\ sched' = sched /\ jobs' = jobs /\ phase = "draining" /\ phase' = "cancelling"
        /\ lim' = [lim EXCEPT !.waiters = <<>>, !.woken = {}]
    BY <1>7 DEF GraceExpires, LimCancel
  <2>2. lim'.in_use = lim.in_use /\ lim'.limit = lim.limit
    <3>1. lim \in LimiterState
      BY <1>2, LimInvParts
    <3> QED BY <2>1, <3>1 DEF LimiterState
  <2>3. GaugesFor(metrics, sched', lim')
    BY <1>2, <2>1, <2>2 DEF GaugesFor
  <2>4. CountersFollow'
    BY <1>1, <1>2, <2>1, QuietCounters
  <2>5. RetriesFollow'
    BY <1>1, <2>1, LateRetries DEF Serving
  <2> QED BY <1>3, <2>3, <2>4, <2>5
<1>8. CASE FinishShutdown
  <2>1. /\ sched' = sched /\ lim' = lim /\ phase' = "down"
        /\ jobs' = [j \in Jobs |->
                      IF jobs[j].state = "running"
                      THEN [jobs[j] EXCEPT !.state = "cancelled"] ELSE jobs[j]]
    BY <1>8 DEF FinishShutdown
  <2>2. \A j \in Jobs : /\ jobs'[j].results = jobs[j].results
                        /\ jobs'[j].state = "completed" <=> jobs[j].state = "completed"
    <3>1. \A j \in Jobs : jobs[j] \in JobRecord
      BY <1>2, InvTypes
    <3> QED BY <2>1, <3>1 DEF JobRecord
  <2>3. /\ JobsIn({"completed"})' = JobsIn({"completed"})
        /\ StoredAnswers' = StoredAnswers
    BY <2>2 DEF JobsIn, StoredAnswers
  <2>4. CountersFollow'
    BY <1>1, <1>2, <2>1, <2>3 DEF CountersFollow
  <2>5. RetriesFollow'
    BY <1>1, <2>1, LateRetries DEF Serving
  <2>6. GaugesFor(metrics, sched', lim')
    BY <1>2, <2>1
  <2> QED BY <1>3, <2>4, <2>5, <2>6
<1> QED BY <1>5, <1>6, <1>7, <1>8 DEF Uncounted, ShutdownStep

-----------------------------------------------------------------------------
(***************************************************************************)
(* The invariant is inductive: every step of the engine, with the metric   *)
(* calls that the code makes in it, keeps the registry, the retries of the *)
(* jobs and the engine in step.                                            *)
(***************************************************************************)
THEOREM MetricsInductive ==
  MetricsInv /\ [MetricsNext]_allVars => MetricsInv'
<1> SUFFICES ASSUME MetricsInv, MetricsNext \/ UNCHANGED allVars
             PROVE  MetricsInv'
  OBVIOUS
<1>1. EngineInv' /\ \A j \in Jobs : Done(j) \subseteq Done(j)'
  BY MetricsIsEngine DEF MetricsInv
<1>2. ASSUME NEW j \in Jobs, SubmitCounted(j) \/ CancelCounted(j)
      PROVE  MetricsInv'
  BY <1>1, <1>2, SubmitMeasured, CancelMeasured
<1>3. ASSUME NEW w \in Workers, StartCounted(w) \/ ResumeCounted(w)
      PROVE  MetricsInv'
  BY <1>1, <1>3, EnterMeasured
<1>4. ASSUME NEW w \in Workers, SucceedsCounted(w)
      PROVE  MetricsInv'
  BY <1>1, <1>4, AnswerMeasured DEF SucceedsCounted, Succeeds
<1>5. ASSUME NEW w \in Workers, NEW exhausted \in BOOLEAN, FailsCounted(w, exhausted)
      PROVE  MetricsInv'
  <2>1. stage[w] = "calling"
    BY <1>5 DEF FailsCounted, Fails, MetricsInv, EngineInv, JobsInv, WorkersOK
  <2> QED BY <1>1, <1>5, <2>1, AnswerMeasured DEF FailsCounted, Fails
<1>6. ASSUME NEW w \in Workers, RateLimitedCounted(w)
      PROVE  MetricsInv'
  BY <1>1, <1>6, ThrottleMeasured
<1>7. ASSUME NEW w \in Workers, UnwindCounted(w)
      PROVE  MetricsInv'
  BY <1>1, <1>7, UnwindMeasured
<1>8. CASE Uncounted \/ UNCHANGED allVars
  BY <1>1, <1>8, UncountedMeasured
<1> QED BY <1>2, <1>3, <1>4, <1>5, <1>6, <1>7, <1>8 DEF MetricsNext

(* A fresh registry describes a fresh engine.                              *)
LEMMA MetricsStart == MetricsInit => MetricsInv
<1> SUFFICES ASSUME MetricsInit PROVE MetricsInv
  OBVIOUS
<1>1. EngineInv
  BY LinkInit, JobsInit DEF MetricsInit, EngineInv
<1>2. /\ \A j \in Jobs : jobs[j] = NewJob(0, "normal", None, "none")
      /\ \A w \in Workers : stage[w] = "off" /\ item[w] = NoItem
      /\ sched.pending = 0 /\ \A j \in Jobs : sched.items[j] = <<>>
      /\ lim.in_use = 0 /\ lim.limit = StartLimit
      /\ metrics = Registry /\ retries = [j \in Jobs |-> 0]
  BY DEF MetricsInit, Init, SchedInit, LimInit, NewLimiter, EmptyScheduler
<1>3. \A j \in Jobs : jobs[j].state = "none" /\ \A x \in Seqs : jobs[j].results[x] = "none"
  BY <1>2 DEF NewJob, NoResults
<1>4. /\ {j \in Jobs : jobs[j].state \in {"completed"}} = {}
      /\ {j \in Jobs : jobs[j].state \in {"running"}} = {}
      /\ StoredAnswers = {} /\ Busy(sched) = {} /\ SpentNow = {}
  BY <1>2, <1>3 DEF StoredAnswers, Busy, SpentNow
<1>5. /\ JobsIn({"completed"}) = 0 /\ JobsIn({"running"}) = 0
      /\ Cardinality(StoredAnswers) = 0 /\ Cardinality(Busy(sched)) = 0
      /\ Cardinality(SpentNow) = 0
  BY <1>4, FS_EmptySet DEF JobsIn
<1>6. metrics \in Registers /\ retries \in [Jobs -> Nat]
  <2>1. StartLimit \in Nat
    BY Bounds
  <2> HIDE DEF StartLimit
  <2> QED BY <1>2, <2>1 DEF Registry, Registers, Counters, Gauges
<1>7. GaugesFor(metrics, sched, lim)
  <2>1. StartLimit \in Nat
    BY Bounds
  <2> QED BY <1>2, <1>5, <2>1 DEF GaugesFor, Registry
<1>8. CountersFollow
  BY <1>2, <1>5 DEF CountersFollow, Registry
<1>9. RetriesFollow
  <2>1. metrics.retries_exhausted = 0 /\ metrics.inference_retries = 0
    BY <1>2 DEF Registry
  <2>2. MaxRetries * metrics.retries_exhausted = 0
    BY <2>1, RetryTypes
  <2>3. \A j \in Jobs : retries[j] <= Cardinality(UsedRetries(j))
    BY <1>2, RetryTypes
  <2> QED BY <1>2, <1>5, <2>1, <2>2, <2>3 DEF RetriesFollow
<1> QED BY <1>1, <1>6, <1>7, <1>8, <1>9 DEF MetricsInv

(* It holds in every state.                                                *)
THEOREM MetricsInvariant == MetricsSpec => []MetricsInv
<1>1. MetricsInit => MetricsInv
  BY MetricsStart
<1>2. MetricsInv /\ [MetricsNext]_allVars => MetricsInv'
  BY MetricsInductive
<1> QED BY <1>1, <1>2, PTL DEF MetricsSpec

(***************************************************************************)
(* Counting changes nothing: the engine with its metric calls behaves as   *)
(* the engine without them, so every theorem about the engine holds of it. *)
(***************************************************************************)
THEOREM MetricsAreTransparent == MetricsSpec => Spec
<1>1. MetricsInit => Init
  BY DEF MetricsInit
<1>2. [MetricsNext]_allVars => [Next]_engineVars
  BY MetricsStep
<1> QED BY <1>1, <1>2, PTL DEF MetricsSpec, Spec

(***************************************************************************)
(* inflight and queue_depth are exact in every state, whatever the order   *)
(* in which handlers, workers and cancelled workers set them.              *)
(***************************************************************************)
THEOREM HotGaugesAreExact == MetricsSpec => []HotGaugesExact
<1>1. MetricsInv => HotGaugesExact
  BY DEF MetricsInv, GaugesFor, HotGaugesExact
<1> QED BY <1>1, MetricsInvariant, PTL

(***************************************************************************)
(* The counters add up: jobs that were accepted against those that ended   *)
(* and those that run, prompts against the answers that are stored, the    *)
(* retries of a job against the prompts it has started, and exhausted      *)
(* prompts against the retries they used up.                               *)
(***************************************************************************)
THEOREM CountersDoAddUp == MetricsSpec => []CountersAddUp
<1>1. MetricsInv => CountersAddUp
  <2> SUFFICES ASSUME MetricsInv PROVE CountersAddUp
    OBVIOUS
  <2>1. ASSUME NEW j \in Jobs, Serving
        PROVE  retries[j] <= MaxRetries * Cardinality(Done(j) \cup InFlight(j))
    <3> DEFINE n == MaxRetries * Cardinality(Done(j) \cup InFlight(j))
               c == Cardinality(UsedRetries(j))
    <3>1. c <= n
      BY UsedBound DEF MetricsInv
    <3>2. retries[j] \in Nat /\ retries[j] <= c /\ c \in Nat
      BY <2>1, RetryTypes DEF MetricsInv, RetriesFollow
    <3>3. n \in Int
      <4>1. \A w \in Workers : item[w].job = j => item[w].seq \in Seqs
        BY InvTypes, NoItemFacts, EngineAssumption DEF WorkItem, NoItem, MetricsInv
      <4>2. Done(j) \cup InFlight(j) \in SUBSET Seqs
        BY <4>1 DEF Done, InFlight
      <4> QED BY <4>2, Countable, RetryTypes
    <3> HIDE DEF n, c
    <3>4. retries[j] <= n
      BY <3>1, <3>2, <3>3
    <3> QED BY <3>4 DEF n
  <2>2. \A j \in Jobs : phase \in {"up", "draining"} =>
          retries[j] <= MaxRetries * Cardinality(Done(j) \cup InFlight(j))
    BY <2>1 DEF Serving
  <2> QED BY <2>2 DEF MetricsInv, CountersFollow, RetriesFollow, CountersAddUp
<1> QED BY <1>1, MetricsInvariant, PTL

=============================================================================
