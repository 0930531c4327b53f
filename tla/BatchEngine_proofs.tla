------------------------- MODULE BatchEngine_proofs -------------------------
(***************************************************************************)
(* The engine, for any numbers of jobs, prompts, workers, permits and      *)
(* keys.                                                                   *)
(*                                                                         *)
(* First part: it implements the limiter's specification, so the theorems  *)
(* of AdaptiveLimiter_proofs hold in it.  The link is Placed: where a      *)
(* worker is suspended says where the limiter has it.                      *)
(*                                                                         *)
(* Second part: no prompt is lost or run twice, the counters agree with    *)
(* the results, a job completes exactly with its last result, the bounds   *)
(* of backpressure hold, and the jobs obey the contract of JobLifecycle.   *)
(* None of these is inductive.  The strengthening is about one number per  *)
(* job: its prompts are dequeued in order, so with n items left in its     *)
(* queue the prompts from total - n on are queued, and those below are     *)
(* with a worker or have their result.                                     *)
(***************************************************************************)
EXTENDS BatchEngine, AdaptiveLimiter_proofs, FairScheduler_proofs

Holding == {"calling", "backoff", "skip"}

PlacedAs(st, l, h, w) ==
  /\ st # "waiting" <=> Away(l, w)
  /\ w \in h => st \in Holding \cup {"cancelled"}
  /\ st \in Holding => w \in h

Placed ==
  /\ stage \in [Workers -> Stage]
  /\ \A w \in Workers : PlacedAs(stage[w], lim, holders, w)

-----------------------------------------------------------------------------
(* At the end of the top of the loop, the worker is where its stage says,  *)
(* and no other worker was put to sleep or taken out of the queue.         *)
LEMMA LoopPlaces ==
  ASSUME NEW w \in Workers, NEW l, NEW work \in BOOLEAN,
         LoopReady(w, l, holders \ {w}), LimLoop(w, l, work)
  PROVE  /\ \A v \in Workers \ {w} : Away(lim', v) <=> Away(l, v)
         /\ Away(lim', w) <=> CanAcquire(l)
         /\ w \in holders' <=> CanAcquire(l) /\ work
         /\ holders' \ {w} = holders \ {w}
<1> DEFINE h == holders \ {w}
<1>1. /\ l \in LimiterState /\ h \in SUBSET Workers /\ Separate(l, h)
      /\ Away(l, w)
  BY DEF LoopReady, Away
<1>2. CASE ~CanAcquire(l)
  <2> DEFINE q == l.waiters
  <2>1. q \in Seq(Workers) /\ Len(q) \in Nat
    BY <1>1, LenProperties DEF LimiterState
  <2>2. /\ Len(Append(q, w)) = Len(q) + 1
        /\ \A i \in 1..Len(q) : Append(q, w)[i] = q[i]
        /\ Append(q, w)[Len(q) + 1] = w
    BY <2>1, AppendProperties
  <2>3. lim'.waiters = Append(q, w) /\ lim'.woken = l.woken
    BY <1>1, <1>2 DEF LimLoop, Enqueued, LimiterState
  <2>4. \A i \in 1..Len(lim'.waiters) :
           \/ i \in 1..Len(q) /\ lim'.waiters[i] = q[i]
           \/ lim'.waiters[i] = w
    BY <2>1, <2>2, <2>3
  <2>5. \A v \in Workers \ {w} : Away(l, v) => Away(lim', v)
    BY <2>3, <2>4 DEF Away, Sleeping
  <2>6. /\ Len(q) + 1 \in 1..Len(lim'.waiters)
        /\ \A i \in 1..Len(q) : i \in 1..Len(lim'.waiters)
    BY <2>1, <2>2, <2>3
  <2>7. \A v \in Workers : ~Away(l, v) => ~Away(lim', v)
    BY <2>2, <2>3, <2>6 DEF Away, Sleeping
  <2>8. ~Away(lim', w)
    BY <2>2, <2>3, <2>6 DEF Away, Sleeping
  <2> QED BY <1>2, <2>5, <2>7, <2>8 DEF LimLoop
<1>3. CASE CanAcquire(l)
  <2> DEFINE m == Acquired(l)
  <2>1. /\ m \in LimiterState /\ m.in_use = l.in_use + 1
        /\ m.waiters = l.waiters /\ m.woken = l.woken
    BY <1>1 DEF Acquired, LimiterState
  <2>2. \A v \in Workers : Away(m, v) <=> Away(l, v)
    BY <2>1 DEF Away, Sleeping
  <2>3. CASE work
    BY <1>1, <1>3, <2>2, <2>3 DEF LimLoop
  <2>4. CASE ~work
    <3> HIDE DEF m
    <3>1. lim' = Released(m) /\ holders' = h
      BY <1>3, <2>4 DEF LimLoop, m
    <3>2. \A v \in Workers : Away(Released(m), v) <=> Away(m, v)
      <4> DEFINE k == [m EXCEPT !.in_use = @ - 1]
      <4>1. l.in_use \in Nat
        BY <1>1 DEF LimiterState
      <4>2. k \in LimiterState /\ k.waiters = m.waiters /\ k.woken = m.woken
        BY <2>1, <4>1 DEF LimiterState
      <4>3. Separate(k, h)
        BY <1>1, <2>1, <4>2 DEF Separate
      <4>4. Released(m) = Notified(k)
        BY DEF Released
      <4> HIDE DEF k
      <4>5. \A v \in Workers : Away(Notified(k), v) <=> Away(k, v)
        BY <1>1, <4>2, <4>3, NotifiedFacts
      <4>6. \A v \in Workers : Away(k, v) <=> Away(m, v)
        BY <4>2 DEF Away, Sleeping
      <4> QED BY <4>4, <4>5, <4>6
    <3> QED BY <1>1, <1>3, <2>2, <2>4, <3>1, <3>2
  <2> QED BY <2>3, <2>4
<1> QED BY <1>2, <1>3

(***************************************************************************)
(* A worker that runs the top of the loop with the limiter in state l,     *)
(* which is what lim became for the others, keeps Placed.                  *)
(***************************************************************************)
LEMMA WorkerLoopPlaces ==
  ASSUME Placed, NEW w \in Workers, NEW l, NEW js,
         LoopReady(w, l, holders \ {w}),
         \A v \in Workers \ {w} : Away(l, v) <=> Away(lim, v),
         worker_loop(w, l, js)
  PROVE  Placed'
<1> DEFINE work == ~PopReturnsNone(sched)
<1>1. LimLoop(w, l, work) /\ work \in BOOLEAN
  BY DEF worker_loop
<1>2. /\ \A v \in Workers \ {w} : Away(lim', v) <=> Away(l, v)
      /\ Away(lim', w) <=> CanAcquire(l)
      /\ w \in holders' <=> CanAcquire(l) /\ work
      /\ holders' \ {w} = holders \ {w}
  <2> HIDE DEF work
  <2> QED BY <1>1, LoopPlaces
<1>3. PICK next \in Stage :
        /\ stage' = [stage EXCEPT ![w] = next]
        /\ next # "waiting" <=> CanAcquire(l)
        /\ next \in Holding <=> CanAcquire(l) /\ work
        /\ next # "cancelled"
  BY DEF worker_loop, Stage, Holding
<1>4. stage' \in [Workers -> Stage] /\ stage'[w] = next
      /\ \A v \in Workers \ {w} : stage'[v] = stage[v]
  BY <1>3 DEF Placed
<1>5. PlacedAs(stage'[w], lim', holders', w)
  BY <1>2, <1>3, <1>4 DEF PlacedAs
<1>6. ASSUME NEW v \in Workers \ {w}
      PROVE  PlacedAs(stage'[v], lim', holders', v)
  <2>1. PlacedAs(stage[v], lim, holders, v) /\ v # w
    BY DEF Placed
  <2> QED BY <1>2, <1>4, <2>1 DEF PlacedAs
<1> QED BY <1>4, <1>5, <1>6 DEF Placed

(* A worker that is new or done is idle for the limiter.                   *)
LEMMA PlacedIdle ==
  ASSUME Placed, NEW w \in Workers, stage[w] \in {"off", "new"}
  PROVE  Idle(w)
BY DEF Placed, PlacedAs, Holding, Away, Sleeping, Idle

(* A stage change that leaves the limiter alone.                           *)
LEMMA QuietKeepsPlaced ==
  ASSUME Placed, lim' = lim, holders' = holders,
         stage' \in [Workers -> Stage],
         \A w \in Workers : PlacedAs(stage'[w], lim, holders, w)
  PROVE  Placed'
BY DEF Placed, PlacedAs, Away, Sleeping

-----------------------------------------------------------------------------
LinkInv == LimInv /\ Placed

(* Every client step leaves the limiter alone.                             *)
LEMMA ClientLinks ==
  ASSUME LinkInv, Client
  PROVE  UNCHANGED limVars /\ Placed'
<1>1. \/ UNCHANGED <<lim, holders, stage>>
      \/ /\ UNCHANGED <<lim, holders>>
         /\ \E pending : ensure_workers(pending)
  <2>1. ASSUME NEW j \in Jobs, cancel(j)
        PROVE  UNCHANGED <<lim, holders, stage>>
    BY <2>1 DEF cancel
  <2>2. ASSUME NEW j, NEW n, NEW p, NEW k, submit(j, n, p, k)
        PROVE  UNCHANGED <<lim, holders>> /\ \E pending : ensure_workers(pending)
    BY <2>2 DEF submit
  <2> QED BY <2>1, <2>2 DEF Client, submit_batch, replay_endpoint, replay_failed,
                          cancel_job
<1>2. CASE UNCHANGED <<lim, holders, stage>>
  BY <1>2 DEF LinkInv, limVars, Placed, PlacedAs, Away, Sleeping
<1>3. ASSUME UNCHANGED <<lim, holders>>, NEW pending, ensure_workers(pending)
      PROVE  UNCHANGED limVars /\ Placed'
  <2>1. PICK new \in SUBSET (Workers \ Live) :
          stage' = [w \in Workers |-> IF w \in new THEN "new" ELSE stage[w]]
    BY <1>3 DEF ensure_workers
  <2>2. stage' \in [Workers -> Stage]
    BY <2>1 DEF LinkInv, Placed, Stage
  <2>3. \A w \in Workers : PlacedAs(stage'[w], lim, holders, w)
    BY <2>1 DEF LinkInv, Placed, PlacedAs, Live, Holding
  <2> QED BY <1>3, <2>2, <2>3, QuietKeepsPlaced DEF LinkInv, limVars
<1> QED BY <1>1, <1>2, <1>3

(* Every step of a worker is a step of the limiter or leaves it alone.     *)
LEMMA WorkerLinks ==
  ASSUME LinkInv, NEW w \in Workers, WorkerStep(w)
  PROVE  [LimNext]_limVars /\ Placed'
<1> DEFINE work == ~PopReturnsNone(sched)
<1>0. LimInv /\ Placed /\ work \in BOOLEAN
  BY DEF LinkInv
<1>1. CASE Start(w)
  <2>1. Idle(w) /\ worker_loop(w, lim, jobs)
    BY <1>0, <1>1, PlacedIdle DEF Start
  <2>2. LimStart(w, work)
    BY <2>1 DEF LimStart, worker_loop
  <2>3. Placed'
    BY <1>0, <2>1, StartReady, WorkerLoopPlaces
  <2> HIDE DEF work
  <2> QED BY <1>0, <2>2, <2>3 DEF LimNext, LimStep
<1>2. CASE Resume(w)
  <2>1. w \in lim.woken /\ worker_loop(w, Dequeued(lim, w), jobs)
    BY <1>2 DEF Resume
  <2>2. LimResume(w, work)
    BY <2>1 DEF LimResume, worker_loop
  <2>3. Placed'
    <3>1. /\ LoopReady(w, Dequeued(lim, w), holders \ {w})
          /\ \A v \in Workers \ {w} :
               Away(Dequeued(lim, w), v) <=> Away(lim, v)
      BY <1>0, <2>1, ResumeReady
    <3> QED BY <1>0, <2>1, <3>1, WorkerLoopPlaces
  <2> HIDE DEF work
  <2> QED BY <1>0, <2>2, <2>3 DEF LimNext, LimStep
<1>3. ASSUME NEW ok \in BOOLEAN, stage[w] \in Holding, Process(w, ok)
      PROVE  [LimNext]_limVars /\ Placed'
  <2> DEFINE l == Released(IF ok THEN record_success(lim) ELSE lim)
  <2>1. w \in holders
    BY <1>0, <1>3 DEF Placed, PlacedAs
  <2>2. PICK js : worker_loop(w, l, js)
    BY <1>3 DEF Process
  <2>3. LimFinish(w, ok, work)
    BY <2>1, <2>2 DEF LimFinish, worker_loop
  <2>4. l = Released(IF ok THEN record_success(lim) ELSE lim)
    OBVIOUS
  <2> HIDE DEF l, work
  <2>5. /\ LoopReady(w, l, holders \ {w})
        /\ \A v \in Workers : Away(l, v) <=> Away(lim, v)
    BY <1>0, <2>1, <2>4, FinishReady
  <2>6. Placed'
    BY <1>0, <2>2, <2>5, WorkerLoopPlaces
  <2> QED BY <1>0, <1>3, <2>3, <2>6 DEF LimNext, LimStep
<1>4. CASE Succeeds(w)
  BY <1>3, <1>4 DEF Succeeds, Holding
<1>5. CASE Fails(w)
  BY <1>3, <1>5 DEF Fails, Holding
<1>6. CASE RateLimited(w)
  <2>1. LimThrottle(w) /\ stage' = [stage EXCEPT ![w] = "backoff"]
        /\ stage[w] = "calling"
    BY <1>6 DEF RateLimited
  <2>2. lim'.woken = lim.woken /\ lim'.waiters = lim.waiters /\ holders' = holders
    BY <1>0, <2>1, LimInvParts DEF LimThrottle, record_throttle, LimiterState
  <2>3. Placed'
    BY <1>0, <2>1, <2>2 DEF Placed, PlacedAs, Holding, Stage, Away, Sleeping
  <2> QED BY <2>1, <2>3 DEF LimNext, LimStep
<1>7. CASE BackoffElapsed(w)
  <2>1. /\ lim' = lim /\ holders' = holders /\ stage[w] = "backoff"
        /\ stage' = [stage EXCEPT ![w] = "calling"]
    BY <1>7 DEF BackoffElapsed
  <2>2. /\ stage' \in [Workers -> Stage]
        /\ \A v \in Workers : PlacedAs(stage'[v], lim, holders, v)
    BY <1>0, <2>1 DEF Placed, PlacedAs, Holding, Stage
  <2> QED BY <1>0, <2>1, <2>2, QuietKeepsPlaced DEF limVars
<1>8. CASE Unwind(w)
  <2>1. stage[w] = "cancelled" /\ stage' = [stage EXCEPT ![w] = "off"]
    BY <1>8 DEF Unwind
  <2>2. CASE w \in holders
    <3>1. LimUnwind(w)
      BY <1>8, <2>2 DEF Unwind
    <3>2. /\ holders' = holders \ {w}
          /\ \A v \in Workers : Away(lim', v) <=> Away(lim, v)
      BY <1>0, <2>2, <3>1, HolderFacts, LimInvParts, ReleasedFacts
         DEF LimUnwind
    <3>3. Placed'
      BY <1>0, <2>1, <3>2 DEF Placed, PlacedAs, Holding, Stage
    <3> QED BY <3>1, <3>3 DEF LimNext, LimStep
  <2>3. CASE w \notin holders
    <3>1. lim' = lim /\ holders' = holders
      BY <1>8, <2>3 DEF Unwind
    <3>2. /\ stage' \in [Workers -> Stage]
          /\ \A v \in Workers : PlacedAs(stage'[v], lim, holders, v)
      BY <1>0, <2>1, <2>3 DEF Placed, PlacedAs, Holding, Stage
    <3> QED BY <1>0, <3>1, <3>2, QuietKeepsPlaced DEF limVars
  <2> QED BY <2>2, <2>3
<1> QED BY <1>1, <1>2, <1>4, <1>5, <1>6, <1>7, <1>8 DEF WorkerStep

(* So is every step of shutdown().                                         *)
LEMMA ShutdownLinks ==
  ASSUME LinkInv, BeginShutdown \/ ShutdownStep \/ Exited
  PROVE  [LimNext]_limVars /\ Placed'
<1>1. CASE GraceExpires
  <2>1. LimCancel /\ holders' = holders
    BY <1>1 DEF GraceExpires, LimCancel
  <2>2. stage' = [w \in Workers |-> IF w \in Live THEN "cancelled" ELSE "off"]
    BY <1>1 DEF GraceExpires
  <2>3. lim'.woken = {} /\ lim'.waiters = <<>>
    BY <2>1, LimInvParts DEF LinkInv, LimCancel, LimiterState
  <2>4. \A w \in Workers : Away(lim', w)
    BY <2>3, EmptySeq DEF Away, Sleeping
  <2>5. Placed'
    BY <2>1, <2>2, <2>4 DEF LinkInv, Placed, PlacedAs, Holding, Stage, Live
  <2> QED BY <2>1, <2>5 DEF LimNext
<1>2. CASE BeginShutdown \/ FinishShutdown \/ Exited
  <2>1. UNCHANGED <<lim, holders, stage>>
    BY <1>2 DEF BeginShutdown, FinishShutdown, Exited, engineVars
  <2> QED
    BY <2>1 DEF LinkInv, limVars, Placed, PlacedAs, Away, Sleeping
<1> QED BY <1>1, <1>2 DEF ShutdownStep

(***************************************************************************)
(* The link between engine and limiter is inductive, and under it a step   *)
(* of the engine is a step of the limiter or leaves the limiter alone.     *)
(***************************************************************************)
THEOREM StepLinks ==
  LinkInv /\ [Next]_engineVars => [LimNext]_limVars /\ LinkInv'
<1> SUFFICES ASSUME LinkInv, [Next]_engineVars
             PROVE  [LimNext]_limVars /\ LinkInv'
  OBVIOUS
<1>1. [LimNext]_limVars /\ Placed'
  <2>1. CASE UNCHANGED engineVars
    BY <2>1 DEF engineVars, LinkInv, limVars, Placed, PlacedAs, Away, Sleeping
  <2> QED BY <2>1, ClientLinks, WorkerLinks, ShutdownLinks DEF Next
<1> QED BY <1>1, LimInvInductive DEF LinkInv

(* No worker exists at first.                                              *)
LEMMA LinkInit == Init => LimInit /\ LinkInv
<1> SUFFICES ASSUME Init PROVE LimInit /\ LinkInv
  OBVIOUS
<1>1. LimInit /\ LimInv
  BY LimInitOK DEF Init
<1>2. /\ stage = [w \in Workers |-> "off"] /\ holders = {}
      /\ lim.woken = {} /\ lim.waiters = <<>>
  BY <1>1 DEF Init, LimInit, NewLimiter
<1>3. Placed
  BY <1>2, EmptySeq DEF Placed, PlacedAs, Stage, Holding, Away, Sleeping
<1> QED BY <1>1, <1>3 DEF LinkInv

(***************************************************************************)
(* The engine implements the limiter's specification: submissions,         *)
(* cancels, retries and a shutdown use the limiter only in the ways that   *)
(* its own theorems cover.                                                 *)
(***************************************************************************)
THEOREM EngineImplementsLimiter == Spec => ImplementsLimiter
<1> QED BY LinkInit, StepLinks, PTL DEF Spec, ImplementsLimiter, LimSpec

(***************************************************************************)
(* In every behaviour of the engine permits are conserved, concurrency     *)
(* stays within GLOBAL_MAX_CONCURRENCY and no wakeup is lost.              *)
(***************************************************************************)
THEOREM EnginePermits == Spec => [](PermitsExact /\ NoLostWakeup)
<1> QED
  BY EngineImplementsLimiter, PermitsAreExact, WakeupsAreNotLost, PTL
     DEF ImplementsLimiter

-----------------------------------------------------------------------------
(* The jobs.                                                               *)

JobRecord ==
  [state : JobState, priority : Priority, total : 0..MaxBatch,
   key : Keys \cup {None}, completed : Nat, succeeded : Nat, failed : Nat,
   results : [Seqs -> {"none", "ok", "error"}]]

WorkItem == [job : Jobs, seq : Seqs]

(* The prompts of a job record that have a result, an answer or an error.  *)
DoneIn(r) == {s \in Seqs : r.results[s] # "none"}
OkIn(r)   == {s \in Seqs : r.results[s] = "ok"}
ErrIn(r)  == {s \in Seqs : r.results[s] = "error"}

(* The record of a job on its own.                                         *)
JobOK(r) ==
  /\ r \in JobRecord
  /\ r.state = "none" => r.total = 0 /\ r.key = None
  /\ r.state # "none" => r.total \in 1..MaxBatch /\ r.priority \in Priorities
  /\ DoneIn(r) \subseteq 0..(r.total - 1)
  /\ r.completed = Cardinality(DoneIn(r))
  /\ r.succeeded = Cardinality(OkIn(r))
  /\ r.failed = Cardinality(ErrIn(r))
  /\ r.state = "running" => r.completed < r.total
  /\ r.state = "completed" => r.completed = r.total

(* The queue q of a job: its last prompts, in order; none has a result.    *)
QueueOK(r, q) ==
  /\ Len(q) <= r.total
  /\ \A i \in 1..Len(q) : q[i] = r.total - Len(q) + i - 1
  /\ \A s \in DoneIn(r) : s < r.total - Len(q)

(* The prompts of job j that the workers hold: dequeued, and no result.    *)
HeldOK(j, r, q, it) ==
  \A w \in Workers : it[w].job = j =>
    /\ it[w].seq \in 0..(r.total - Len(q) - 1)
    /\ r.results[it[w].seq] = "none"

(* A dequeued prompt of a running job is with a worker or has its result.  *)
NoneLost(j, r, q, it) ==
  r.state = "running" =>
    \A s \in 0..(r.total - Len(q) - 1) :
      \/ r.results[s] # "none"
      \/ \E w \in Workers : it[w] = [job |-> j, seq |-> s]

PlacesOK(j, r, q, it, full) ==
  /\ JobOK(r)
  /\ QueueOK(r, q)
  /\ HeldOK(j, r, q, it)
  /\ full => NoneLost(j, r, q, it)

ItemsOK(it) ==
  /\ it \in [Workers -> WorkItem \cup {NoItem}]
  /\ \A v, w \in Workers : it[v] = it[w] /\ it[v] # NoItem => v = w

(***************************************************************************)
(* The prompts, as a predicate of the jobs, the scheduler and the workers' *)
(* items, so that it can be stated between two parts of a step.  full: no  *)
(* worker has been cancelled, so nothing was dropped.                      *)
(***************************************************************************)
PromptsOK(js, s, it, full) ==
  /\ js \in [Jobs -> JobRecord]
  /\ SchedOK(s) /\ Exact(s)
  /\ ItemsOK(it)
  /\ \A j \in Jobs : PlacesOK(j, js[j], s.items[j], it, full)

Serving == phase \in {"up", "draining"}

(* The dict of the scheduler holds no job that is unknown or cancelled.    *)
KeysOK(js, s) ==
  \A j \in Jobs :
    /\ js[j].state = "none" => j \notin s.keys
    /\ js[j].state = "cancelled" /\ phase # "down" => j \notin s.keys

(* The workers, against their items, the permits and the shutdown.         *)
WorkersOK ==
  /\ holders = {w \in Workers : item[w] # NoItem}
  /\ attempt \in [Workers -> 0..(MaxRetries + 1)]
  /\ phase \in Phase
  /\ \A w \in Workers :
       /\ stage[w] # "skip"
       /\ stage[w] = "backoff" => attempt[w] <= MaxRetries
       /\ Serving => stage[w] # "cancelled"
       /\ phase = "cancelling" => stage[w] \in {"off", "cancelled"}
       /\ phase = "down" => stage[w] = "off"

IndexOK == byKey \in [Keys -> Jobs \cup {None}] /\ OneJobPerKey

LoadOK ==
  /\ Backpressure
  /\ phase = "down" => active = {}
  /\ PoolFollowsQueue

JobsInv ==
  /\ PromptsOK(jobs, sched, item, Serving)
  /\ KeysOK(jobs, sched)
  /\ WorkersOK
  /\ IndexOK
  /\ LoadOK

EngineInv == LinkInv /\ JobsInv

-----------------------------------------------------------------------------
(* One job record.                                                         *)

(* The sets of prompts of a record can be counted.                         *)
LEMMA Countable ==
  /\ MaxBatch \in Nat \ {0}
  /\ \A S \in SUBSET Seqs : IsFiniteSet(S) /\ Cardinality(S) \in Nat
<1>1. MaxBatch \in Nat \ {0}
  BY SchedulerAssumption
<1>2. IsFiniteSet(Seqs)
  BY <1>1, FS_Interval DEF Seqs
<1> QED BY <1>1, <1>2, FS_Subset, FS_CardinalityType

(* A job has at most as many results as prompts, and all when they agree.  *)
LEMMA AllDone ==
  ASSUME NEW r, JobOK(r)
  PROVE  /\ r.total \in 0..MaxBatch /\ r.completed \in Nat
         /\ r.completed <= r.total
         /\ r.completed = r.total <=> DoneIn(r) = 0..(r.total - 1)
<1>1. /\ r.total \in 0..MaxBatch /\ r.completed \in Nat
      /\ DoneIn(r) \subseteq 0..(r.total - 1)
      /\ r.completed = Cardinality(DoneIn(r))
  BY DEF JobOK, JobRecord
<1> DEFINE all == 0..(r.total - 1)
<1>2. r.total \in Nat /\ 0 \in Nat /\ r.total - 1 \in Int
  BY <1>1, SchedulerAssumption
<1>3. IsFiniteSet(all) /\ Cardinality(all) = r.total
  <2> DEFINE m == r.total - 1
  <2>1. m \in Int /\ (0 > m <=> r.total = 0) /\ m - 0 + 1 = r.total
    BY <1>2
  <2>2. all = 0..m
    OBVIOUS
  <2> HIDE DEF m, all
  <2>3. /\ IsFiniteSet(0..m)
        /\ Cardinality(0..m) = IF 0 > m THEN 0 ELSE m - 0 + 1
    BY <2>1, FS_Interval
  <2> QED BY <2>1, <2>2, <2>3
<1> HIDE DEF all
<1>4. DoneIn(r) \in SUBSET all
  BY <1>1 DEF all
<1>5. /\ Cardinality(DoneIn(r)) <= Cardinality(all)
      /\ Cardinality(DoneIn(r)) = Cardinality(all) => DoneIn(r) = all
  BY <1>3, <1>4, FS_Subset
<1> QED BY <1>1, <1>3, <1>5 DEF all

(* A record with one more result, as _process leaves it.                   *)
After(r, s, ok) ==
  [r EXCEPT !.succeeded = IF ok THEN @ + 1 ELSE @,
            !.failed    = IF ok THEN @ ELSE @ + 1,
            !.completed = r.completed + 1,
            !.results   = [@ EXCEPT ![s] = IF ok THEN "ok" ELSE "error"],
            !.state     = IF r.completed + 1 >= r.total /\ r.state = "running"
                          THEN "completed" ELSE @]

(* Its fields.                                                             *)
LEMMA AfterFields ==
  ASSUME NEW r \in JobRecord, NEW s \in Seqs, NEW ok \in BOOLEAN
  PROVE  LET a == After(r, s, ok)
         IN  /\ a \in JobRecord
             /\ a.total = r.total /\ a.key = r.key /\ a.priority = r.priority
             /\ a.completed = r.completed + 1
             /\ a.succeeded = IF ok THEN r.succeeded + 1 ELSE r.succeeded
             /\ a.failed = IF ok THEN r.failed ELSE r.failed + 1
             /\ a.results[s] = IF ok THEN "ok" ELSE "error"
             /\ \A t \in Seqs \ {s} : a.results[t] = r.results[t]
             /\ a.state = IF r.completed + 1 >= r.total /\ r.state = "running"
                          THEN "completed" ELSE r.state
<1> DEFINE su == IF ok THEN r.succeeded + 1 ELSE r.succeeded
           fa == IF ok THEN r.failed ELSE r.failed + 1
           co == r.completed + 1
           re == [r.results EXCEPT ![s] = IF ok THEN "ok" ELSE "error"]
           st == IF r.completed + 1 >= r.total /\ r.state = "running"
                 THEN "completed" ELSE r.state
           r1 == [r EXCEPT !.succeeded = su]
           r2 == [r1 EXCEPT !.failed = fa]
           r3 == [r2 EXCEPT !.completed = co]
           r4 == [r3 EXCEPT !.results = re]
           r5 == [r4 EXCEPT !.state = st]
<1>1. After(r, s, ok) = r5
  BY DEF After
<1>2. su \in Nat /\ fa \in Nat /\ co \in Nat
  BY DEF JobRecord
<1>3. r.results \in [Seqs -> {"none", "ok", "error"}] /\ r.state \in JobState
  BY DEF JobRecord
<1>4. /\ re \in [Seqs -> {"none", "ok", "error"}]
      /\ re[s] = IF ok THEN "ok" ELSE "error"
      /\ \A t \in Seqs \ {s} : re[t] = r.results[t]
  BY <1>3
<1>5. st \in JobState
  BY <1>3 DEF JobState
<1> HIDE DEF su, fa, co, re, st
<1>6. r1 \in JobRecord /\ r1.succeeded = su /\ r1.failed = r.failed
      /\ r1.total = r.total /\ r1.key = r.key /\ r1.priority = r.priority
  BY <1>2 DEF JobRecord
<1> HIDE DEF r1
<1>7. r2 \in JobRecord /\ r2.succeeded = su /\ r2.failed = fa
      /\ r2.total = r.total /\ r2.key = r.key /\ r2.priority = r.priority
  BY <1>2, <1>6 DEF JobRecord
<1> HIDE DEF r2
<1>8. r3 \in JobRecord /\ r3.succeeded = su /\ r3.failed = fa
      /\ r3.completed = co
      /\ r3.total = r.total /\ r3.key = r.key /\ r3.priority = r.priority
  BY <1>2, <1>7 DEF JobRecord
<1> HIDE DEF r3
<1>9. r4 \in JobRecord /\ r4.succeeded = su /\ r4.failed = fa
      /\ r4.completed = co /\ r4.results = re
      /\ r4.total = r.total /\ r4.key = r.key /\ r4.priority = r.priority
  BY <1>4, <1>8 DEF JobRecord
<1> HIDE DEF r4
<1>10. r5 \in JobRecord /\ r5.succeeded = su /\ r5.failed = fa
      /\ r5.completed = co /\ r5.results = re /\ r5.state = st
      /\ r5.total = r.total /\ r5.key = r.key /\ r5.priority = r.priority
  BY <1>5, <1>9 DEF JobRecord
<1> HIDE DEF r5
<1> QED BY <1>1, <1>4, <1>10 DEF su, fa, co, st

(***************************************************************************)
(* One more result keeps a record consistent: the counters follow the      *)
(* results, and the job completes with exactly the last one.               *)
(***************************************************************************)
LEMMA AfterOK ==
  ASSUME NEW r, JobOK(r), NEW s \in 0..(r.total - 1), r.results[s] = "none",
         NEW ok \in BOOLEAN
  PROVE  LET a == After(r, s, ok)
         IN  /\ JobOK(a)
             /\ a.total = r.total /\ a.key = r.key
             /\ DoneIn(a) = DoneIn(r) \cup {s}
             /\ \A t \in Seqs \ {s} : a.results[t] = r.results[t]
             /\ a.results[s] # "none"
             /\ r.state \in {"running", "cancelled"}
             /\ a.state = r.state \/ (r.state = "running" /\ a.state = "completed")
             /\ r.completed < r.total
             /\ a.state = IF r.completed + 1 = r.total /\ r.state = "running"
                          THEN "completed" ELSE r.state
<1> DEFINE a == After(r, s, ok)
<1>1. r \in JobRecord /\ r.total \in 0..MaxBatch /\ r.completed \in Nat
      /\ r.state \in JobState
  BY DEF JobOK, JobRecord
<1>2. s \in Seqs /\ s \notin DoneIn(r)
  BY <1>1, Countable DEF Seqs, DoneIn
<1>3. r.completed < r.total
  <2>1. DoneIn(r) # 0..(r.total - 1)
    BY <1>2
  <2> QED BY <1>1, <2>1, AllDone
<1>4. r.state \in {"running", "cancelled"}
  BY <1>1, <1>3 DEF JobOK, JobState
<1>5. /\ a \in JobRecord
      /\ a.total = r.total /\ a.key = r.key /\ a.priority = r.priority
      /\ a.completed = r.completed + 1
      /\ a.succeeded = IF ok THEN r.succeeded + 1 ELSE r.succeeded
      /\ a.failed = IF ok THEN r.failed ELSE r.failed + 1
      /\ a.results[s] = IF ok THEN "ok" ELSE "error"
      /\ \A t \in Seqs \ {s} : a.results[t] = r.results[t]
      /\ a.state = IF r.completed + 1 >= r.total /\ r.state = "running"
                   THEN "completed" ELSE r.state
  BY <1>1, <1>2, AfterFields
<1> HIDE DEF a
<1>6. DoneIn(a) = DoneIn(r) \cup {s}
  BY <1>2, <1>5 DEF DoneIn
<1>7. /\ OkIn(a) = IF ok THEN OkIn(r) \cup {s} ELSE OkIn(r)
      /\ ErrIn(a) = IF ok THEN ErrIn(r) ELSE ErrIn(r) \cup {s}
      /\ s \notin OkIn(r) /\ s \notin ErrIn(r)
  BY <1>2, <1>5 DEF OkIn, ErrIn
<1>8. /\ Cardinality(DoneIn(r) \cup {s}) = Cardinality(DoneIn(r)) + 1
      /\ Cardinality(OkIn(r) \cup {s}) = Cardinality(OkIn(r)) + 1
      /\ Cardinality(ErrIn(r) \cup {s}) = Cardinality(ErrIn(r)) + 1
  <2>1. /\ DoneIn(r) \in SUBSET Seqs /\ OkIn(r) \in SUBSET Seqs
        /\ ErrIn(r) \in SUBSET Seqs
    BY DEF DoneIn, OkIn, ErrIn
  <2> QED BY <1>2, <1>7, <2>1, Countable, FS_AddElement
<1>9. JobOK(a)
  <2>1. /\ a.completed = Cardinality(DoneIn(a))
        /\ a.succeeded = Cardinality(OkIn(a))
        /\ a.failed = Cardinality(ErrIn(a))
    BY <1>5, <1>6, <1>7, <1>8 DEF JobOK
  <2>2. DoneIn(a) \subseteq 0..(a.total - 1)
    BY <1>5, <1>6 DEF JobOK
  <2>3. a.state # "none" /\ a.total \in 1..MaxBatch /\ a.priority \in Priorities
    BY <1>4, <1>5 DEF JobOK
  <2>4. /\ a.state = "running" => a.completed < a.total
        /\ a.state = "completed" => a.completed = a.total
    BY <1>1, <1>3, <1>4, <1>5
  <2> QED BY <1>5, <2>1, <2>2, <2>3, <2>4 DEF JobOK
<1> QED BY <1>1, <1>3, <1>4, <1>5, <1>6, <1>9 DEF a

-----------------------------------------------------------------------------
(* What the parts of a step do to the prompts.                             *)

(* NoItem belongs to no job.                                               *)
LEMMA NoItemFacts ==
  /\ NoItem \notin WorkItem /\ NoItem.job = None /\ NoItem.job \notin Jobs
BY EngineAssumption DEF NoItem, WorkItem

(* The ranges behind a job's prompts.                                      *)
LEMMA PlaceTypes ==
  ASSUME NEW js, NEW s, NEW it, NEW full, PromptsOK(js, s, it, full),
         NEW j \in Jobs
  PROVE  /\ js[j].total \in Nat /\ js[j].total <= MaxBatch /\ MaxBatch \in Nat
         /\ s.items[j] \in Seq(Nat) /\ Len(s.items[j]) \in Nat
         /\ js[j] \in JobRecord
         /\ js[j].results \in [Seqs -> {"none", "ok", "error"}]
         /\ 0..(js[j].total - 1) \subseteq Seqs
<1>1. js[j] \in JobRecord /\ s.items[j] \in Seq(Nat)
  BY DEF PromptsOK, SchedOK, SchedulerState
<1>2. Len(s.items[j]) \in Nat
  BY <1>1, LenProperties
<1>3. /\ js[j].total \in 0..MaxBatch
      /\ js[j].results \in [Seqs -> {"none", "ok", "error"}]
  BY <1>1 DEF JobRecord
<1> QED BY <1>1, <1>2, <1>3, Countable DEF Seqs

(* The work items of other workers when one worker drops its item.         *)
LEMMA DropFactsItem ==
  ASSUME NEW it, ItemsOK(it), NEW w \in Workers
  PROVE  LET d == [it EXCEPT ![w] = NoItem]
         IN  /\ ItemsOK(d) /\ d[w] = NoItem
             /\ \A v \in Workers \ {w} : d[v] = it[v]
<1> DEFINE d == [it EXCEPT ![w] = NoItem]
<1>1. d \in [Workers -> WorkItem \cup {NoItem}] /\ d[w] = NoItem
      /\ \A v \in Workers \ {w} : d[v] = it[v]
  BY DEF ItemsOK
<1> HIDE DEF d
<1>2. ItemsOK(d)
  BY <1>1 DEF ItemsOK
<1> QED BY <1>1, <1>2 DEF d

(* Recording a worker's answer, the first half of what Process does.       *)
LEMMA RecordPart ==
  ASSUME NEW full, NEW w \in Workers, NEW ok \in BOOLEAN,
         PromptsOK(jobs, sched, item, full), item[w] # NoItem
  PROVE  LET x  == item[w]
             js == Recorded(x, ok)
         IN  /\ PromptsOK(js, sched, [item EXCEPT ![w] = NoItem], full)
             /\ x \in WorkItem
             /\ js = [jobs EXCEPT ![x.job] = After(jobs[x.job], x.seq, ok)]
             /\ x.seq \in 0..(jobs[x.job].total - 1)
             /\ jobs[x.job].results[x.seq] = "none"
<1> DEFINE x == item[w]
           j == x.job
           r == jobs[j]
           a == After(r, x.seq, ok)
           js == Recorded(x, ok)
           d == [item EXCEPT ![w] = NoItem]
<1>1. /\ item \in [Workers -> WorkItem \cup {NoItem}] /\ ItemsOK(item)
      /\ \A u, v \in Workers : item[u] = item[v] /\ item[u] # NoItem => u = v
  BY DEF PromptsOK, ItemsOK
<1>2. x \in WorkItem /\ j \in Jobs /\ x.seq \in Seqs
  BY <1>1 DEF WorkItem
<1>3. js = [jobs EXCEPT ![j] = a]
  BY DEF Recorded, After
<1>4. /\ JobOK(r) /\ QueueOK(r, sched.items[j])
      /\ HeldOK(j, r, sched.items[j], item)
  BY <1>2 DEF PromptsOK, PlacesOK
<1>5. /\ r.total \in Nat /\ Len(sched.items[j]) \in Nat
  BY <1>2, PlaceTypes
<1>6. /\ x.seq \in 0..(r.total - Len(sched.items[j]) - 1)
      /\ r.results[x.seq] = "none"
  BY <1>4 DEF HeldOK
<1>7. x.seq \in 0..(r.total - 1)
  BY <1>5, <1>6
<1>8. /\ ItemsOK(d) /\ d[w] = NoItem
      /\ \A v \in Workers \ {w} : d[v] = item[v]
  BY <1>1, DropFactsItem
<1> HIDE DEF x, d, r, a
<1>9. /\ JobOK(a) /\ a.total = r.total
      /\ DoneIn(a) = DoneIn(r) \cup {x.seq}
      /\ \A t \in Seqs \ {x.seq} : a.results[t] = r.results[t]
      /\ a.results[x.seq] # "none"
      /\ a.state = r.state \/ (r.state = "running" /\ a.state = "completed")
  BY <1>4, <1>6, <1>7, AfterOK DEF a
<1>10. a \in JobRecord
  BY <1>9 DEF JobOK
<1>11. jobs \in [Jobs -> JobRecord] /\ SchedOK(sched) /\ Exact(sched)
  BY DEF PromptsOK
<1>12. js \in [Jobs -> JobRecord] /\ js[j] = a
       /\ \A k \in Jobs \ {j} : js[k] = jobs[k]
  BY <1>2, <1>3, <1>10, <1>11
<1> HIDE DEF js
<1>13. ASSUME NEW k \in Jobs, k # j
       PROVE  PlacesOK(k, js[k], sched.items[k], d, full)
  <2> DEFINE q == sched.items[k]
  <2>1. PlacesOK(k, jobs[k], q, item, full) /\ js[k] = jobs[k]
    BY <1>12, <1>13 DEF PromptsOK
  <2> HIDE DEF q
  <2>2. HeldOK(k, jobs[k], q, d)
    BY <1>8, <2>1, NoItemFacts DEF PlacesOK, HeldOK
  <2>3. ASSUME NoneLost(k, jobs[k], q, item) PROVE NoneLost(k, jobs[k], q, d)
    <3>1. \A t : [job |-> k, seq |-> t] # item[w]
      BY <1>13 DEF x
    <3> QED BY <1>8, <2>3, <3>1 DEF NoneLost
  <2> QED BY <2>1, <2>2, <2>3 DEF PlacesOK, q
<1>14. PlacesOK(j, js[j], sched.items[j], d, full)
  <2> DEFINE q == sched.items[j]
             s == x.seq
  <2>1. PlacesOK(j, r, q, item, full) /\ js[j] = a
    BY <1>2, <1>12 DEF PromptsOK, r
  <2>2. s \in 0..(r.total - Len(q) - 1) /\ s \in Seqs
    BY <1>2, <1>6
  <2>0. Len(q) \in Nat /\ r.total \in Nat
    BY <1>5
  <2>3. QueueOK(a, q)
    BY <1>9, <2>0, <2>1, <2>2 DEF PlacesOK, QueueOK
  <2>4. HeldOK(j, a, q, d)
    <3> SUFFICES ASSUME NEW v \in Workers, d[v].job = j
                 PROVE  /\ d[v].seq \in 0..(a.total - Len(q) - 1)
                        /\ a.results[d[v].seq] = "none"
      BY DEF HeldOK
    <3>1. v # w /\ d[v] = item[v]
      BY <1>2, <1>8, NoItemFacts
    <3>2. /\ item[v].seq \in 0..(r.total - Len(q) - 1)
          /\ r.results[item[v].seq] = "none"
      BY <2>1, <3>1 DEF PlacesOK, HeldOK
    <3>3. item[v] \in WorkItem
      BY <1>1, <1>2, <3>1, NoItemFacts
    <3>4. item[v].seq # s
      <4>1. item[v] # item[w]
        BY <1>1, <3>1, <3>3, NoItemFacts
      <4>2. item[v].job = item[w].job
        BY <3>1 DEF x
      <4> QED BY <1>2, <3>3, <4>1, <4>2 DEF WorkItem, x
    <3>5. item[v].seq \in Seqs
      BY <3>3 DEF WorkItem
    <3> QED BY <1>9, <3>1, <3>2, <3>4, <3>5
  <2>5. ASSUME NoneLost(j, r, q, item) PROVE NoneLost(j, a, q, d)
    <3> SUFFICES ASSUME a.state = "running",
                        NEW t \in 0..(a.total - Len(q) - 1),
                        a.results[t] = "none"
                 PROVE  \E v \in Workers : d[v] = [job |-> j, seq |-> t]
      BY DEF NoneLost
    <3>1. r.state = "running" /\ t # s /\ t \in 0..(r.total - Len(q) - 1)
      BY <1>9
    <3>2. t \in Seqs
      BY <1>2, <2>0, <3>1, PlaceTypes DEF r
    <3>3. r.results[t] = "none"
      BY <1>9, <3>1, <3>2
    <3>4. PICK v \in Workers : item[v] = [job |-> j, seq |-> t]
      BY <2>5, <3>1, <3>3 DEF NoneLost
    <3>5. v # w
      BY <3>1, <3>4 DEF x
    <3> QED BY <1>8, <3>4, <3>5
  <2> QED BY <1>9, <2>1, <2>3, <2>4, <2>5 DEF PlacesOK
<1>15. PromptsOK(js, sched, d, full)
  BY <1>8, <1>11, <1>12, <1>13, <1>14 DEF PromptsOK
<1> QED BY <1>2, <1>3, <1>6, <1>7, <1>15 DEF x, js, d, r, a

(* Dequeueing a prompt for a worker that holds none: the queue of a job is *)
(* its last prompts, so its head is the first that nobody has had.         *)
LEMMA PopPart ==
  ASSUME NEW js, NEW s, NEW it, NEW full, PromptsOK(js, s, it, full),
         NEW w \in Workers, it[w] = NoItem, ~PopReturnsNone(s)
  PROVE  LET got == [job |-> PopJob(s), seq |-> PopItem(s)]
         IN  /\ got \in WorkItem
             /\ got.job \in s.keys
             /\ PromptsOK(js, Popped(s), [it EXCEPT ![w] = got], full)
<1> DEFINE j == PopJob(s)
           q == s.items[j]
           n == Len(q)
           m == Popped(s)
           x == PopItem(s)
           got == [job |-> j, seq |-> x]
           d == [it EXCEPT ![w] = got]
<1>1. /\ SchedOK(s) /\ Exact(s) /\ js \in [Jobs -> JobRecord] /\ ItemsOK(it)
  BY DEF PromptsOK
<1>2. /\ SchedOK(m) /\ Exact(m) /\ j \in s.keys /\ j \in Jobs /\ q # <<>>
      /\ m.items[j] = Tail(q)
      /\ \A k \in Jobs \ {j} : m.items[k] = s.items[k]
  BY <1>1, PopOne
<1> HIDE DEF j, m
<1>3. PlacesOK(j, js[j], q, it, full)
  BY <1>2 DEF PromptsOK
<1>4. /\ js[j].total \in Nat /\ q \in Seq(Nat) /\ n \in Nat
      /\ 0..(js[j].total - 1) \subseteq Seqs
      /\ js[j].results \in [Seqs -> {"none", "ok", "error"}]
  BY <1>2, PlaceTypes
<1>5. n >= 1
  BY <1>2, <1>4, EmptySeq
<1>6. /\ Len(Tail(q)) = n - 1
      /\ \A i \in 1..(n - 1) : Tail(q)[i] = q[i + 1]
  BY <1>2, <1>4, HeadTailProperties
<1>7. x = q[1]
  BY <1>2, <1>4 DEF PopItem, j
<1>8. n <= js[j].total /\ \A i \in 1..n : q[i] = js[j].total - n + i - 1
  BY <1>3 DEF PlacesOK, QueueOK
<1>9. x = js[j].total - n
  <2>1. 1 \in 1..n
    BY <1>4, <1>5
  <2>2. x = js[j].total - n + 1 - 1
    BY <1>7, <1>8, <2>1
  <2> HIDE DEF n, x
  <2> QED BY <1>4, <2>2
<1>10. x \in 0..(js[j].total - 1) /\ x \in Seqs
  BY <1>4, <1>5, <1>8, <1>9
<1>11. js[j].results[x] = "none"
  <2>1. x \notin DoneIn(js[j])
    BY <1>3, <1>4, <1>9, <1>10 DEF PlacesOK, QueueOK
  <2> QED BY <1>10, <2>1 DEF DoneIn
<1> HIDE DEF x
<1>12. got \in WorkItem /\ got.job = j /\ got.seq = x /\ got # NoItem
  BY <1>2, <1>10, NoItemFacts DEF WorkItem
<1> HIDE DEF got
<1>13. \A v \in Workers : it[v] # got
  BY <1>3, <1>4, <1>9, <1>12 DEF PlacesOK, HeldOK
<1>14. /\ d \in [Workers -> WorkItem \cup {NoItem}] /\ d[w] = got
       /\ \A v \in Workers \ {w} : d[v] = it[v]
  BY <1>1, <1>12 DEF ItemsOK
<1> HIDE DEF d
<1>15. ItemsOK(d)
  BY <1>1, <1>13, <1>14 DEF ItemsOK
<1>16. ASSUME NEW k \in Jobs, k # j
       PROVE  PlacesOK(k, js[k], m.items[k], d, full)
  <2> DEFINE p == s.items[k]
  <2>1. PlacesOK(k, js[k], p, it, full) /\ m.items[k] = p
    BY <1>2, <1>16 DEF PromptsOK
  <2> HIDE DEF p
  <2>2. HeldOK(k, js[k], p, d)
    BY <1>12, <1>14, <1>16, <2>1 DEF PlacesOK, HeldOK
  <2>3. ASSUME NoneLost(k, js[k], p, it) PROVE NoneLost(k, js[k], p, d)
    <3>1. \A t : [job |-> k, seq |-> t] # it[w]
      BY NoItemFacts
    <3> QED BY <1>14, <2>3, <3>1 DEF NoneLost
  <2> QED BY <2>1, <2>2, <2>3 DEF PlacesOK
<1>17. PlacesOK(j, js[j], m.items[j], d, full)
  <2> DEFINE r == js[j]
             p == Tail(q)
             left == r.total - Len(p) - 1
  <2>0. m.items[j] = p
    BY <1>2
  <2>1. Len(p) \in Nat /\ Len(p) = n - 1 /\ left = x /\ left = r.total - n
    BY <1>4, <1>5, <1>6, <1>9
  <2>2. QueueOK(r, p)
    <3>1. Len(p) <= r.total
      BY <1>4, <1>8, <2>1
    <3>2. ASSUME NEW i \in 1..Len(p) PROVE p[i] = r.total - Len(p) + i - 1
      <4>1. i \in 1..(n - 1) /\ i + 1 \in 1..n
        BY <1>4, <2>1
      <4>2. p[i] = q[i + 1] /\ q[i + 1] = r.total - n + (i + 1) - 1
        BY <1>6, <1>8, <4>1
      <4> HIDE DEF p, r
      <4> QED BY <1>4, <2>1, <4>1, <4>2 DEF r
    <3>3. ASSUME NEW t \in DoneIn(r) PROVE t < r.total - Len(p)
      <4>1. t < r.total - n /\ t \in Int
        BY <1>3 DEF PlacesOK, QueueOK, DoneIn, Seqs
      <4> HIDE DEF p, r
      <4> QED BY <1>4, <2>1, <4>1 DEF r
    <3> QED BY <3>1, <3>2, <3>3 DEF QueueOK
  <2>3. HeldOK(j, r, p, d)
    <3> SUFFICES ASSUME NEW v \in Workers, d[v].job = j
                 PROVE  d[v].seq \in 0..left /\ r.results[d[v].seq] = "none"
      BY DEF HeldOK
    <3>1. CASE v = w
      <4>1. d[v].seq = x /\ x \in 0..x
        BY <1>10, <1>12, <1>14, <3>1
      <4> HIDE DEF left, p
      <4> QED BY <1>11, <2>1, <4>1
    <3>2. CASE v # w
      <4>1. /\ it[v].seq \in 0..(r.total - n - 1) /\ d[v] = it[v]
            /\ r.results[it[v].seq] = "none"
        BY <1>3, <1>14, <3>2 DEF PlacesOK, HeldOK
      <4> HIDE DEF left, p
      <4> QED BY <1>4, <2>1, <4>1
    <3> QED BY <3>1, <3>2
  <2>4. ASSUME NoneLost(j, r, q, it) PROVE NoneLost(j, r, p, d)
    <3> SUFFICES ASSUME r.state = "running", NEW t \in 0..left,
                        r.results[t] = "none"
                 PROVE  \E v \in Workers : d[v] = [job |-> j, seq |-> t]
      BY DEF NoneLost
    <3> HIDE DEF left, p
    <3>1. CASE t = x
      BY <1>14, <3>1 DEF got
    <3>2. CASE t # x
      <4>1. t \in 0..(r.total - n - 1)
        BY <1>4, <2>1, <3>2
      <4>2. PICK v \in Workers : it[v] = [job |-> j, seq |-> t]
        BY <2>4, <4>1 DEF NoneLost
      <4>3. v # w
        BY <1>2, <4>2, NoItemFacts
      <4> QED BY <1>14, <4>2, <4>3
    <3> QED BY <3>1, <3>2
  <2> QED BY <1>3, <2>0, <2>2, <2>3, <2>4 DEF PlacesOK
<1>18. PromptsOK(js, m, d, full)
  BY <1>1, <1>2, <1>15, <1>16, <1>17 DEF PromptsOK
<1> QED BY <1>2, <1>12, <1>18 DEF j, m, got, d, x

(* A pop that returns None leaves the prompts where they are.              *)
LEMMA PopNonePart ==
  ASSUME NEW js, NEW s, NEW it, NEW full, PromptsOK(js, s, it, full),
         PopReturnsNone(s)
  PROVE  PromptsOK(js, Popped(s), it, full)
<1>1. SchedOK(s) /\ Exact(s)
  BY DEF PromptsOK
<1>2. /\ SchedOK(Popped(s)) /\ Exact(Popped(s))
      /\ \A k \in Jobs : Popped(s).items[k] = s.items[k]
  BY <1>1, PopNothing
<1> QED BY <1>2 DEF PromptsOK

(* A job that is not stored yet, and one that has just been accepted.      *)
LEMMA NewJobOK ==
  ASSUME NEW n \in 0..MaxBatch, NEW p \in Priority, NEW key \in Keys \cup {None},
         NEW st \in {"none", "running"},
         st = "none" => n = 0 /\ key = None,
         st = "running" => n # 0 /\ p \in Priorities
  PROVE  LET r == NewJob(n, p, key, st)
         IN  /\ JobOK(r) /\ DoneIn(r) = {}
             /\ r.state = st /\ r.total = n /\ r.key = key
             /\ r.completed = 0 /\ r.succeeded = 0 /\ r.failed = 0
<1> DEFINE r == NewJob(n, p, key, st)
<1>1. NoResults \in [Seqs -> {"none", "ok", "error"}]
  BY DEF NoResults
<1>2. /\ r \in JobRecord /\ r.state = st /\ r.total = n /\ r.key = key
      /\ r.completed = 0 /\ r.succeeded = 0 /\ r.failed = 0
      /\ r.results = NoResults /\ r.priority = p
  BY <1>1 DEF NewJob, JobRecord, JobState
<1> HIDE DEF r
<1>3. DoneIn(r) = {} /\ OkIn(r) = {} /\ ErrIn(r) = {}
  BY <1>2 DEF NoResults, DoneIn, OkIn, ErrIn
<1>4. JobOK(r)
  BY <1>2, <1>3, FS_EmptySet, Countable DEF JobOK
<1> QED BY <1>2, <1>3, <1>4 DEF r

(* submit() stores a job and queues all of its prompts.                    *)
LEMMA AddPart ==
  ASSUME NEW js, NEW s, NEW it, NEW full, PromptsOK(js, s, it, full),
         NEW j \in Jobs, js[j].state = "none", j \notin s.keys,
         NEW n \in 1..MaxBatch, NEW p \in Priorities,
         NEW key \in Keys \cup {None}
  PROVE  PromptsOK([js EXCEPT ![j] = NewJob(n, p, key, "running")],
                   AddJob(s, j, WorkItems(n), p), it, full)
<1> DEFINE r == NewJob(n, p, key, "running")
           m == AddJob(s, j, WorkItems(n), p)
           ks == [js EXCEPT ![j] = r]
<1>1. SchedOK(s) /\ Exact(s) /\ js \in [Jobs -> JobRecord] /\ ItemsOK(it)
  BY DEF PromptsOK
<1>2. /\ SchedOK(m) /\ Exact(m)
      /\ m.items[j] = WorkItems(n) /\ Len(m.items[j]) = n
      /\ \A k \in Jobs \ {j} : m.items[k] = s.items[k]
  BY <1>1, AddStep
<1> HIDE DEF m
<1>3. JobOK(r) /\ DoneIn(r) = {} /\ r.total = n /\ r \in JobRecord
  <2>1. p \in Priority /\ n \in 0..MaxBatch /\ n # 0
    BY SchedulerAssumption
  <2>2. JobOK(r) /\ DoneIn(r) = {} /\ r.total = n
    BY <2>1, NewJobOK
  <2> HIDE DEF r
  <2> QED BY <2>2 DEF JobOK
<1> HIDE DEF r
<1>4. ks \in [Jobs -> JobRecord] /\ ks[j] = r
      /\ \A k \in Jobs \ {j} : ks[k] = js[k]
  BY <1>1, <1>3
<1> HIDE DEF ks
<1>5. ASSUME NEW k \in Jobs, k # j
      PROVE  PlacesOK(k, ks[k], m.items[k], it, full)
  BY <1>2, <1>4, <1>5 DEF PromptsOK
<1>6. PlacesOK(j, ks[j], m.items[j], it, full)
  <2> DEFINE q == m.items[j]
  <2>1. Len(q) = n /\ \A i \in 1..n : q[i] = i - 1
    BY <1>2, SchedulerAssumption DEF WorkItems
  <2> HIDE DEF q
  <2>2. n \in Nat
    BY SchedulerAssumption
  <2>3. QueueOK(r, q)
    BY <1>3, <2>1, <2>2 DEF QueueOK
  <2>4. \A w \in Workers : it[w].job # j
    <3>1. js[j].total = 0 /\ HeldOK(j, js[j], s.items[j], it)
      BY DEF PromptsOK, PlacesOK, JobOK
    <3>2. Len(s.items[j]) \in Nat
      BY PlaceTypes
    <3> QED BY <3>1, <3>2 DEF HeldOK
  <2>5. HeldOK(j, r, q, it) /\ NoneLost(j, r, q, it)
    BY <1>3, <2>1, <2>2, <2>4 DEF HeldOK, NoneLost
  <2> QED BY <1>3, <1>4, <2>3, <2>5 DEF PlacesOK, q
<1> QED BY <1>1, <1>2, <1>4, <1>5, <1>6 DEF PromptsOK, ks, r, m

(* The jobs S become cancelled.                                            *)
CancelIn(js, S) ==
  [j \in Jobs |-> IF j \in S THEN [js[j] EXCEPT !.state = "cancelled"] ELSE js[j]]

(* Cancelling touches the state of a job and nothing else of it.           *)
LEMMA CancelPart ==
  ASSUME NEW js, NEW s, NEW it, NEW full, PromptsOK(js, s, it, full),
         NEW S \in SUBSET Jobs, \A j \in S : js[j].state = "running"
  PROVE  /\ PromptsOK(CancelIn(js, S), s, it, full)
         /\ \A j \in Jobs :
              LET r == CancelIn(js, S)[j]
              IN  /\ r.state = IF j \in S THEN "cancelled" ELSE js[j].state
                  /\ r.key = js[j].key /\ r.results = js[j].results
                  /\ r.total = js[j].total /\ r.completed = js[j].completed
                  /\ r.succeeded = js[j].succeeded /\ r.failed = js[j].failed
<1> DEFINE ks == CancelIn(js, S)
<1>1. SchedOK(s) /\ Exact(s) /\ js \in [Jobs -> JobRecord] /\ ItemsOK(it)
  BY DEF PromptsOK
<1>2. ASSUME NEW j \in Jobs
      PROVE  LET r == ks[j]
             IN  /\ r.state = IF j \in S THEN "cancelled" ELSE js[j].state
                 /\ r.key = js[j].key /\ r.results = js[j].results
                 /\ r.total = js[j].total /\ r.completed = js[j].completed
                 /\ r.succeeded = js[j].succeeded /\ r.failed = js[j].failed
                 /\ r.priority = js[j].priority
                 /\ r \in JobRecord
  <2>1. js[j] \in JobRecord
    BY <1>1
  <2>2. ks[j] = IF j \in S THEN [js[j] EXCEPT !.state = "cancelled"] ELSE js[j]
    BY DEF CancelIn
  <2> HIDE DEF ks
  <2> QED BY <2>1, <2>2 DEF JobRecord, JobState
<1>3. ks \in [Jobs -> JobRecord]
  <2>1. DOMAIN ks = Jobs /\ ks = [j \in Jobs |-> ks[j]]
    BY DEF CancelIn
  <2> HIDE DEF ks
  <2> QED BY <1>2, <2>1
<1> HIDE DEF ks
<1>4. ASSUME NEW j \in Jobs
      PROVE  PlacesOK(j, ks[j], s.items[j], it, full)
  <2> DEFINE r == js[j]
             c == ks[j]
             q == s.items[j]
  <2>1. PlacesOK(j, r, q, it, full)
    BY DEF PromptsOK
  <2>2. /\ c.state = IF j \in S THEN "cancelled" ELSE r.state
        /\ c.key = r.key /\ c.results = r.results
        /\ c.total = r.total /\ c.completed = r.completed
        /\ c.succeeded = r.succeeded /\ c.failed = r.failed
        /\ c.priority = r.priority /\ c \in JobRecord
    BY <1>2
  <2>3. j \in S => r.state = "running"
    OBVIOUS
  <2> HIDE DEF r, c, q
  <2>4. DoneIn(c) = DoneIn(r) /\ OkIn(c) = OkIn(r) /\ ErrIn(c) = ErrIn(r)
    BY <2>2 DEF DoneIn, OkIn, ErrIn
  <2>5. JobOK(c)
    BY <2>1, <2>2, <2>3, <2>4 DEF PlacesOK, JobOK
  <2>6. QueueOK(c, q) /\ HeldOK(j, c, q, it)
    BY <2>1, <2>2, <2>4 DEF PlacesOK, QueueOK, HeldOK
  <2>7. NoneLost(j, r, q, it) => NoneLost(j, c, q, it)
    BY <2>2, <2>3 DEF NoneLost
  <2> QED BY <2>1, <2>5, <2>6, <2>7 DEF PlacesOK, c, q
<1>5. PromptsOK(ks, s, it, full)
  BY <1>1, <1>3, <1>4 DEF PromptsOK
<1> QED BY <1>2, <1>5 DEF ks

(* cancel() also removes the queue of its job.                             *)
LEMMA RemovePart ==
  ASSUME NEW js, NEW s, NEW it, NEW full, PromptsOK(js, s, it, full),
         NEW j \in Jobs, js[j].state # "running"
  PROVE  PromptsOK(js, RemoveJob(s, j), it, full)
<1> DEFINE m == RemoveJob(s, j)
<1>1. SchedOK(s) /\ Exact(s) /\ js \in [Jobs -> JobRecord] /\ ItemsOK(it)
  BY DEF PromptsOK
<1>2. /\ SchedOK(m) /\ Exact(m) /\ m.items[j] = <<>>
      /\ \A k \in Jobs \ {j} : m.items[k] = s.items[k]
  BY <1>1, RemoveStep
<1> HIDE DEF m
<1>3. ASSUME NEW k \in Jobs, k # j
      PROVE  PlacesOK(k, js[k], m.items[k], it, full)
  BY <1>2, <1>3 DEF PromptsOK
<1>4. PlacesOK(j, js[j], m.items[j], it, full)
  <2> DEFINE r == js[j]
             q == s.items[j]
             e == m.items[j]
  <2>1. PlacesOK(j, r, q, it, full)
    BY DEF PromptsOK
  <2>2. r.total \in Nat /\ Len(q) \in Nat /\ Len(e) = 0
    BY <1>2, PlaceTypes, EmptySeq
  <2> HIDE DEF q, e, r
  <2>3. QueueOK(r, e)
    <3>1. \A t \in DoneIn(r) : t < r.total - Len(q) /\ t \in Int
      BY <2>1 DEF PlacesOK, QueueOK, DoneIn, Seqs
    <3> QED BY <2>2, <3>1 DEF QueueOK
  <2>4. HeldOK(j, r, e, it)
    BY <2>1, <2>2 DEF PlacesOK, HeldOK
  <2>5. NoneLost(j, r, e, it)
    BY DEF NoneLost, r
  <2> QED BY <2>1, <2>3, <2>4, <2>5 DEF PlacesOK, r, e
<1> QED BY <1>1, <1>2, <1>3, <1>4 DEF PromptsOK, m

(* A cancelled worker drops its item: nothing is duplicated, but the       *)
(* prompt is lost.                                                         *)
LEMMA DropPart ==
  ASSUME NEW js, NEW s, NEW it, NEW full, PromptsOK(js, s, it, full),
         NEW w \in Workers
  PROVE  PromptsOK(js, s, [it EXCEPT ![w] = NoItem], FALSE)
<1> DEFINE d == [it EXCEPT ![w] = NoItem]
<1>1. /\ ItemsOK(d) /\ d[w] = NoItem
      /\ \A v \in Workers \ {w} : d[v] = it[v]
  BY DropFactsItem DEF PromptsOK
<1> HIDE DEF d
<1>2. ASSUME NEW j \in Jobs PROVE HeldOK(j, js[j], s.items[j], d)
  <2>1. HeldOK(j, js[j], s.items[j], it)
    BY DEF PromptsOK, PlacesOK
  <2> QED BY <1>1, <2>1, NoItemFacts DEF HeldOK
<1> QED BY <1>1, <1>2 DEF PromptsOK, PlacesOK, d

-----------------------------------------------------------------------------
(* The pool.                                                               *)

(* Workers can be counted, and the pool has a size.                        *)
LEMMA PoolTypes ==
  /\ PoolSize \in Nat \ {0} /\ MaxRetries \in Nat /\ MaxQueue \in Nat
  /\ MaxActiveJobs \in Nat
  /\ \A S \in SUBSET Workers : IsFiniteSet(S) /\ Cardinality(S) \in Nat
<1>1. \A S \in SUBSET Workers : IsFiniteSet(S) /\ Cardinality(S) \in Nat
  BY Finite
<1>2. Cardinality(Workers) \in Nat
  BY <1>1
<1> QED BY <1>1, <1>2, EngineAssumption

(***************************************************************************)
(* _ensure_workers brings the pool up to the number of queued prompts, or  *)
(* to its size, and starts workers without touching the ones that exist.   *)
(***************************************************************************)
LEMMA EnsureFacts ==
  ASSUME NEW pending \in Nat, ensure_workers(pending),
         stage \in [Workers -> Stage], Cardinality(Live) <= PoolSize
  PROVE  /\ Cardinality(Live') <= PoolSize
         /\ Cardinality(Live') >= Smaller(PoolSize, pending)
         /\ \A w \in Workers : \/ stage'[w] = stage[w]
                               \/ stage[w] = "off" /\ stage'[w] = "new"
<1> DEFINE target == Smaller(PoolSize, Larger(1, pending))
           spawn == Larger(0, target - Cardinality(Live))
<1>1. PICK new \in SUBSET (Workers \ Live) :
        /\ Cardinality(new) = spawn
        /\ stage' = [w \in Workers |-> IF w \in new THEN "new" ELSE stage[w]]
  BY DEF ensure_workers
<1>2. Live' = Live \cup new /\ Live \cap new = {}
  BY <1>1 DEF Live
<1>3. /\ Live \in SUBSET Workers /\ new \in SUBSET Workers
  BY DEF Live
<1>4. /\ IsFiniteSet(Live) /\ IsFiniteSet(new)
      /\ Cardinality(Live) \in Nat /\ Cardinality(new) \in Nat
      /\ PoolSize \in Nat \ {0}
  BY <1>3, PoolTypes
<1>5. Cardinality(Live') = Cardinality(Live) + Cardinality(new)
  <2>1. Cardinality(Live \cup new)
          = Cardinality(Live) + Cardinality(new) - Cardinality(Live \cap new)
    BY <1>4, FS_Union
  <2>2. Cardinality(Live \cap new) = 0
    BY <1>2, FS_EmptySet
  <2> QED BY <1>2, <1>4, <2>1, <2>2
<1>6. /\ target \in Nat /\ target <= PoolSize
      /\ target >= Smaller(PoolSize, pending)
  BY <1>4 DEF Smaller, Larger
<1>7. /\ spawn >= target - Cardinality(Live) /\ spawn \in Int
      /\ spawn = 0 \/ spawn = target - Cardinality(Live)
  BY <1>4, <1>6 DEF Larger
<1>8. Smaller(PoolSize, pending) \in Nat
  BY <1>4 DEF Smaller
<1> HIDE DEF target, spawn
<1>9. /\ Cardinality(Live') <= PoolSize
      /\ Cardinality(Live') >= Smaller(PoolSize, pending)
  <2> DEFINE a == Cardinality(Live)
             b == Cardinality(Live')
             c == Smaller(PoolSize, pending)
  <2>1. b = a + spawn /\ a \in Nat /\ a <= PoolSize /\ c \in Nat /\ target >= c
        /\ spawn >= target - a /\ (spawn = 0 \/ spawn = target - a)
    BY <1>1, <1>4, <1>5, <1>6, <1>7, <1>8
  <2> HIDE DEF a, b, c
  <2>2. b <= PoolSize /\ b >= c
    BY <1>4, <1>6, <1>7, <2>1
  <2> QED BY <2>2 DEF b, c
<1>10. \A w \in Workers : \/ stage'[w] = stage[w]
                          \/ stage[w] = "off" /\ stage'[w] = "new"
  BY <1>1 DEF Live
<1> QED BY <1>9, <1>10

(* The pool still follows the queue when neither loses a worker nor gains  *)
(* a prompt,                                                               *)
LEMMA PoolSteady ==
  ASSUME PoolFollowsQueue, Live' = Live, sched.pending \in Nat,
         sched'.pending \in Nat, sched'.pending <= sched.pending,
         Serving' => Serving
  PROVE  PoolFollowsQueue'
<1>1. Live \in SUBSET Workers
  BY DEF Live
<1>2. Cardinality(Live) \in Nat /\ PoolSize \in Nat
  BY <1>1, PoolTypes
<1>3. Smaller(PoolSize, sched'.pending) <= Smaller(PoolSize, sched.pending)
      /\ Smaller(PoolSize, sched'.pending) \in Nat
      /\ Smaller(PoolSize, sched.pending) \in Nat
  BY <1>2 DEF Smaller
<1>4. Cardinality(Live') = Cardinality(Live)
  OBVIOUS
<1>5. Serving => Cardinality(Live) >= Smaller(PoolSize, sched.pending)
  BY DEF PoolFollowsQueue, Serving
<1>6. Cardinality(Live) <= PoolSize
  BY DEF PoolFollowsQueue
<1>7. Serving' => Cardinality(Live') >= Smaller(PoolSize, sched'.pending)
  BY <1>2, <1>3, <1>4, <1>5
<1> QED BY <1>4, <1>6, <1>7 DEF PoolFollowsQueue, Serving

(* and when a worker ends that found nothing, or after the workers were    *)
(* cancelled.                                                              *)
LEMMA PoolShrinks ==
  ASSUME PoolFollowsQueue, Live' \subseteq Live,
         sched'.pending = 0 \/ ~Serving'
  PROVE  PoolFollowsQueue'
<1>1. Live \in SUBSET Workers /\ Live' \in SUBSET Live
  BY DEF Live
<1>2. /\ Cardinality(Live) \in Nat /\ PoolSize \in Nat
      /\ Cardinality(Live') \in Nat /\ Cardinality(Live') <= Cardinality(Live)
  <2>1. IsFiniteSet(Live) /\ Cardinality(Live) \in Nat
    BY <1>1, PoolTypes
  <2>2. Live' \in SUBSET Workers
    BY <1>1
  <2> QED BY <1>1, <2>1, <2>2, PoolTypes, FS_Subset
<1>3. Cardinality(Live') <= PoolSize
  BY <1>2 DEF PoolFollowsQueue
<1>4. sched'.pending = 0 => Cardinality(Live') >= Smaller(PoolSize, sched'.pending)
  BY <1>2 DEF Smaller
<1> QED BY <1>3, <1>4 DEF PoolFollowsQueue, Serving

-----------------------------------------------------------------------------
(* The invariant, step by step.                                            *)

(* What the invariant says of the types.                                   *)
LEMMA InvTypes ==
  ASSUME EngineInv
  PROVE  /\ stage \in [Workers -> Stage] /\ holders \in SUBSET Workers
         /\ item \in [Workers -> WorkItem \cup {NoItem}]
         /\ attempt \in [Workers -> 0..(MaxRetries + 1)]
         /\ jobs \in [Jobs -> JobRecord]
         /\ SchedOK(sched) /\ Exact(sched) /\ sched.pending \in Nat
         /\ \A j \in Jobs : JobOK(jobs[j])
<1>1. stage \in [Workers -> Stage] /\ holders \in SUBSET Workers
  BY LimInvParts DEF EngineInv, LinkInv, Placed
<1>2. /\ item \in [Workers -> WorkItem \cup {NoItem}]
      /\ jobs \in [Jobs -> JobRecord] /\ SchedOK(sched) /\ Exact(sched)
      /\ \A j \in Jobs : JobOK(jobs[j])
  BY DEF EngineInv, JobsInv, PromptsOK, ItemsOK, PlacesOK
<1>3. attempt \in [Workers -> 0..(MaxRetries + 1)]
  BY DEF EngineInv, JobsInv, WorkersOK
<1> QED BY <1>1, <1>2, <1>3 DEF SchedOK, SchedulerState

(***************************************************************************)
(* The top of the worker loop, entered with the jobs js and with whatever  *)
(* item the worker held already recorded.  The three cases are the three   *)
(* ways through it: sleep, end, or take the next prompt.                   *)
(***************************************************************************)
LEMMA LoopStep ==
  ASSUME EngineInv, NEW w \in Workers, NEW l, NEW js,
         Serving, phase' = phase, stage[w] # "off",
         PromptsOK(js, sched, [item EXCEPT ![w] = NoItem], TRUE),
         KeysOK(js, sched), worker_loop(w, l, js)
  PROVE  /\ PromptsOK(jobs', sched', item', TRUE)
         /\ KeysOK(jobs, sched)' /\ WorkersOK'
         /\ PoolFollowsQueue' /\ sched'.pending <= sched.pending
         /\ jobs' = js
<1> DEFINE d == [item EXCEPT ![w] = NoItem]
           got == [job |-> PopJob(sched), seq |-> PopItem(sched)]
<1>1. /\ jobs' = js /\ Serving' /\ phase \in {"up", "draining"}
      /\ sched.pending \in Nat /\ SchedOK(sched) /\ Exact(sched)
  BY InvTypes DEF worker_loop, Serving
<1>2. /\ stage \in [Workers -> Stage] /\ attempt \in [Workers -> 0..(MaxRetries + 1)]
      /\ item \in [Workers -> WorkItem \cup {NoItem}]
      /\ holders = {v \in Workers : item[v] # NoItem}
      /\ MaxRetries \in Nat
  BY InvTypes, PoolTypes DEF EngineInv, JobsInv, WorkersOK
<1>3. /\ d \in [Workers -> WorkItem \cup {NoItem}] /\ d[w] = NoItem
      /\ \A v \in Workers \ {w} : d[v] = item[v]
  BY <1>2
<1>4. PoolFollowsQueue
  BY DEF EngineInv, JobsInv, LoadOK
<1>5. \A v \in Workers : /\ stage[v] # "skip" /\ stage[v] # "cancelled"
                         /\ stage[v] = "backoff" => attempt[v] <= MaxRetries
  BY DEF EngineInv, JobsInv, WorkersOK
<1>6. CASE ~CanAcquire(l)
  <2>1. /\ sched' = sched /\ item' = d /\ holders' = holders \ {w}
        /\ stage' = [stage EXCEPT ![w] = "waiting"]
        /\ attempt' = [attempt EXCEPT ![w] = 0]
    BY <1>6 DEF worker_loop, LimLoop
  <2>2. PromptsOK(jobs', sched', item', TRUE)
    BY <1>1, <2>1
  <2>3. WorkersOK'
    <3>1. holders' = {v \in Workers : item'[v] # NoItem}
      BY <1>2, <1>3, <2>1
    <3>2. attempt' \in [Workers -> 0..(MaxRetries + 1)]
      BY <1>2, <2>1
    <3> QED BY <1>1, <1>2, <1>5, <2>1, <3>1, <3>2
            DEF WorkersOK, Serving, Phase
  <2>4. Live' = Live
    BY <1>2, <2>1 DEF Live
  <2>5. sched'.pending <= sched.pending /\ sched'.pending \in Nat
    BY <1>1, <2>1
  <2>6. PoolFollowsQueue'
    BY <1>1, <1>4, <2>4, <2>5, PoolSteady
  <2>7. KeysOK(jobs, sched)'
    BY <1>1, <2>1 DEF KeysOK
  <2> QED BY <1>1, <2>2, <2>3, <2>5, <2>6, <2>7
<1>7. CASE CanAcquire(l) /\ PopReturnsNone(sched)
  <2>1. /\ sched' = Popped(sched) /\ item' = d /\ holders' = holders \ {w}
        /\ stage' = [stage EXCEPT ![w] = "off"]
        /\ attempt' = [attempt EXCEPT ![w] = 0]
    BY <1>7 DEF worker_loop, LimLoop
  <2>2. PromptsOK(jobs', sched', item', TRUE)
    <3> HIDE DEF d
    <3> QED BY <1>1, <1>7, <2>1, PopNonePart DEF d
  <2>3. WorkersOK'
    <3>1. holders' = {v \in Workers : item'[v] # NoItem}
      BY <1>2, <1>3, <2>1
    <3>2. attempt' \in [Workers -> 0..(MaxRetries + 1)]
      BY <1>2, <2>1
    <3> QED BY <1>1, <1>2, <1>5, <2>1, <3>1, <3>2
            DEF WorkersOK, Serving, Phase
  <2>4. sched'.keys = {} /\ sched'.pending = 0 /\ sched.pending = 0
    BY <1>1, <1>7, <2>1, PopNothing
  <2>5. Live' \subseteq Live
    BY <1>2, <2>1 DEF Live
  <2>6. PoolFollowsQueue'
    BY <1>4, <2>4, <2>5, PoolShrinks
  <2>7. KeysOK(jobs, sched)'
    BY <2>4 DEF KeysOK
  <2>8. sched'.pending <= sched.pending
    BY <2>4
  <2> QED BY <1>1, <2>2, <2>3, <2>6, <2>7, <2>8
<1>8. CASE CanAcquire(l) /\ ~PopReturnsNone(sched)
  <2>1. /\ got \in WorkItem /\ got.job \in sched.keys
        /\ PromptsOK(js, Popped(sched), [d EXCEPT ![w] = got], TRUE)
    <3> HIDE DEF d
    <3> QED BY <1>3, <1>8, PopPart DEF d
  <2>2. js[got.job].state # "cancelled"
    <3>1. got.job \in Jobs
      BY <2>1 DEF WorkItem
    <3> HIDE DEF got
    <3> QED BY <1>1, <2>1, <3>1 DEF KeysOK
  <2>3. /\ sched' = Popped(sched) /\ item' = [item EXCEPT ![w] = got]
        /\ holders' = holders \cup {w}
        /\ stage' = [stage EXCEPT ![w] = "calling"]
        /\ attempt' = [attempt EXCEPT ![w] = 1]
    BY <1>8, <2>2 DEF worker_loop, LimLoop
  <2> HIDE DEF got
  <2>4. item' = [d EXCEPT ![w] = got]
    BY <1>2, <2>3
  <2>5. PromptsOK(jobs', sched', item', TRUE)
    BY <1>1, <2>1, <2>3, <2>4
  <2>6. WorkersOK'
    <3>1. got # NoItem
      BY <2>1, NoItemFacts
    <3>2. holders' = {v \in Workers : item'[v] # NoItem}
      BY <1>2, <2>3, <3>1
    <3>3. attempt' \in [Workers -> 0..(MaxRetries + 1)]
      BY <1>2, <2>3
    <3> QED BY <1>1, <1>2, <1>5, <2>3, <3>2, <3>3
            DEF WorkersOK, Serving, Phase
  <2>7. /\ SchedOK(sched') /\ sched'.keys \subseteq sched.keys
        /\ sched'.pending = sched.pending - 1
    BY <1>1, <1>8, <2>3, PopOne
  <2>8. sched'.pending <= sched.pending /\ sched'.pending \in Nat
    BY <1>1, <2>7 DEF SchedOK, SchedulerState
  <2>9. Live' = Live
    BY <1>2, <2>3 DEF Live
  <2>10. PoolFollowsQueue'
    BY <1>1, <1>4, <2>8, <2>9, PoolSteady
  <2>11. KeysOK(jobs, sched)'
    BY <1>1, <2>7 DEF KeysOK
  <2> QED BY <1>1, <2>5, <2>6, <2>8, <2>10, <2>11
<1> QED BY <1>6, <1>7, <1>8

(* Nothing lost is the stronger claim.                                     *)
LEMMA FullFlag ==
  ASSUME NEW js, NEW s, NEW it
  PROVE  /\ \A full : PromptsOK(js, s, it, TRUE) => PromptsOK(js, s, it, full)
         /\ \A full : full /\ PromptsOK(js, s, it, full) => PromptsOK(js, s, it, TRUE)
         /\ \A full : PromptsOK(js, s, it, full) => PromptsOK(js, s, it, FALSE)
BY DEF PromptsOK, PlacesOK

(* The index is right as long as no job and no key changes hands.          *)
LEMMA IndexSteady ==
  ASSUME IndexOK, byKey' = byKey, \A j \in Jobs : jobs'[j].key = jobs[j].key
  PROVE  IndexOK'
<1>1. ASSUME NEW k \in Keys
      PROVE  {j \in Jobs : jobs'[j].key = k} = {byKey'[k]} \ {None}
  <2>1. {j \in Jobs : jobs'[j].key = k} = {j \in Jobs : jobs[j].key = k}
    OBVIOUS
  <2> QED BY <2>1 DEF IndexOK, OneJobPerKey
<1> QED BY <1>1 DEF IndexOK, OneJobPerKey

(* Sets of jobs can be counted.                                            *)
LEMMA JobSets ==
  ASSUME NEW S \in SUBSET Jobs
  PROVE  IsFiniteSet(S) /\ Cardinality(S) \in Nat
BY SchedulerAssumption, FS_Subset, FS_CardinalityType

(* A step that makes no job run and queues no prompt keeps both bounds.    *)
LEMMA BackpressureSteady ==
  ASSUME Backpressure, active' = {j \in Jobs : jobs'[j].state = "running"},
         active' \subseteq active, sched.pending \in Nat, sched'.pending \in Nat,
         sched'.pending <= sched.pending
  PROVE  Backpressure'
<1>1. active \in SUBSET Jobs /\ active' \in SUBSET active
  BY DEF Backpressure
<1>2. IsFiniteSet(active) /\ Cardinality(active) \in Nat
  BY <1>1, JobSets
<1>3. Cardinality(active') \in Nat /\ Cardinality(active') <= Cardinality(active)
  <2>1. active' \in SUBSET Jobs
    BY <1>1
  <2> QED BY <1>1, <1>2, <2>1, JobSets, FS_Subset
<1>4. Cardinality(active') <= MaxActiveJobs /\ sched'.pending <= MaxQueue
  BY <1>2, <1>3, PoolTypes DEF Backpressure
<1> QED BY <1>4 DEF Backpressure

(* What the checks of submit_with_idempotency let through.                 *)
LEMMA AcceptedFacts ==
  ASSUME NEW n, NEW p, NEW key, SubmitOutcome(n, p, key) = "accepted"
  PROVE  /\ phase = "up" /\ (key # None => byKey[key] = None)
         /\ ~(Cardinality(active) >= MaxActiveJobs)
         /\ ~(sched.pending + n > MaxQueue)
<1> DEFINE existing == find_by_idempotency_key(key)
<1>1. accepting
  BY DEF SubmitOutcome
<1>2. existing = None
  <2> SUFFICES ASSUME existing # None PROVE FALSE
    OBVIOUS
  <2> QED BY <1>1 DEF SubmitOutcome
<1>3. /\ ~(Cardinality(active) >= MaxActiveJobs)
      /\ ~(sched.pending + n > MaxQueue)
  BY <1>1, <1>2 DEF SubmitOutcome
<1> QED BY <1>1, <1>2, <1>3 DEF accepting, find_by_idempotency_key

(***************************************************************************)
(* submit() keeps the invariant: the key was free, both bounds were        *)
(* checked before anything was added, and the pool grows with the queue.   *)
(***************************************************************************)
LEMMA SubmitKeeps ==
  ASSUME EngineInv, NEW j \in Jobs, NEW n \in 1..MaxBatch, NEW p \in Priorities,
         NEW key \in Keys \cup {None}, submit(j, n, p, key)
  PROVE  JobsInv'
<1> DEFINE r == NewJob(n, p, key, "running")
<1>1. /\ jobs[j].state = "none" /\ SubmitOutcome(n, p, key) = "accepted"
      /\ create(j, r)
      /\ active' = active \cup {j}
      /\ sched' = AddJob(sched, j, WorkItems(n), p)
      /\ ensure_workers(sched'.pending)
      /\ UNCHANGED <<lim, holders, item, attempt, phase>>
  BY DEF submit
<1>2. /\ phase = "up" /\ (key # None => byKey[key] = None)
      /\ ~(Cardinality(active) >= MaxActiveJobs)
      /\ ~(sched.pending + n > MaxQueue)
  BY <1>1, AcceptedFacts
<1>3. /\ r.state = "running" /\ r.key = key
  <2>1. p \in Priority /\ n \in 0..MaxBatch /\ n # 0
    BY SchedulerAssumption
  <2> QED BY <2>1, NewJobOK
<1>4. /\ jobs' = [jobs EXCEPT ![j] = r]
      /\ byKey' = IF r.key = None THEN byKey ELSE [byKey EXCEPT ![r.key] = j]
  BY <1>1 DEF create
<1> HIDE DEF r
<1>6. jobs'[j] = r /\ \A k \in Jobs \ {j} : jobs'[k] = jobs[k]
  BY <1>4, InvTypes
<1>7. PromptsOK(jobs, sched, item, TRUE) /\ KeysOK(jobs, sched)
  BY <1>2, FullFlag DEF EngineInv, JobsInv, Serving
<1>8. j \notin sched.keys
  BY <1>1, <1>7 DEF KeysOK
<1>9. PromptsOK(jobs', sched', item', Serving')
  <2>1. PromptsOK(jobs', sched', item', TRUE)
    BY <1>1, <1>4, <1>7, <1>8, AddPart DEF r
  <2> QED BY <2>1, FullFlag
<1>10. /\ sched'.keys = sched.keys \cup {j}
       /\ sched'.pending = sched.pending + n /\ SchedOK(sched')
  BY <1>1, <1>8, InvTypes, AddStep
<1>11. KeysOK(jobs, sched)'
  BY <1>1, <1>3, <1>6, <1>7, <1>10 DEF KeysOK
<1>12. /\ sched'.pending \in Nat /\ sched.pending \in Nat /\ n \in Nat
       /\ sched'.pending <= MaxQueue
  BY <1>2, <1>10, InvTypes, PoolTypes, SchedulerAssumption
<1>13. PoolFollowsQueue /\ Backpressure
  BY DEF EngineInv, JobsInv, LoadOK
<1>14. /\ Cardinality(Live') <= PoolSize
       /\ Cardinality(Live') >= Smaller(PoolSize, sched'.pending)
       /\ \A w \in Workers : \/ stage'[w] = stage[w]
                             \/ stage[w] = "off" /\ stage'[w] = "new"
  <2>1. Cardinality(Live) <= PoolSize
    BY <1>13 DEF PoolFollowsQueue
  <2> DEFINE m == sched'.pending
  <2>2. m \in Nat /\ ensure_workers(m)
    BY <1>1, <1>12
  <2> HIDE DEF m
  <2>3. /\ Cardinality(Live') <= PoolSize
        /\ Cardinality(Live') >= Smaller(PoolSize, m)
        /\ \A w \in Workers : \/ stage'[w] = stage[w]
                              \/ stage[w] = "off" /\ stage'[w] = "new"
    BY <2>1, <2>2, InvTypes, EnsureFacts
  <2> QED BY <2>3 DEF m
<1>15. WorkersOK'
  BY <1>1, <1>2, <1>14 DEF EngineInv, JobsInv, WorkersOK, Serving
<1>16. PoolFollowsQueue'
  BY <1>14 DEF PoolFollowsQueue
<1>17. Backpressure'
  <2>1. active' = {k \in Jobs : jobs'[k].state = "running"}
    BY <1>1, <1>3, <1>6, <1>13 DEF Backpressure
  <2>2. active \in SUBSET Jobs /\ j \notin active
    BY <1>1, <1>13 DEF Backpressure
  <2>3. Cardinality(active') = Cardinality(active) + 1
        /\ Cardinality(active) \in Nat
    BY <1>1, <2>2, JobSets, FS_AddElement
  <2>4. Cardinality(active') <= MaxActiveJobs
    BY <1>2, <2>3, PoolTypes
  <2> QED BY <1>12, <2>1, <2>4 DEF Backpressure
<1>18. LoadOK'
  BY <1>1, <1>2, <1>16, <1>17 DEF LoadOK
<1>19. IndexOK'
  <2>1. IndexOK /\ jobs[j].key = None
    BY <1>1, InvTypes DEF EngineInv, JobsInv, JobOK
  <2>2. byKey' \in [Keys -> Jobs \cup {None}]
    BY <1>3, <1>4, <2>1 DEF IndexOK
  <2>3. ASSUME NEW k \in Keys
        PROVE  {i \in Jobs : jobs'[i].key = k} = {byKey'[k]} \ {None}
    <3>1. /\ {i \in Jobs : jobs[i].key = k} = {byKey[k]} \ {None} /\ k # None
          /\ j # None
      BY <2>1, EngineAssumption DEF IndexOK, OneJobPerKey
    <3>2. CASE k = key
      <4>1. byKey[k] = None /\ byKey'[k] = j
        BY <1>2, <1>3, <1>4, <2>1, <3>1, <3>2 DEF IndexOK
      <4>2. {i \in Jobs : jobs'[i].key = k} = {j}
        BY <1>3, <1>6, <3>1, <3>2, <4>1
      <4> QED BY <3>1, <4>1, <4>2
    <3>3. CASE k # key
      <4>1. byKey'[k] = byKey[k]
        BY <1>3, <1>4, <2>1, <3>3 DEF IndexOK
      <4>2. {i \in Jobs : jobs'[i].key = k} = {i \in Jobs : jobs[i].key = k}
        BY <1>3, <1>6, <2>1, <3>1, <3>3
      <4> QED BY <3>1, <4>1, <4>2
    <3> QED BY <3>2, <3>3
  <2> QED BY <2>2, <2>3 DEF IndexOK, OneJobPerKey
<1> QED BY <1>9, <1>11, <1>15, <1>18, <1>19 DEF JobsInv

(* cancel() takes the prompts out of the scheduler and the job out of      *)
(* _active; prompts in flight stay with their workers.                     *)
LEMMA CancelKeeps ==
  ASSUME EngineInv, NEW j \in Jobs, cancel(j)
  PROVE  JobsInv'
<1>1. /\ jobs[j].state = "running" /\ sched' = RemoveJob(sched, j)
      /\ jobs' = [jobs EXCEPT ![j].state = "cancelled"]
      /\ active' = active \ {j}
      /\ UNCHANGED <<lim, holders, byKey, stage, item, attempt, phase>>
  BY DEF cancel
<1>2. jobs' = CancelIn(jobs, {j})
  <2>1. jobs \in [Jobs -> JobRecord]
    BY InvTypes
  <2> QED BY <1>1, <2>1 DEF CancelIn
<1>3. PromptsOK(jobs, sched, item, Serving) /\ KeysOK(jobs, sched)
      /\ Backpressure /\ PoolFollowsQueue /\ IndexOK
  BY DEF EngineInv, JobsInv, LoadOK
<1> DEFINE S == {j}
<1>4. S \in SUBSET Jobs /\ \A i \in S : jobs[i].state = "running"
  BY <1>1
<1>5. /\ PromptsOK(jobs', sched, item, Serving)
      /\ \A i \in Jobs :
           /\ jobs'[i].state = IF i \in S THEN "cancelled" ELSE jobs[i].state
           /\ jobs'[i].key = jobs[i].key
  <2> HIDE DEF S
  <2> QED BY <1>2, <1>3, <1>4, CancelPart DEF S
<1>6. PromptsOK(jobs', sched', item', Serving')
  <2>1. PromptsOK(jobs', sched', item, Serving)
    <3>1. jobs'[j].state # "running"
      BY <1>5
    <3> QED BY <1>1, <1>5, <3>1, RemovePart
  <2> QED BY <1>1, <2>1 DEF Serving
<1>7. /\ sched'.keys = sched.keys \ {j} /\ sched'.pending <= sched.pending
      /\ SchedOK(sched')
  BY <1>1, InvTypes, RemoveStep
<1>8. KeysOK(jobs, sched)'
  BY <1>1, <1>3, <1>5, <1>7 DEF KeysOK
<1>9. WorkersOK'
  BY <1>1 DEF EngineInv, JobsInv, WorkersOK, Serving
<1>10. sched.pending \in Nat /\ sched'.pending \in Nat
  BY <1>7, InvTypes DEF SchedOK, SchedulerState
<1>11. Backpressure'
  <2>1. active' = {i \in Jobs : jobs'[i].state = "running"}
    BY <1>1, <1>3, <1>5 DEF Backpressure
  <2> QED BY <1>1, <1>3, <1>7, <1>10, <2>1, BackpressureSteady
<1>12. PoolFollowsQueue'
  <2>1. Live' = Live /\ (Serving' => Serving)
    BY <1>1 DEF Live, Serving
  <2> QED BY <1>3, <1>7, <1>10, <2>1, PoolSteady
<1>13. LoadOK'
  BY <1>1, <1>11, <1>12 DEF EngineInv, JobsInv, LoadOK
<1>14. IndexOK'
  BY <1>1, <1>3, <1>5, IndexSteady
<1> QED BY <1>6, <1>8, <1>9, <1>13, <1>14 DEF JobsInv

(* Where a worker is suspended says whether it holds an item.              *)
LEMMA StageItem ==
  ASSUME EngineInv, NEW w \in Workers
  PROVE  /\ stage[w] \in {"off", "new", "waiting"} => item[w] = NoItem
         /\ stage[w] \in {"calling", "backoff"} => item[w] # NoItem
         /\ stage[w] \in {"new", "waiting", "calling", "backoff"} => Serving
<1>1. PlacedAs(stage[w], lim, holders, w) /\ stage[w] \in Stage
  BY DEF EngineInv, LinkInv, Placed
<1>2. w \in holders <=> item[w] # NoItem
  BY DEF EngineInv, JobsInv, WorkersOK
<1>3. /\ phase \in Phase
      /\ phase = "cancelling" => stage[w] \in {"off", "cancelled"}
      /\ phase = "down" => stage[w] = "off"
  BY DEF EngineInv, JobsInv, WorkersOK
<1> QED BY <1>1, <1>2, <1>3 DEF PlacedAs, Holding, Serving, Phase

(* A worker that starts or wakes up enters the loop with nothing to        *)
(* record.                                                                 *)
LEMMA EnterKeeps ==
  ASSUME EngineInv, NEW w \in Workers, Start(w) \/ Resume(w)
  PROVE  JobsInv'
<1>1. PICK l : /\ stage[w] \in {"new", "waiting"} /\ worker_loop(w, l, jobs)
               /\ UNCHANGED <<byKey, active, phase>>
  BY DEF Start, Resume
<1>2. Serving /\ item[w] = NoItem /\ stage[w] # "off"
  BY <1>1, StageItem
<1>3. [item EXCEPT ![w] = NoItem] = item
  BY <1>2, InvTypes
<1>4. /\ PromptsOK(jobs, sched, [item EXCEPT ![w] = NoItem], TRUE)
      /\ KeysOK(jobs, sched) /\ Backpressure /\ IndexOK
  BY <1>2, <1>3, FullFlag DEF EngineInv, JobsInv, LoadOK
<1>5. /\ PromptsOK(jobs', sched', item', TRUE)
      /\ KeysOK(jobs, sched)' /\ WorkersOK'
      /\ PoolFollowsQueue' /\ sched'.pending <= sched.pending
      /\ jobs' = jobs
  BY <1>1, <1>2, <1>4, LoopStep
<1>6. PromptsOK(jobs', sched', item', Serving')
  BY <1>5, FullFlag
<1>7. sched.pending \in Nat /\ sched'.pending \in Nat
  BY <1>5, InvTypes DEF PromptsOK, SchedOK, SchedulerState
<1>8. Backpressure'
  BY <1>1, <1>4, <1>5, <1>7, BackpressureSteady DEF Backpressure
<1>9. LoadOK'
  BY <1>1, <1>2, <1>5, <1>8 DEF LoadOK, Serving
<1>10. IndexOK'
  BY <1>1, <1>4, <1>5, IndexSteady
<1> QED BY <1>5, <1>6, <1>9, <1>10 DEF JobsInv

(***************************************************************************)
(* The job of a prompt whose answer arrives: it runs or is cancelled, and  *)
(* has room for one more answer.                                           *)
(***************************************************************************)
LEMMA AnswerFacts ==
  ASSUME EngineInv, NEW w \in Workers, item[w] # NoItem, NEW ok \in BOOLEAN
  PROVE  LET j  == item[w].job
             s  == item[w].seq
             js == Recorded(item[w], ok)
         IN  /\ j \in Jobs /\ s \in Seqs /\ jobs[j].results[s] = "none"
             /\ js = [jobs EXCEPT ![j] = After(jobs[j], s, ok)]
             /\ js[j] = After(jobs[j], s, ok)
             /\ \A k \in Jobs \ {j} : js[k] = jobs[k]
             /\ js[j].key = jobs[j].key
             /\ \A t \in Seqs \ {s} : js[j].results[t] = jobs[j].results[t]
             /\ jobs[j].state \in {"running", "cancelled"}
             /\ jobs[j].completed < jobs[j].total
             /\ js[j].state =
                  IF jobs[j].completed + 1 = jobs[j].total
                       /\ jobs[j].state = "running"
                  THEN "completed" ELSE jobs[j].state
<1> DEFINE x == item[w]
           j == x.job
           s == x.seq
           js == Recorded(x, ok)
           r == jobs[j]
<1>1. /\ x \in WorkItem
      /\ js = [jobs EXCEPT ![j] = After(r, s, ok)]
      /\ s \in 0..(r.total - 1) /\ r.results[s] = "none"
  BY RecordPart DEF EngineInv, JobsInv
<1>2. j \in Jobs /\ s \in Seqs
  BY <1>1 DEF WorkItem
<1>3. JobOK(r) /\ jobs \in [Jobs -> JobRecord]
  BY <1>2, InvTypes
<1> HIDE DEF x, js
<1>4. js[j] = After(r, s, ok) /\ \A k \in Jobs \ {j} : js[k] = jobs[k]
  BY <1>1, <1>2, <1>3
<1>5. LET a == After(r, s, ok)
      IN  /\ a.key = r.key
          /\ \A t \in Seqs \ {s} : a.results[t] = r.results[t]
          /\ r.state \in {"running", "cancelled"}
          /\ r.completed < r.total
          /\ a.state = IF r.completed + 1 = r.total /\ r.state = "running"
                       THEN "completed" ELSE r.state
  BY <1>1, <1>3, AfterOK
<1> QED BY <1>1, <1>2, <1>4, <1>5 DEF x, js

(***************************************************************************)
(* _process: the answer is recorded, the job leaves _active exactly when   *)
(* it completes, and the worker goes on to the next prompt.                *)
(***************************************************************************)
LEMMA ProcessKeeps ==
  ASSUME EngineInv, NEW w \in Workers, NEW ok \in BOOLEAN,
         stage[w] = "calling", Process(w, ok)
  PROVE  JobsInv' /\ jobs' = Recorded(item[w], ok)
<1> DEFINE j == item[w].job
           js == Recorded(item[w], ok)
<1>1. PICK l : /\ worker_loop(w, l, js)
               /\ active' = IF js[j].state # jobs[j].state THEN active \ {j}
                            ELSE active
               /\ UNCHANGED <<byKey, phase>>
  BY DEF Process
<1>2. Serving /\ item[w] # NoItem /\ stage[w] # "off"
  BY StageItem
<1>3. /\ PromptsOK(jobs, sched, item, TRUE)
      /\ KeysOK(jobs, sched) /\ Backpressure /\ IndexOK
  BY <1>2, FullFlag DEF EngineInv, JobsInv, LoadOK
<1>4. PromptsOK(js, sched, [item EXCEPT ![w] = NoItem], TRUE)
  BY <1>2, <1>3, RecordPart
<1>5. /\ j \in Jobs /\ \A k \in Jobs \ {j} : js[k] = jobs[k]
      /\ js[j].key = jobs[j].key
      /\ jobs[j].state \in {"running", "cancelled"}
      /\ js[j].state = jobs[j].state
         \/ (jobs[j].state = "running" /\ js[j].state = "completed")
  BY <1>2, AnswerFacts
<1> HIDE DEF j, js
<1>6. KeysOK(js, sched)
  BY <1>3, <1>5 DEF KeysOK
<1>7. /\ PromptsOK(jobs', sched', item', TRUE)
      /\ KeysOK(jobs, sched)' /\ WorkersOK'
      /\ PoolFollowsQueue' /\ sched'.pending <= sched.pending
      /\ jobs' = js
  BY <1>1, <1>2, <1>4, <1>6, LoopStep
<1>8. PromptsOK(jobs', sched', item', Serving')
  BY <1>7, FullFlag
<1>9. sched.pending \in Nat /\ sched'.pending \in Nat
  BY <1>7, InvTypes DEF PromptsOK, SchedOK, SchedulerState
<1>10. Backpressure'
  <2>1. active' = {k \in Jobs : jobs'[k].state = "running"}
    BY <1>1, <1>3, <1>5, <1>7 DEF Backpressure
  <2>2. active' \subseteq active
    BY <1>1
  <2> QED BY <1>3, <1>7, <1>9, <2>1, <2>2, BackpressureSteady
<1>11. LoadOK'
  BY <1>1, <1>2, <1>7, <1>10 DEF LoadOK, Serving
<1>12. IndexOK'
  <2>1. \A k \in Jobs : jobs'[k].key = jobs[k].key
    BY <1>5, <1>7
  <2> QED BY <1>1, <1>3, <2>1, IndexSteady
<1> QED BY <1>7, <1>8, <1>11, <1>12 DEF JobsInv, js

(* A throttled call and the end of its backoff move no prompt.             *)
LEMMA BackoffKeeps ==
  ASSUME EngineInv, NEW w \in Workers, RateLimited(w) \/ BackoffElapsed(w)
  PROVE  JobsInv' /\ jobs' = jobs
<1>1. /\ UNCHANGED <<sched, jobs, byKey, active, item, phase, holders>>
      /\ stage[w] \in {"calling", "backoff"}
      /\ \/ /\ stage' = [stage EXCEPT ![w] = "backoff"]
            /\ attempt' = attempt /\ attempt[w] <= MaxRetries
         \/ /\ stage' = [stage EXCEPT ![w] = "calling"]
            /\ stage[w] = "backoff"
            /\ attempt' = [attempt EXCEPT ![w] = @ + 1]
  BY DEF RateLimited, BackoffElapsed, LimThrottle
<1>2. /\ stage \in [Workers -> Stage]
      /\ attempt \in [Workers -> 0..(MaxRetries + 1)] /\ MaxRetries \in Nat
      /\ WorkersOK
  BY InvTypes, PoolTypes DEF EngineInv, JobsInv
<1>3. Serving
  BY <1>1, StageItem
<1>4. attempt' \in [Workers -> 0..(MaxRetries + 1)]
  BY <1>1, <1>2 DEF WorkersOK
<1>5. WorkersOK'
  BY <1>1, <1>2, <1>3, <1>4 DEF WorkersOK, Serving, Phase
<1>6. Live' = Live
  BY <1>1, <1>2 DEF Live
<1>7. PoolFollowsQueue'
  BY <1>1, <1>6 DEF EngineInv, JobsInv, LoadOK, PoolFollowsQueue
<1>8. Backpressure' /\ LoadOK'
  BY <1>1, <1>7 DEF EngineInv, JobsInv, LoadOK, Backpressure
<1>9. PromptsOK(jobs', sched', item', Serving') /\ KeysOK(jobs, sched)'
  BY <1>1 DEF EngineInv, JobsInv, Serving, KeysOK
<1>10. IndexOK'
  BY <1>1, IndexSteady DEF EngineInv, JobsInv
<1> QED BY <1>1, <1>5, <1>8, <1>9, <1>10 DEF JobsInv

(* A cancelled worker ends, in the phase after the grace period only.      *)
LEMMA UnwindKeeps ==
  ASSUME EngineInv, NEW w \in Workers, Unwind(w)
  PROVE  JobsInv' /\ jobs' = jobs
<1>1. /\ stage[w] = "cancelled" /\ stage' = [stage EXCEPT ![w] = "off"]
      /\ item' = [item EXCEPT ![w] = NoItem]
      /\ attempt' = [attempt EXCEPT ![w] = 0]
      /\ UNCHANGED <<sched, jobs, byKey, active, phase>>
      /\ holders' = holders \ {w}
  BY DEF Unwind, LimUnwind
<1>2. /\ stage \in [Workers -> Stage] /\ MaxRetries \in Nat
      /\ attempt \in [Workers -> 0..(MaxRetries + 1)]
      /\ item \in [Workers -> WorkItem \cup {NoItem}] /\ WorkersOK
  BY InvTypes, PoolTypes DEF EngineInv, JobsInv
<1>3. phase = "cancelling" /\ ~Serving /\ ~Serving'
  BY <1>1, <1>2 DEF WorkersOK, Serving, Phase
<1>4. PromptsOK(jobs', sched', item', Serving')
  <2>1. PromptsOK(jobs, sched, [item EXCEPT ![w] = NoItem], FALSE)
    BY DropPart DEF EngineInv, JobsInv
  <2> QED BY <1>1, <1>3, <2>1 DEF PromptsOK, PlacesOK
<1>5. WorkersOK'
  <2>1. holders' = {v \in Workers : item'[v] # NoItem}
    BY <1>1, <1>2 DEF WorkersOK
  <2>2. attempt' \in [Workers -> 0..(MaxRetries + 1)]
    BY <1>1, <1>2
  <2> QED BY <1>1, <1>2, <1>3, <2>1, <2>2 DEF WorkersOK, Serving, Phase
<1>6. PoolFollowsQueue'
  <2>1. Live' \subseteq Live
    BY <1>1, <1>2 DEF Live
  <2> QED BY <1>3, <2>1, PoolShrinks DEF EngineInv, JobsInv, LoadOK
<1>7. LoadOK'
  BY <1>1, <1>6 DEF EngineInv, JobsInv, LoadOK, Backpressure
<1>8. KeysOK(jobs, sched)'
  BY <1>1 DEF EngineInv, JobsInv, KeysOK
<1>9. IndexOK'
  BY <1>1, IndexSteady DEF EngineInv, JobsInv
<1> QED BY <1>1, <1>4, <1>5, <1>7, <1>8, <1>9 DEF JobsInv

(* Shutdown begins, and when its grace period expires every worker that is *)
(* alive is cancelled: from then on prompts may be lost.                   *)
LEMMA DrainKeeps ==
  ASSUME EngineInv, BeginShutdown \/ GraceExpires
  PROVE  JobsInv' /\ jobs' = jobs
<1>1. /\ UNCHANGED <<sched, jobs, byKey, active, item, attempt, holders>>
      /\ \/ /\ phase = "up" /\ phase' = "draining" /\ stage' = stage
         \/ /\ phase = "draining" /\ phase' = "cancelling"
            /\ stage' = [w \in Workers |-> IF w \in Live THEN "cancelled" ELSE "off"]
  BY DEF BeginShutdown, GraceExpires, LimCancel
<1>2. stage \in [Workers -> Stage] /\ WorkersOK /\ Serving
  BY <1>1, InvTypes DEF EngineInv, JobsInv, Serving
<1>3. WorkersOK'
  BY <1>1, <1>2 DEF WorkersOK, Serving, Phase
<1>4. Live' = Live /\ (Serving' => Serving)
  BY <1>1, <1>2 DEF Live, Serving
<1>5. PoolFollowsQueue'
  BY <1>1, <1>2, <1>4 DEF EngineInv, JobsInv, LoadOK, PoolFollowsQueue, Serving
<1>6. LoadOK'
  BY <1>1, <1>5 DEF EngineInv, JobsInv, LoadOK, Backpressure
<1>7. PromptsOK(jobs', sched', item', Serving')
  BY <1>1, <1>2, FullFlag DEF EngineInv, JobsInv
<1>8. KeysOK(jobs, sched)'
  BY <1>1 DEF EngineInv, JobsInv, KeysOK
<1>9. IndexOK'
  BY <1>1, IndexSteady DEF EngineInv, JobsInv
<1> QED BY <1>1, <1>3, <1>6, <1>7, <1>8, <1>9 DEF JobsInv

(* The last step of shutdown() cancels the jobs that still run.            *)
LEMMA FinishKeepsJobs ==
  ASSUME EngineInv, FinishShutdown
  PROVE  JobsInv' /\ jobs' = CancelIn(jobs, active)
<1>1. /\ phase' = "down" /\ Live = {}
      /\ jobs' = [j \in Jobs |->
                    IF jobs[j].state = "running"
                    THEN [jobs[j] EXCEPT !.state = "cancelled"] ELSE jobs[j]]
      /\ active' = {j \in active : jobs[j].state # "running"}
      /\ UNCHANGED <<sched, lim, holders, byKey, stage, item, attempt>>
  BY DEF FinishShutdown
<1>2. PromptsOK(jobs, sched, item, Serving) /\ KeysOK(jobs, sched)
      /\ Backpressure /\ PoolFollowsQueue /\ IndexOK /\ WorkersOK
  BY DEF EngineInv, JobsInv, LoadOK
<1>3. active = {j \in Jobs : jobs[j].state = "running"}
  BY <1>2 DEF Backpressure
<1>4. jobs' = CancelIn(jobs, active)
  BY <1>1, <1>3 DEF CancelIn
<1>5. /\ PromptsOK(jobs', sched, item, Serving)
      /\ \A j \in Jobs :
           /\ jobs'[j].state = IF j \in active THEN "cancelled" ELSE jobs[j].state
           /\ jobs'[j].key = jobs[j].key
  BY <1>2, <1>3, <1>4, CancelPart
<1>6. PromptsOK(jobs', sched', item', Serving')
  BY <1>1, <1>5 DEF PromptsOK, PlacesOK, Serving
<1>7. active' = {} /\ active' = {j \in Jobs : jobs'[j].state = "running"}
  BY <1>1, <1>3, <1>5
<1>8. KeysOK(jobs, sched)'
  BY <1>1, <1>2, <1>3, <1>5 DEF KeysOK
<1>9. WorkersOK'
  BY <1>1, <1>2 DEF WorkersOK, Serving, Phase, Live
<1>10. sched.pending \in Nat /\ sched'.pending <= sched.pending
  BY <1>1, InvTypes
<1>11. Backpressure'
  BY <1>1, <1>2, <1>7, <1>10, BackpressureSteady
<1>12. PoolFollowsQueue'
  <2>1. Live' \subseteq Live /\ ~Serving'
    BY <1>1 DEF Live, Serving
  <2> QED BY <1>2, <2>1, PoolShrinks
<1>13. IndexOK'
  BY <1>1, <1>2, <1>5, IndexSteady
<1> QED BY <1>4, <1>6, <1>7, <1>8, <1>9, <1>11, <1>12, <1>13 DEF JobsInv, LoadOK

(* At first there is nothing.                                              *)
LEMMA JobsInit == Init => JobsInv
<1> SUFFICES ASSUME Init PROVE JobsInv
  OBVIOUS
<1> DEFINE r == NewJob(0, "normal", None, "none")
<1>1. JobOK(r) /\ DoneIn(r) = {} /\ r.state = "none" /\ r.total = 0 /\ r.key = None
  <2>1. 0 \in 0..MaxBatch /\ "normal" \in Priority
    BY Countable DEF Priority
  <2> QED BY <2>1, NewJobOK
<1>2. /\ jobs = [j \in Jobs |-> r] /\ byKey = [k \in Keys |-> None]
      /\ active = {} /\ stage = [w \in Workers |-> "off"]
      /\ item = [w \in Workers |-> NoItem] /\ attempt = [w \in Workers |-> 0]
      /\ phase = "up" /\ sched = EmptyScheduler /\ holders = {}
  BY DEF Init, SchedInit, LimInit
<1> HIDE DEF r
<1>3. /\ SchedOK(sched) /\ Exact(sched) /\ sched.keys = {} /\ sched.pending = 0
      /\ \A j \in Jobs : sched.items[j] = <<>>
  BY <1>2, NewSchedulerOK
<1>4. PromptsOK(jobs, sched, item, Serving)
  <2>1. ItemsOK(item)
    BY <1>2 DEF ItemsOK
  <2>2. jobs \in [Jobs -> JobRecord]
    BY <1>1, <1>2 DEF JobOK
  <2>3. ASSUME NEW j \in Jobs
        PROVE  PlacesOK(j, jobs[j], sched.items[j], item, Serving)
    <3>1. jobs[j] = r /\ Len(sched.items[j]) = 0
      BY <1>2, <1>3, EmptySeq
    <3> DEFINE q == sched.items[j]
    <3> HIDE DEF q
    <3>2. QueueOK(r, q) /\ HeldOK(j, r, q, item) /\ NoneLost(j, r, q, item)
      BY <1>1, <1>2, <3>1, NoItemFacts DEF QueueOK, HeldOK, NoneLost, q
    <3> QED BY <1>1, <3>1, <3>2 DEF PlacesOK, q
  <2> QED BY <1>3, <2>1, <2>2, <2>3 DEF PromptsOK
<1>5. KeysOK(jobs, sched)
  BY <1>3 DEF KeysOK
<1>6. WorkersOK
  <2>1. attempt \in [Workers -> 0..(MaxRetries + 1)]
    BY <1>2, PoolTypes
  <2> QED BY <1>2, <2>1 DEF WorkersOK, Serving, Phase
<1>7. IndexOK
  BY <1>1, <1>2, EngineAssumption DEF IndexOK, OneJobPerKey
<1>8. LoadOK
  <2>1. Live = {} /\ Cardinality({}) = 0
    BY <1>2, FS_EmptySet DEF Live
  <2>2. active = {j \in Jobs : jobs[j].state = "running"}
    BY <1>1, <1>2
  <2>3. Backpressure
    BY <1>2, <1>3, <2>1, <2>2, PoolTypes DEF Backpressure
  <2>4. PoolFollowsQueue
    <3>1. Cardinality(Live) = 0
      BY <2>1
    <3> QED BY <1>3, <3>1, PoolTypes DEF PoolFollowsQueue, Smaller
  <2> QED BY <1>2, <2>3, <2>4 DEF LoadOK
<1> QED BY <1>4, <1>5, <1>6, <1>7, <1>8 DEF JobsInv

(***************************************************************************)
(* What a step of the engine can do to the jobs: nothing, store a new one, *)
(* record one answer, or cancel running ones.                              *)
(***************************************************************************)
Accepts ==
  \E j \in Jobs, n \in 1..MaxBatch, p \in Priorities, k \in Keys \cup {None} :
    jobs[j].state = "none"
      /\ jobs' = [jobs EXCEPT ![j] = NewJob(n, p, k, "running")]

Records ==
  \E w \in Workers, ok \in BOOLEAN :
    item[w] # NoItem /\ jobs' = Recorded(item[w], ok)

Cancels ==
  \E S \in SUBSET Jobs :
    (\A j \in S : jobs[j].state = "running") /\ jobs' = CancelIn(jobs, S)

(* Every client step keeps the invariant.                                  *)
LEMMA ClientKeeps ==
  ASSUME EngineInv, Client
  PROVE  JobsInv' /\ (Accepts \/ Cancels)
<1>1. ASSUME NEW j \in Jobs, NEW n \in 1..MaxBatch, NEW p \in Priorities,
             NEW k \in Keys \cup {None}, submit(j, n, p, k)
      PROVE  JobsInv' /\ Accepts
  <2>1. JobsInv'
    BY <1>1, SubmitKeeps
  <2>2. /\ jobs[j].state = "none"
        /\ jobs' = [jobs EXCEPT ![j] = NewJob(n, p, k, "running")]
    BY <1>1 DEF submit, create
  <2> QED BY <2>1, <2>2 DEF Accepts
<1>2. ASSUME NEW j \in Jobs, submit_batch(j) PROVE JobsInv' /\ Accepts
  BY <1>1, <1>2 DEF submit_batch
<1>3. ASSUME NEW j \in Jobs, NEW old \in Jobs, replay_failed(j, old)
      PROVE  JobsInv' /\ Accepts
  <2> DEFINE n == Cardinality(dead_letter(old))
  <2>1. JobOK(jobs[old]) /\ dead_letter(old) = ErrIn(jobs[old])
        /\ dead_letter(old) # {}
    BY <1>3, InvTypes DEF dead_letter, ErrIn, replay_failed
  <2>2. ErrIn(jobs[old]) \subseteq DoneIn(jobs[old])
    BY DEF ErrIn, DoneIn
  <2>3. DoneIn(jobs[old]) \subseteq 0..(jobs[old].total - 1)
    BY <2>1 DEF JobOK
  <2>4. jobs[old].state # "none"
    BY <2>1, <2>2, <2>3 DEF JobOK
  <2>5. jobs[old].priority \in Priorities
    BY <2>1, <2>4 DEF JobOK
  <2>6. n \in 1..MaxBatch
    <3>1. dead_letter(old) \in SUBSET Seqs
      BY DEF dead_letter
    <3>2. IsFiniteSet(Seqs) /\ Cardinality(Seqs) = MaxBatch
      <4> DEFINE m == MaxBatch - 1
      <4>1. m \in Int /\ ~(0 > m) /\ m - 0 + 1 = MaxBatch
        BY Countable
      <4>2. Seqs = 0..m
        BY DEF Seqs
      <4> HIDE DEF m
      <4> QED BY <4>1, <4>2, FS_Interval
    <3>3. n <= MaxBatch
      BY <3>1, <3>2, FS_Subset
    <3>4. n \in Nat /\ n # 0
      BY <2>1, <3>1, Countable, FS_EmptySet
    <3> QED BY <3>3, <3>4, Countable
  <2>7. submit(j, n, jobs[old].priority, None)
    BY <1>3 DEF replay_failed
  <2> HIDE DEF n
  <2> QED BY <1>1, <2>5, <2>6, <2>7
<1>4. ASSUME NEW j \in Jobs, cancel(j) PROVE JobsInv' /\ Cancels
  <2>1. JobsInv'
    BY <1>4, CancelKeeps
  <2>2. /\ jobs[j].state = "running" /\ jobs \in [Jobs -> JobRecord]
        /\ jobs' = [jobs EXCEPT ![j].state = "cancelled"]
    BY <1>4, InvTypes DEF cancel
  <2>3. jobs' = CancelIn(jobs, {j})
    BY <2>2 DEF CancelIn
  <2>4. {j} \in SUBSET Jobs /\ \A i \in {j} : jobs[i].state = "running"
    BY <2>2
  <2> QED BY <2>1, <2>3, <2>4 DEF Cancels
<1> QED BY <1>2, <1>3, <1>4 DEF Client, replay_endpoint, cancel_job

(* So does every step of a worker.                                         *)
LEMMA WorkerKeeps ==
  ASSUME EngineInv, NEW w \in Workers, WorkerStep(w)
  PROVE  JobsInv' /\ (jobs' = jobs \/ Records)
<1>1. CASE Start(w) \/ Resume(w)
  BY <1>1, EnterKeeps DEF Start, Resume, worker_loop
<1>2. CASE Succeeds(w) \/ Fails(w)
  <2>1. PICK ok \in BOOLEAN : stage[w] \in {"calling", "skip"} /\ Process(w, ok)
    BY <1>2 DEF Succeeds, Fails
  <2>2. stage[w] # "skip"
    BY DEF EngineInv, JobsInv, WorkersOK
  <2>3. stage[w] = "calling" /\ item[w] # NoItem
    BY <2>1, <2>2, StageItem
  <2> QED BY <2>1, <2>3, ProcessKeeps DEF Records
<1>3. CASE RateLimited(w) \/ BackoffElapsed(w)
  BY <1>3, BackoffKeeps
<1>4. CASE Unwind(w)
  BY <1>4, UnwindKeeps
<1> QED BY <1>1, <1>2, <1>3, <1>4 DEF WorkerStep

(***************************************************************************)
(* The invariant is inductive, and under it every step is one of four      *)
(* kinds.                                                                  *)
(***************************************************************************)
THEOREM EngineInductive ==
  EngineInv /\ [Next]_engineVars =>
    EngineInv' /\ (jobs' = jobs \/ Accepts \/ Records \/ Cancels)
<1> SUFFICES ASSUME EngineInv, [Next]_engineVars
             PROVE  /\ EngineInv'
                    /\ jobs' = jobs \/ Accepts \/ Records \/ Cancels
  OBVIOUS
<1>1. LinkInv'
  BY StepLinks DEF EngineInv
<1>2. JobsInv' /\ (jobs' = jobs \/ Accepts \/ Records \/ Cancels)
  <2>1. CASE FinishShutdown
    <3>1. active \in SUBSET Jobs /\ \A j \in active : jobs[j].state = "running"
      BY DEF EngineInv, JobsInv, LoadOK, Backpressure
    <3> QED BY <2>1, <3>1, FinishKeepsJobs DEF Cancels
  <2>2. CASE Exited \/ UNCHANGED engineVars
    <3>1. UNCHANGED engineVars
      BY <2>2 DEF Exited
    <3> QED
      BY <3>1 DEF engineVars, EngineInv, JobsInv, Serving, KeysOK, WorkersOK,
                  IndexOK, OneJobPerKey, LoadOK, Backpressure,
                  PoolFollowsQueue, Live
  <2> QED BY <2>1, <2>2, ClientKeeps, WorkerKeeps, DrainKeeps
          DEF Next, ShutdownStep
<1> QED BY <1>1, <1>2 DEF EngineInv

-----------------------------------------------------------------------------
(* What the invariant implies.                                             *)

(* The values of the engine's variables.                                   *)
LEMMA InvTypeOK == EngineInv => EngineTypeOK
<1> SUFFICES ASSUME EngineInv PROVE EngineTypeOK
  OBVIOUS
<1>1. ASSUME NEW j \in Jobs
      PROVE  /\ jobs[j].state \in JobState /\ jobs[j].total \in 0..MaxBatch
             /\ jobs[j].completed \in Nat /\ jobs[j].succeeded \in Nat
             /\ jobs[j].failed \in Nat
             /\ jobs[j].results \in [Seqs -> {"none", "ok", "error"}]
  <2>1. jobs[j] \in JobRecord
    BY InvTypes
  <2> QED BY <2>1 DEF JobRecord
<1>2. active \subseteq Jobs /\ byKey \in [Keys -> Jobs \cup {None}]
      /\ phase \in Phase
  BY DEF EngineInv, JobsInv, LoadOK, Backpressure, IndexOK, WorkersOK
<1>3. \A w \in Workers : item[w] = NoItem \/ item[w] \in [job : Jobs, seq : Seqs]
  BY InvTypes DEF WorkItem
<1> QED BY <1>1, <1>2, <1>3, InvTypes DEF EngineTypeOK

(***************************************************************************)
(* The prompts of a job: the last ones queued, the others in flight or     *)
(* done, none twice.                                                       *)
(***************************************************************************)
LEMMA InvEachPromptOnce == EngineInv => EachPromptOnce
<1> SUFFICES ASSUME EngineInv, NEW j \in Jobs
             PROVE  /\ Cardinality(Queued(j)) = Len(sched.items[j])
                    /\ \A v, w \in Workers :
                         item[v] = item[w] /\ item[v] # NoItem => v = w
                    /\ Queued(j) \cap InFlight(j) = {}
                    /\ Done(j) \cap (Queued(j) \cup InFlight(j)) = {}
                    /\ jobs[j].state = "running" /\ Serving =>
                         Queued(j) \cup InFlight(j) \cup Done(j)
                           = 0..(jobs[j].total - 1)
  BY DEF EachPromptOnce, Serving
<1> DEFINE r == jobs[j]
           q == sched.items[j]
           n == Len(q)
           t == r.total
<1>1. /\ PromptsOK(jobs, sched, item, Serving) /\ ItemsOK(item)
      /\ PlacesOK(j, r, q, item, Serving)
  BY DEF EngineInv, JobsInv, PromptsOK
<1>2. /\ t \in Nat /\ n \in Nat /\ q \in Seq(Nat) /\ 0..(t - 1) \subseteq Seqs
  BY <1>1, PlaceTypes
<1>3. /\ n <= t /\ \A i \in 1..n : q[i] = t - n + i - 1
      /\ \A s \in DoneIn(r) : s < t - n /\ s \in Nat
  BY <1>1, Countable DEF PlacesOK, QueueOK, DoneIn, Seqs
<1>4. Done(j) = DoneIn(r) /\ Queued(j) = {q[i] : i \in 1..n}
      /\ DoneIn(r) \subseteq 0..(t - 1)
  BY <1>1 DEF Done, DoneIn, Queued, PlacesOK, JobOK
<1>5. \A s \in InFlight(j) :
        s \in 0..(t - n - 1) /\ r.results[s] = "none"
  BY <1>1 DEF PlacesOK, HeldOK, InFlight
<1>6. Queued(j) = (t - n)..(t - 1)
  <2> HIDE DEF q, n, t
  <2>1. ASSUME NEW s \in Queued(j) PROVE s \in (t - n)..(t - 1)
    <3>1. PICK i \in 1..n : s = q[i]
      BY <1>4
    <3>2. s = t - n + i - 1
      BY <1>3, <3>1
    <3> QED BY <1>2, <1>3, <3>2
  <2>2. ASSUME NEW s \in (t - n)..(t - 1) PROVE s \in Queued(j)
    <3> DEFINE i == s - (t - n) + 1
    <3>1. i \in 1..n /\ t - n + i - 1 = s
      BY <1>2, <1>3
    <3>2. q[i] = s
      <4> HIDE DEF i
      <4> QED BY <1>3, <3>1
    <3> HIDE DEF i
    <3> QED BY <1>4, <3>1, <3>2
  <2> QED BY <2>1, <2>2
<1>7. Cardinality(Queued(j)) = n
  <2> DEFINE a == t - n
             b == t - 1
  <2> HIDE DEF q, n, t
  <2>1. a \in Int /\ b \in Int /\ (a > b <=> n = 0) /\ b - a + 1 = n
    BY <1>2
  <2>2. Queued(j) = a..b
    BY <1>6
  <2> HIDE DEF a, b
  <2>3. Cardinality(a..b) = IF a > b THEN 0 ELSE b - a + 1
    BY <2>1, FS_Interval
  <2> QED BY <2>1, <2>2, <2>3
<1> HIDE DEF q, n, t
<1>8. Queued(j) \cap InFlight(j) = {}
  BY <1>2, <1>5, <1>6
<1>9. Done(j) \cap (Queued(j) \cup InFlight(j)) = {}
  <2>1. \A s \in DoneIn(r) : r.results[s] # "none"
    BY DEF DoneIn
  <2> HIDE DEF r
  <2> QED BY <1>2, <1>3, <1>4, <1>5, <1>6, <2>1
<1>10. ASSUME r.state = "running", Serving
       PROVE  Queued(j) \cup InFlight(j) \cup Done(j) = 0..(t - 1)
  <2>1. Queued(j) \cup InFlight(j) \cup Done(j) \subseteq 0..(t - 1)
    BY <1>2, <1>3, <1>4, <1>5, <1>6
  <2>2. ASSUME NEW s \in 0..(t - 1), s \notin Queued(j), s \notin Done(j)
        PROVE  s \in InFlight(j)
    <3>1. s \in 0..(t - n - 1) /\ s \in Seqs
      BY <1>2, <1>3, <1>6, <2>2
    <3>2. r.results[s] = "none"
      BY <1>4, <2>2, <3>1 DEF DoneIn
    <3>3. PICK w \in Workers : item[w] = [job |-> j, seq |-> s]
      BY <1>1, <1>10, <3>1, <3>2 DEF PlacesOK, NoneLost, t, n
    <3> QED BY <3>3 DEF InFlight
  <2> QED BY <2>1, <2>2
<1> QED BY <1>1, <1>7, <1>8, <1>9, <1>10 DEF ItemsOK, n, q, t

(* The counters of every job agree with its results.                       *)
LEMMA InvCounters == EngineInv => CountersMatchResults
BY InvTypes DEF CountersMatchResults, JobOK, Done, DoneIn, Succeeded, OkIn,
                dead_letter, ErrIn

(* A job is completed exactly when all its prompts have a result.          *)
LEMMA InvCompleted == EngineInv => CompletedIffAllDone
<1> SUFFICES ASSUME EngineInv, NEW j \in Jobs,
                    jobs[j].state \in {"running", "completed"}
             PROVE  jobs[j].state = "completed" <=> Done(j) = 0..(jobs[j].total - 1)
  BY DEF CompletedIffAllDone
<1> DEFINE r == jobs[j]
<1>1. JobOK(r) /\ Done(j) = DoneIn(r)
  BY InvTypes DEF Done, DoneIn
<1>2. /\ r.total \in 0..MaxBatch /\ r.completed \in Nat
      /\ r.completed = r.total <=> DoneIn(r) = 0..(r.total - 1)
  BY <1>1, AllDone
<1>3. /\ r.state = "running" => r.completed < r.total
      /\ r.state = "completed" => r.completed = r.total
  BY <1>1 DEF JobOK
<1> QED BY <1>1, <1>2, <1>3

(* Permits go with items, and a shutdown leaves nothing over.              *)
LEMMA InvPermits == EngineInv => PermitPerItem
<1> SUFFICES ASSUME EngineInv PROVE PermitPerItem
  OBVIOUS
<1>1. holders = {w \in Workers : item[w] # NoItem}
  BY DEF EngineInv, JobsInv, WorkersOK
<1>2. ASSUME phase = "down" PROVE Live = {} /\ lim.in_use = 0 /\ active = {}
  <2>1. \A w \in Workers : stage[w] = "off"
    BY <1>2 DEF EngineInv, JobsInv, WorkersOK
  <2>2. Live = {}
    BY <2>1 DEF Live
  <2>3. holders = {}
    BY <1>1, <2>1, StageItem
  <2>4. lim.in_use = 0
    BY <2>3, LimInvParts, FS_EmptySet DEF EngineInv, LinkInv
  <2>5. active = {}
    BY <1>2 DEF EngineInv, JobsInv, LoadOK
  <2> QED BY <2>2, <2>4, <2>5
<1> QED BY <1>1, <1>2 DEF PermitPerItem

(***************************************************************************)
(* Queued work has a worker, and not every worker sleeps: with nobody      *)
(* woken and no permit out, a sleeping worker would contradict             *)
(* NoLostWakeup, because the limit is at least one when its floor is.      *)
(***************************************************************************)
LEMMA InvProgress == ASSUME Minimum # 0 PROVE EngineInv => WorkCanProgress
<1> SUFFICES ASSUME EngineInv, sched.pending > 0, Serving,
                    \A w \in Workers :
                      /\ stage[w] \notin {"new", "calling", "backoff"}
                      /\ w \notin lim.woken
             PROVE  FALSE
  BY DEF WorkCanProgress, Serving
<1>1. /\ LimInv /\ Placed /\ WorkersOK /\ PoolFollowsQueue
      /\ sched.pending \in Nat
  BY InvTypes DEF EngineInv, LinkInv, JobsInv, LoadOK
<1>2. Live # {}
  <2>1. Live = {} => Cardinality(Live) = 0
    BY FS_EmptySet
  <2>2. Smaller(PoolSize, sched.pending) >= 1
    BY <1>1, PoolTypes DEF Smaller
  <2>3. Cardinality(Live) >= Smaller(PoolSize, sched.pending)
    BY <1>1 DEF PoolFollowsQueue, Serving
  <2>4. Smaller(PoolSize, sched.pending) \in Nat
    BY <1>1, PoolTypes DEF Smaller
  <2> QED BY <2>1, <2>2, <2>3, <2>4
<1>3. PICK w \in Workers : stage[w] # "off"
  BY <1>2 DEF Live
<1>4. \A v \in Workers : stage[v] \in {"off", "waiting"}
  BY <1>1 DEF WorkersOK, Placed, Stage
<1>5. stage[w] = "waiting"
  BY <1>3, <1>4
<1>6. ~Away(lim, w)
  BY <1>1, <1>5 DEF Placed, PlacedAs
<1>7. Sleeping(lim, w)
  BY <1>6 DEF Away
<1>8. lim.waiters # <<>>
  BY <1>7, EmptySeq DEF Sleeping
<1>9. lim.woken = {} /\ holders = {}
  <2>1. lim.woken \in SUBSET Workers
    BY <1>1, LimInvParts
  <2>2. \A v \in Workers : v \notin holders
    BY <1>1, <1>4 DEF Placed, PlacedAs, Holding
  <2> QED BY <1>1, <2>1, <2>2, LimInvParts
<1>10. lim.in_use = 0 /\ Cardinality(lim.woken) = 0
  BY <1>1, <1>9, LimInvParts, FS_EmptySet
<1>11. lim.limit <= 0
  BY <1>1, <1>8, <1>10, LimInvParts, Bounds DEF FreeAtMost
<1>12. lim.limit >= 1
  BY <1>1, LimInvParts, Bounds
<1> QED BY <1>1, <1>11, <1>12, LimInvParts, Bounds

(***************************************************************************)
(* A finished job keeps its state and every job its results: an answer is  *)
(* only recorded for a prompt that has none, and the job it belongs to is  *)
(* not completed, because a completed job has all its results.             *)
(***************************************************************************)
LEMMA FinalStep ==
  ASSUME EngineInv, jobs' = jobs \/ Accepts \/ Records \/ Cancels, NEW j \in Jobs
  PROVE  /\ Terminal(j) => jobs'[j].state = jobs[j].state
         /\ \A s \in Done(j) : jobs'[j].results[s] = jobs[j].results[s]
<1>1. CASE jobs' = jobs
  BY <1>1
<1>2. CASE Accepts
  <2>1. PICK i \in Jobs : /\ jobs[i].state = "none"
                          /\ \A k \in Jobs \ {i} : jobs'[k] = jobs[k]
    BY <1>2, InvTypes DEF Accepts
  <2>2. CASE i = j
    <3>1. jobs[j].total = 0 /\ DoneIn(jobs[j]) \subseteq 0..(jobs[j].total - 1)
      BY <2>1, <2>2, InvTypes DEF JobOK
    <3>2. Done(j) = {}
      BY <3>1 DEF Done, DoneIn
    <3> QED BY <2>1, <2>2, <3>2 DEF Terminal
  <2>3. CASE i # j
    BY <2>1, <2>3, InvTypes
  <2> QED BY <2>2, <2>3
<1>3. CASE Records
  <2>1. PICK w \in Workers, ok \in BOOLEAN :
          item[w] # NoItem /\ jobs' = Recorded(item[w], ok)
    BY <1>3 DEF Records
  <2> DEFINE i == item[w].job
             x == item[w].seq
  <2>2. /\ i \in Jobs /\ x \in Seqs /\ jobs[i].results[x] = "none"
        /\ \A k \in Jobs \ {i} : jobs'[k] = jobs[k]
        /\ \A t \in Seqs \ {x} : jobs'[i].results[t] = jobs[i].results[t]
        /\ jobs[i].state \in {"running", "cancelled"}
        /\ jobs[i].state # "running" => jobs'[i].state = jobs[i].state
    BY <2>1, AnswerFacts
  <2> HIDE DEF i, x
  <2> QED BY <2>2 DEF Terminal, Done
<1>4. CASE Cancels
  <2>1. PICK S \in SUBSET Jobs :
          (\A k \in S : jobs[k].state = "running") /\ jobs' = CancelIn(jobs, S)
    BY <1>4 DEF Cancels
  <2>2. /\ jobs'[j].state = IF j \in S THEN "cancelled" ELSE jobs[j].state
        /\ jobs'[j].results = jobs[j].results
    BY <2>1, CancelPart DEF EngineInv, JobsInv
  <2> QED BY <2>1, <2>2 DEF Terminal
<1> QED BY <1>1, <1>2, <1>3, <1>4

(* What a client sees of a record.                                         *)
Life(r) == [state |-> r.state, total |-> r.total, completed |-> r.completed,
            succeeded |-> r.succeeded, failed |-> r.failed]

(***************************************************************************)
(* A step of the engine is a step of JobLifecycle on what clients see, or  *)
(* leaves that alone.                                                      *)
(***************************************************************************)
LEMMA LifecycleStep ==
  ASSUME EngineInv, jobs' = jobs \/ Accepts \/ Records \/ Cancels
  PROVE  [Lifecycle!LifeNext]_Lives
<1>0. /\ Lives = [j \in Jobs |-> Life(jobs[j])]
      /\ Lives' = [j \in Jobs |-> Life(jobs'[j])]
      /\ jobs \in [Jobs -> JobRecord]
  BY InvTypes DEF Lives, Life
<1>1. CASE jobs' = jobs
  BY <1>0, <1>1
<1>2. CASE Accepts
  <2>1. PICK j \in Jobs, n \in 1..MaxBatch, p \in Priorities, k \in Keys \cup {None} :
          /\ jobs[j].state = "none"
          /\ jobs' = [jobs EXCEPT ![j] = NewJob(n, p, k, "running")]
    BY <1>2 DEF Accepts
  <2>2. jobs'[j] = NewJob(n, p, k, "running")
        /\ \A i \in Jobs \ {j} : jobs'[i] = jobs[i]
    BY <1>0, <2>1
  <2> DEFINE new == [Lifecycle!NoLife EXCEPT !.state = "running", !.total = n]
  <2>3. Life(jobs'[j]) = new
    <3> DEFINE r == jobs'[j]
               l == [Lifecycle!NoLife EXCEPT !.state = "running"]
    <3>1. /\ r.state = "running" /\ r.total = n /\ r.completed = 0
          /\ r.succeeded = 0 /\ r.failed = 0
      BY <2>2 DEF NewJob
    <3>2. l = [state |-> "running", total |-> 0,
               completed |-> 0, succeeded |-> 0, failed |-> 0]
      BY DEF Lifecycle!NoLife
    <3>3. new = [l EXCEPT !.total = n]
      OBVIOUS
    <3> HIDE DEF r, l, new
    <3> QED BY <3>1, <3>2, <3>3 DEF Life, r
  <2> HIDE DEF new
  <2>4. Lives' = [Lives EXCEPT ![j] = new]
    BY <1>0, <2>2, <2>3
  <2>5. Lives[j].state = "none"
    BY <1>0, <2>1 DEF Life
  <2>6. Lifecycle!Accept(j, n)
    BY <2>4, <2>5 DEF Lifecycle!Accept, new
  <2> QED BY <2>6 DEF Lifecycle!LifeNext
<1>3. CASE Records
  <2>1. PICK w \in Workers, ok \in BOOLEAN :
          item[w] # NoItem /\ jobs' = Recorded(item[w], ok)
    BY <1>3 DEF Records
  <2> DEFINE j == item[w].job
             x == item[w].seq
             r == jobs[j]
             a == jobs'[j]
  <2>2. /\ j \in Jobs /\ x \in Seqs
        /\ jobs'[j] = After(r, x, ok)
        /\ \A k \in Jobs \ {j} : jobs'[k] = jobs[k]
        /\ r.state \in {"running", "cancelled"} /\ r.completed < r.total
        /\ a.state = IF r.completed + 1 = r.total /\ r.state = "running"
                     THEN "completed" ELSE r.state
    BY <2>1, AnswerFacts
  <2>3. /\ a.total = r.total /\ a.completed = r.completed + 1
        /\ a.succeeded = IF ok THEN r.succeeded + 1 ELSE r.succeeded
        /\ a.failed = IF ok THEN r.failed ELSE r.failed + 1
    <3>1. r \in JobRecord
      BY <1>0, <2>2
    <3> HIDE DEF j, x, r
    <3> QED BY <2>2, <3>1, AfterFields
  <2> HIDE DEF j, x, r, a
  <2> DEFINE new == Lifecycle!Answered(Life(r), ok)
  <2>4. Life(a) = new
    <3> DEFINE su == IF ok THEN r.succeeded + 1 ELSE r.succeeded
               fa == IF ok THEN r.failed ELSE r.failed + 1
               co == r.completed + 1
               st == IF co = r.total /\ r.state = "running"
                     THEN "completed" ELSE r.state
               l  == Life(r)
               l1 == [l EXCEPT !.completed = co]
               l2 == [l1 EXCEPT !.succeeded = su]
               l3 == [l2 EXCEPT !.failed = fa]
               l4 == [l3 EXCEPT !.state = st]
    <3>1. /\ l.state = r.state /\ l.total = r.total /\ l.completed = r.completed
          /\ l.succeeded = r.succeeded /\ l.failed = r.failed
      BY DEF Life
    <3>2. l = [state |-> r.state, total |-> r.total, completed |-> r.completed,
               succeeded |-> r.succeeded, failed |-> r.failed]
      BY DEF Life
    <3> HIDE DEF l
    <3>3. new = l4
      BY <3>1 DEF Lifecycle!Answered, l
    <3> HIDE DEF su, fa, co, st, new
    <3>4. l1 = [state |-> r.state, total |-> r.total, completed |-> co,
                succeeded |-> r.succeeded, failed |-> r.failed]
      BY <3>2
    <3> HIDE DEF l1
    <3>5. l2 = [state |-> r.state, total |-> r.total, completed |-> co,
                succeeded |-> su, failed |-> r.failed]
      BY <3>4
    <3> HIDE DEF l2
    <3>6. l3 = [state |-> r.state, total |-> r.total, completed |-> co,
                succeeded |-> su, failed |-> fa]
      BY <3>5
    <3> HIDE DEF l3
    <3>7. l4 = [state |-> st, total |-> r.total, completed |-> co,
                succeeded |-> su, failed |-> fa]
      BY <3>6
    <3>8. a.state = st /\ a.total = r.total /\ a.completed = co
          /\ a.succeeded = su /\ a.failed = fa
      BY <2>2, <2>3 DEF st, co, su, fa
    <3> HIDE DEF l4
    <3> QED BY <3>3, <3>7, <3>8 DEF Life
  <2> HIDE DEF new
  <2>5. Lives' = [Lives EXCEPT ![j] = new]
    BY <1>0, <2>2, <2>4 DEF a
  <2>6. Lives[j] = Life(r)
    BY <1>0, <2>2 DEF r
  <2>7. /\ Lives[j].state \in {"running", "cancelled"}
        /\ Lives[j].completed < Lives[j].total
    BY <2>2, <2>6 DEF Life
  <2>8. Lifecycle!Answer(j, ok)
    BY <2>5, <2>6, <2>7 DEF Lifecycle!Answer, new
  <2> QED BY <2>2, <2>8 DEF Lifecycle!LifeNext
<1>4. CASE Cancels
  <2>1. PICK S \in SUBSET Jobs :
          (\A j \in S : jobs[j].state = "running") /\ jobs' = CancelIn(jobs, S)
    BY <1>4 DEF Cancels
  <2>2. \A j \in Jobs : Life(jobs'[j]) =
          IF j \in S THEN [Life(jobs[j]) EXCEPT !.state = "cancelled"]
          ELSE Life(jobs[j])
    <3> TAKE j \in Jobs
    <3>1. /\ jobs'[j].state = IF j \in S THEN "cancelled" ELSE jobs[j].state
          /\ jobs'[j].total = jobs[j].total
          /\ jobs'[j].completed = jobs[j].completed
          /\ jobs'[j].succeeded = jobs[j].succeeded
          /\ jobs'[j].failed = jobs[j].failed
      BY <2>1, CancelPart DEF EngineInv, JobsInv
    <3> QED BY <3>1 DEF Life
  <2>3. CASE S = {}
    BY <1>0, <2>2, <2>3
  <2>4. CASE S # {}
    <3>1. Lives' = [j \in Jobs |-> IF j \in S
                                   THEN [Lives[j] EXCEPT !.state = "cancelled"]
                                   ELSE Lives[j]]
      BY <1>0, <2>2
    <3>2. \A j \in S : Lives[j].state = "running"
      BY <1>0, <2>1 DEF Life
    <3>3. Lifecycle!Cancel(S)
      BY <2>4, <3>1, <3>2 DEF Lifecycle!Cancel
    <3> QED BY <3>3 DEF Lifecycle!LifeNext
  <2> QED BY <2>3, <2>4
<1> QED BY <1>1, <1>2, <1>3, <1>4

(* Before anything is submitted a client sees nothing.                     *)
LEMMA LifecycleInit == Init => Lifecycle!LifeInit
BY DEF Init, NewJob, Lives, Lifecycle!LifeInit, Lifecycle!NoLife

-----------------------------------------------------------------------------
(* The theorems.                                                           *)

(* In every behaviour of the engine the invariant holds throughout.        *)
THEOREM EngineInvariant == Spec => []EngineInv
<1>1. Init => EngineInv
  BY LinkInit, JobsInit DEF EngineInv
<1>2. EngineInv /\ [Next]_engineVars => EngineInv'
  BY EngineInductive
<1> QED BY <1>1, <1>2, PTL DEF Spec

(* The engine's variables keep their types.                                *)
THEOREM EngineTypes == Spec => []EngineTypeOK
BY EngineInvariant, InvTypeOK, PTL

(***************************************************************************)
(* No prompt is lost or run twice, for any number of jobs, prompts and     *)
(* workers, through cancels, retries and a shutdown: _worker and _process  *)
(* hand every dequeued prompt on exactly once.                             *)
(***************************************************************************)
THEOREM NoPromptLostOrRepeated == Spec => []EachPromptOnce
BY EngineInvariant, InvEachPromptOnce, PTL

(* The counters that _process keeps by hand never drift from the results.  *)
THEOREM CountersAgree == Spec => []CountersMatchResults
BY EngineInvariant, InvCounters, PTL

(* A job that is not cancelled completes exactly with its last result.     *)
THEOREM CompletesExactly == Spec => []CompletedIffAllDone
BY EngineInvariant, InvCompleted, PTL

(* The early return of _process for a cancelled job is never taken.        *)
THEOREM CancelledNeverStarts == Spec => []CancelledWorkNeverStarts
<1>1. EngineInv => CancelledWorkNeverStarts
  BY DEF EngineInv, JobsInv, WorkersOK, CancelledWorkNeverStarts
<1> QED BY <1>1, EngineInvariant, PTL

(* MAX_ACTIVE_JOBS and MAX_QUEUE_SIZE, checked once in submit, hold always. *)
THEOREM BoundsHold == Spec => []Backpressure
<1>1. EngineInv => Backpressure
  BY DEF EngineInv, JobsInv, LoadOK
<1> QED BY <1>1, EngineInvariant, PTL

(* The pool is never larger than its size and never behind the queue.      *)
THEOREM PoolKeepsUp == Spec => []PoolFollowsQueue
<1>1. EngineInv => PoolFollowsQueue
  BY DEF EngineInv, JobsInv, LoadOK
<1> QED BY <1>1, EngineInvariant, PTL

(***************************************************************************)
(* The workers are never all asleep in acquire() while prompts are queued, *)
(* provided the floor of the limiter is not 0: with                        *)
(* ADAPTIVE_MIN_CONCURRENCY=0, which app/config.py accepts, a 429 may      *)
(* bring the limit to 0, and then nobody acquires again.                   *)
(***************************************************************************)
THEOREM QueuedWorkCanProgress ==
  ASSUME Minimum # 0 PROVE Spec => []WorkCanProgress
BY EngineInvariant, InvProgress, PTL

(* A worker holds a permit exactly while it holds an item, and shutdown    *)
(* leaves neither permits nor active jobs behind.                          *)
THEOREM PermitsFollowItems == Spec => []PermitPerItem
BY EngineInvariant, InvPermits, PTL

(* An idempotency key creates at most one job, which the index finds.      *)
THEOREM KeysAreUnique == Spec => []OneJobPerKey
<1>1. EngineInv => OneJobPerKey
  BY DEF EngineInv, JobsInv, IndexOK
<1> QED BY <1>1, EngineInvariant, PTL

(* A late answer does not resurrect a cancelled job, shutdown does not     *)
(* cancel a completed one, and no result is overwritten.                   *)
THEOREM FinalIsFinal == Spec => FinalStatesAreFinal
<1> DEFINE Kept == \A j \in Jobs :
             /\ Terminal(j) => jobs'[j].state = jobs[j].state
             /\ \A s \in Done(j) : jobs'[j].results[s] = jobs[j].results[s]
<1>1. EngineInv /\ [Next]_engineVars => Kept
  BY EngineInductive, FinalStep
<1>2. EngineInv /\ [Next]_engineVars => [Kept]_engineVars
  BY <1>1
<1> QED BY <1>2, EngineInvariant, PTL DEF Spec, FinalStatesAreFinal

(***************************************************************************)
(* The engine implements the contract of JobLifecycle: through queues,     *)
(* workers, permits and shutdown, a client sees a job accepted once,       *)
(* answered once per prompt and ended once.                                *)
(***************************************************************************)
THEOREM EngineImplementsLifecycle == Spec => ImplementsLifecycle
<1>1. EngineInv /\ [Next]_engineVars => [Lifecycle!LifeNext]_Lives
  BY EngineInductive, LifecycleStep
<1> QED BY <1>1, LifecycleInit, EngineInvariant, PTL
        DEF Spec, ImplementsLifecycle, Lifecycle!LifeSpec

=============================================================================
