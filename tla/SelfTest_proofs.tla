--------------------------- MODULE SelfTest_proofs ---------------------------
(***************************************************************************)
(* The verdict of the self-test, on an engine of any size with any         *)
(* settings: no false all-clear, and no false alarm.                       *)
(*                                                                         *)
(* The test only sees counters and the length of the queue.  EngineInv     *)
(* says what those are worth; TestInv adds that the jobs the test polls    *)
(* are the ones it submitted, and what a calm run has kept so far.         *)
(***************************************************************************)
EXTENDS SelfTest, BatchEngine_proofs

Accepted(j, n) == jobs[j].state # "none" /\ jobs[j].total = n

(* A job that nobody has cancelled, with no failed prompt.                 *)
Unharmed(j) == jobs[j].state \in {"running", "completed"} /\ jobs[j].failed = 0

(* The queue has no prompts but those of the test.                         *)
OnlyTestQueued(s) == \A j \in Jobs \ {Primary, Fair} : s.items[j] = <<>>

TestTypes ==
  /\ test \in {"idle", "submitting", "polling", "waiting", "refused", "done"}
  /\ reused \in BOOLEAN /\ calm \in BOOLEAN
  /\ peak \in 0..Maximum
  /\ verdict \in {"none", "passed", "failed"}

(* The jobs that the test polls are the ones it submitted.                 *)
Submitted ==
  /\ test \in {"submitting", "polling", "waiting", "done"} =>
       Accepted(Primary, TestSize)
  /\ test \in {"polling", "waiting", "done"} => Accepted(Fair, FairSize)
  /\ test = "submitting" =>
       /\ phase = "up" /\ jobs[Primary].priority = "low"
       /\ byKey[PrimaryKey] = Primary /\ Unharmed(Primary)
  /\ test \in {"polling", "waiting"} => reused

(* What holds while nothing has disturbed the test.                        *)
CalmSoFar ==
  calm /\ test \in {"submitting", "polling", "waiting"} =>
    /\ phase = "up"
    /\ OnlyTestQueued(sched)
    /\ Unharmed(Primary)
    /\ test # "submitting" => Unharmed(Fair)
    /\ test = "waiting" => jobs[Primary].state = "completed"

(* What the report saw, and the counters cannot take back.                 *)
PassedOnCounters ==
  verdict = "passed" =>
    /\ test = "done"
    /\ jobs[Primary].completed = TestSize
    /\ jobs[Fair].succeeded = FairSize

TestInv ==
  /\ EngineInv
  /\ TestTypes
  /\ Submitted
  /\ CalmSoFar
  /\ PassedOnCounters
  /\ CalmTestPasses

-----------------------------------------------------------------------------
(* The constants of the test, as the engine sees them.                     *)
LEMMA TestSetting ==
  /\ Primary \in Jobs /\ Fair \in Jobs /\ Primary # Fair
  /\ PrimaryKey \in Keys \cup {None} /\ PrimaryKey # None
  /\ FairKey \in Keys \cup {None} /\ FairKey # PrimaryKey
  /\ TestSize \in 1..MaxBatch /\ FairSize \in 1..MaxBatch
  /\ "low" \in Priorities /\ "normal" \in Priorities
  /\ MaxBatch \in Nat /\ Maximum \in Nat
BY SelfTestAssumption, EngineAssumption, SchedulerAssumption, LimiterAssumption

(* The test is a client of the engine: each step is one of the engine's.   *)
LEMMA TestIsClient ==
  ASSUME [SelfTestNext]_selfTestVars
  PROVE  [Next]_engineVars
<1>1. CASE SubmitPrimary \/ SubmitFair
  BY <1>1, TestSetting DEF SubmitPrimary, SubmitFair, submit_batch, Client, Next
<1>2. CASE Refused \/ PollStep \/ UNCHANGED selfTestVars
  BY <1>2 DEF Refused, PollStep, PollPrimary, PollFairAgain, selfTestVars,
              engineVars
<1>3. CASE Disturbance
  <2>1. OtherClient \/ BeginShutdown \/ \E w \in Workers : Fails(w)
    BY <1>3 DEF Disturbance
  <2>2. OtherClient => Client
    BY DEF OtherClient, Client, submit_batch
  <2> QED BY <2>1, <2>2 DEF Next, WorkerStep
<1>4. CASE Routine
  BY <1>4 DEF Routine, Runs, Next, WorkerStep
<1> QED BY <1>1, <1>2, <1>3, <1>4 DEF SelfTestNext

(* What the counters of a record say about its results.                    *)
LEMMA CountersTell ==
  ASSUME NEW r, JobOK(r)
  PROVE  /\ r.succeeded \in Nat /\ r.succeeded <= r.total
         /\ r.succeeded = r.total => OkIn(r) = 0..(r.total - 1)
         /\ r.failed = 0 => r.succeeded = r.completed
<1>1. /\ r.succeeded \in Nat /\ r.completed \in Nat /\ r.total \in Nat
      /\ r.completed = Cardinality(DoneIn(r))
      /\ r.succeeded = Cardinality(OkIn(r))
      /\ r.failed = Cardinality(ErrIn(r))
      /\ r.results \in [Seqs -> {"none", "ok", "error"}]
  BY SchedulerAssumption DEF JobOK, JobRecord
<1>2. r.completed <= r.total /\ (r.completed = r.total => DoneIn(r) = 0..(r.total - 1))
  BY AllDone
<1>3. /\ OkIn(r) \in SUBSET DoneIn(r) /\ DoneIn(r) \in SUBSET Seqs
      /\ ErrIn(r) \in SUBSET Seqs
      /\ ErrIn(r) = {} => OkIn(r) = DoneIn(r)
  BY <1>1 DEF OkIn, ErrIn, DoneIn
<1>4. IsFiniteSet(DoneIn(r)) /\ IsFiniteSet(ErrIn(r))
  BY <1>3, Countable
<1>5. /\ Cardinality(OkIn(r)) <= Cardinality(DoneIn(r))
      /\ Cardinality(OkIn(r)) = Cardinality(DoneIn(r)) => OkIn(r) = DoneIn(r)
  BY <1>3, <1>4, FS_Subset
<1>6. Cardinality(ErrIn(r)) = 0 => ErrIn(r) = {}
  BY <1>4, FS_EmptySet
<1> QED BY <1>1, <1>2, <1>3, <1>5, <1>6

(* A job with all its answers has no prompt queued or with a worker.       *)
LEMMA NothingLeft ==
  ASSUME EngineInv, NEW j \in Jobs, jobs[j].completed = jobs[j].total
  PROVE  /\ DoneIn(jobs[j]) = 0..(jobs[j].total - 1)
         /\ sched.items[j] = <<>> /\ Queued(j) = {} /\ InFlight(j) = {}
<1> DEFINE r == jobs[j]
           q == sched.items[j]
<1>1. JobOK(r) /\ QueueOK(r, q) /\ HeldOK(j, r, q, item)
  BY DEF EngineInv, JobsInv, PromptsOK, PlacesOK
<1>2. q \in Seq(Nat)
  BY InvTypes DEF SchedOK, SchedulerState
<1>3. r.total \in Nat /\ Len(q) \in Nat
  BY <1>1, <1>2, LenProperties, SchedulerAssumption DEF JobOK, JobRecord
<1>4. DoneIn(r) = 0..(r.total - 1)
  BY <1>1, AllDone
<1>5. Len(q) = 0
  <2> SUFFICES ASSUME Len(q) > 0 PROVE FALSE
    BY <1>3
  <2>1. r.total - 1 \in DoneIn(r)
    BY <1>1, <1>3, <1>4 DEF QueueOK
  <2> QED BY <1>1, <1>3, <2>1 DEF QueueOK
<1>6. q = <<>> /\ Queued(j) = {}
  BY <1>2, <1>5, EmptySeq DEF Queued
<1>7. InFlight(j) = {}
  <2> SUFFICES ASSUME NEW w \in Workers, item[w].job = j PROVE FALSE
    BY DEF InFlight
  <2>1. item[w].seq \in 0..(r.total - Len(q) - 1) /\ r.results[item[w].seq] = "none"
    BY <1>1 DEF HeldOK
  <2>2. item[w].seq \in DoneIn(r)
    BY <1>3, <1>4, <1>5, <2>1
  <2> QED BY <2>1, <2>2 DEF DoneIn
<1> QED BY <1>4, <1>6, <1>7

(* An empty queue is empty for every job.                                  *)
LEMMA NothingPending ==
  ASSUME NEW s, SchedOK(s), Exact(s)
  PROVE  s.pending = 0 <=> \A j \in Jobs : s.items[j] = <<>>
<1>1. /\ s.items \in [Jobs -> Seq(Nat)] /\ s.pending = Cardinality(QueuedItems(s))
      /\ MaxBatch \in Nat \ {0}
      /\ \A j \in Jobs : Len(s.items[j]) <= MaxBatch
  BY SchedulerAssumption, EmptySeq DEF SchedOK, SchedulerState, Formed, Exact
<1>2. IsFiniteSet(QueuedItems(s))
  BY QueuedFinite
<1>3. s.pending = 0 <=> QueuedItems(s) = {}
  BY <1>1, <1>2, FS_EmptySet
<1>4. ASSUME NEW j \in Jobs, s.items[j] # <<>>
      PROVE  QueuedItems(s) # {}
  <2>1. Len(s.items[j]) \in 1..MaxBatch
    BY <1>1, <1>4, EmptySeq, LenProperties
  <2>2. <<j, Len(s.items[j])>> \in QueuedItems(s)
    BY <1>1, <2>1 DEF QueuedItems
  <2> QED BY <2>2
<1>5. ASSUME \A j \in Jobs : s.items[j] = <<>>
      PROVE  QueuedItems(s) = {}
  BY <1>1, <1>5, EmptySeq DEF QueuedItems
<1> QED BY <1>3, <1>4, <1>5

(* The number of prompts of an accepted job is fixed, and its counters     *)
(* never go back.                                                          *)
LEMMA CountersGrow ==
  ASSUME EngineInv, jobs' = jobs \/ Accepts \/ Records \/ Cancels,
         NEW j \in Jobs, jobs[j].state # "none"
  PROVE  /\ jobs'[j].state # "none" /\ jobs'[j].total = jobs[j].total
         /\ jobs'[j].completed >= jobs[j].completed
         /\ jobs'[j].succeeded >= jobs[j].succeeded
<1>0. /\ jobs \in [Jobs -> JobRecord] /\ jobs[j] \in JobRecord
      /\ jobs[j].completed \in Nat /\ jobs[j].succeeded \in Nat
  <2>1. jobs \in [Jobs -> JobRecord]
    BY InvTypes
  <2> QED BY <2>1 DEF JobRecord
<1>1. CASE jobs' = jobs
  BY <1>0, <1>1
<1>2. CASE Accepts
  <2>1. jobs'[j] = jobs[j]
    BY <1>0, <1>2 DEF Accepts
  <2> QED BY <1>0, <2>1
<1>3. CASE Records
  <2>1. PICK w \in Workers, ok \in BOOLEAN :
          item[w] # NoItem /\ jobs' = Recorded(item[w], ok)
    BY <1>3 DEF Records
  <2> DEFINE i == item[w].job
             x == item[w].seq
  <2>2. /\ i \in Jobs /\ x \in Seqs
        /\ jobs'[i] = After(jobs[i], x, ok)
        /\ \A k \in Jobs \ {i} : jobs'[k] = jobs[k]
        /\ jobs'[i].state # "none"
    BY <2>1, AnswerFacts
  <2> HIDE DEF i, x
  <2>3. CASE i # j
    BY <1>0, <2>2, <2>3
  <2>4. CASE i = j
    <3>1. /\ jobs'[j].total = jobs[j].total
          /\ jobs'[j].completed = jobs[j].completed + 1
          /\ jobs'[j].succeeded = IF ok THEN jobs[j].succeeded + 1
                                  ELSE jobs[j].succeeded
      BY <1>0, <2>2, <2>4, AfterFields
    <3> QED BY <1>0, <2>2, <2>4, <3>1
  <2> QED BY <2>3, <2>4
<1>4. CASE Cancels
  <2>1. PICK S \in SUBSET Jobs :
          (\A k \in S : jobs[k].state = "running") /\ jobs' = CancelIn(jobs, S)
    BY <1>4 DEF Cancels
  <2>2. /\ jobs'[j].state = IF j \in S THEN "cancelled" ELSE jobs[j].state
        /\ jobs'[j].total = jobs[j].total
        /\ jobs'[j].completed = jobs[j].completed
        /\ jobs'[j].succeeded = jobs[j].succeeded
    BY <2>1, CancelPart DEF EngineInv, JobsInv
  <2> QED BY <1>0, <2>2
<1> QED BY <1>1, <1>2, <1>3, <1>4

(***************************************************************************)
(* A worker's step on an engine that is up, unless a prompt fails: it      *)
(* queues nothing and harms no job.                                        *)
(***************************************************************************)
LEMMA RoutineHarmless ==
  ASSUME EngineInv, phase = "up", NEW w \in Workers,
         Runs(w) \/ Succeeds(w) \/ RateLimited(w)
  PROVE  /\ phase' = "up"
         /\ \A j \in Jobs : sched.items[j] = <<>> => sched'.items[j] = <<>>
         /\ \A j \in Jobs : /\ Unharmed(j) => Unharmed(j)'
                            /\ jobs[j].state = "completed" =>
                                 jobs'[j].state = "completed"
<1>1. phase' = phase
  BY DEF Runs, Start, Resume, BackoffElapsed, Unwind, Succeeds, Process,
         RateLimited
<1>2. sched' = sched \/ sched' = Popped(sched)
  BY DEF Runs, Start, Resume, BackoffElapsed, Unwind, Succeeds, Process,
         RateLimited, worker_loop
<1>3. \A j \in Jobs : sched.items[j] = <<>> => sched'.items[j] = <<>>
  <2>1. SchedOK(sched) /\ Exact(sched)
    BY InvTypes
  <2>2. CASE PopReturnsNone(sched)
    BY <1>2, <2>1, <2>2, PopNothing
  <2>3. CASE ~PopReturnsNone(sched)
    BY <1>2, <2>1, <2>3, PopOne
  <2> QED BY <2>2, <2>3
<1>4. \A j \in Jobs : /\ Unharmed(j) => Unharmed(j)'
                      /\ jobs[j].state = "completed" => jobs'[j].state = "completed"
  <2>1. CASE Succeeds(w)
    <3>1. jobs' = Recorded(item[w], TRUE) /\ item[w] # NoItem
      BY <2>1, ProcessKeeps, StageItem DEF Succeeds
    <3> DEFINE i == item[w].job
               x == item[w].seq
    <3>2. /\ i \in Jobs /\ x \in Seqs
          /\ jobs'[i] = After(jobs[i], x, TRUE)
          /\ \A k \in Jobs \ {i} : jobs'[k] = jobs[k]
          /\ jobs[i].state \in {"running", "cancelled"}
          /\ jobs'[i].state = IF jobs[i].completed + 1 = jobs[i].total
                                   /\ jobs[i].state = "running"
                              THEN "completed" ELSE jobs[i].state
      BY <3>1, AnswerFacts
    <3> HIDE DEF i, x
    <3>3. jobs'[i].failed = jobs[i].failed
      <4>1. jobs[i] \in JobRecord /\ TRUE \in BOOLEAN
        BY <3>2, InvTypes
      <4>2. After(jobs[i], x, TRUE).failed = IF TRUE THEN jobs[i].failed
                                             ELSE jobs[i].failed + 1
        BY <3>2, <4>1, AfterFields
      <4> QED BY <3>2, <4>2
    <3> QED BY <3>2, <3>3 DEF Unharmed
  <2>2. CASE Runs(w) \/ RateLimited(w)
    <3>1. jobs' = jobs
      BY <2>2 DEF Runs, Start, Resume, BackoffElapsed, Unwind, RateLimited,
                  worker_loop
    <3> QED BY <3>1 DEF Unharmed
  <2> QED BY <2>1, <2>2
<1> QED BY <1>1, <1>3, <1>4

-----------------------------------------------------------------------------
(* The invariant, part by part.                                            *)

(* What was submitted stays submitted, and a verdict stays right.          *)
LEMMA SubmittedStays ==
  ASSUME TestInv, EngineInv', jobs' = jobs \/ Accepts \/ Records \/ Cancels
  PROVE  /\ Accepted(Primary, TestSize) => Accepted(Primary, TestSize)'
         /\ Accepted(Fair, FairSize) => Accepted(Fair, FairSize)'
         /\ verdict = "passed" => /\ jobs'[Primary].completed = TestSize
                                  /\ jobs'[Fair].succeeded = FairSize
<1>1. EngineInv /\ Primary \in Jobs /\ Fair \in Jobs
  BY TestSetting DEF TestInv
<1>2. /\ Accepted(Primary, TestSize) => Accepted(Primary, TestSize)'
      /\ Accepted(Fair, FairSize) => Accepted(Fair, FairSize)'
  BY <1>1, CountersGrow DEF Accepted
<1>3. ASSUME verdict = "passed"
      PROVE  /\ jobs'[Primary].completed = TestSize
             /\ jobs'[Fair].succeeded = FairSize
  <2>1. /\ Accepted(Primary, TestSize) /\ Accepted(Fair, FairSize)
        /\ jobs[Primary].completed = TestSize /\ jobs[Fair].succeeded = FairSize
    BY <1>3 DEF TestInv, PassedOnCounters, Submitted
  <2>2. /\ jobs'[Primary].completed >= TestSize /\ jobs'[Primary].total = TestSize
        /\ jobs'[Fair].succeeded >= FairSize /\ jobs'[Fair].total = FairSize
    BY <1>1, <2>1, CountersGrow DEF Accepted
  <2>3. JobOK(jobs'[Primary]) /\ JobOK(jobs'[Fair])
    BY <1>1 DEF EngineInv, JobsInv, PromptsOK, PlacesOK
  <2>4. /\ jobs'[Primary].completed \in Nat
        /\ jobs'[Primary].completed <= jobs'[Primary].total
        /\ jobs'[Fair].succeeded \in Nat
        /\ jobs'[Fair].succeeded <= jobs'[Fair].total
    BY <2>3, AllDone, CountersTell
  <2> QED BY <2>2, <2>4, TestSetting
<1> QED BY <1>2, <1>3

(* The first submission: the key is fresh, so the job is new.              *)
LEMMA SubmitPrimaryKeeps ==
  ASSUME TestInv, EngineInv', SubmitPrimary
  PROVE  TestInv'
<1> DEFINE r == NewJob(TestSize, "low", PrimaryKey, "running")
<1>1. /\ test = "idle" /\ test' = "submitting"
      /\ calm' = (sched.pending = 0) /\ UNCHANGED <<reused, peak, verdict>>
      /\ submit(Primary, TestSize, "low", PrimaryKey)
  BY DEF SubmitPrimary
<1>2. /\ jobs[Primary].state = "none" /\ phase = "up" /\ phase' = "up"
      /\ jobs' = [jobs EXCEPT ![Primary] = r]
      /\ byKey' = [byKey EXCEPT ![PrimaryKey] = Primary]
      /\ sched' = AddJob(sched, Primary, WorkItems(TestSize), "low")
  <2>1. SubmitOutcome(TestSize, "low", PrimaryKey) = "accepted"
    BY <1>1 DEF submit
  <2>2. phase = "up"
    BY <2>1, AcceptedFacts
  <2>3. r.key = PrimaryKey
    BY DEF NewJob
  <2> QED BY <1>1, <2>2, <2>3, TestSetting DEF submit, create
<1>3. EngineInv
  BY DEF TestInv
<1>4. jobs'[Primary] = r /\ byKey'[PrimaryKey] = Primary
  <2>1. byKey \in [Keys -> Jobs \cup {None}] /\ PrimaryKey \in Keys
    BY <1>3, TestSetting DEF EngineInv, JobsInv, IndexOK
  <2> QED BY <1>2, <1>3, <2>1, InvTypes, TestSetting
<1>5. /\ jobs'[Primary].state = "running" /\ jobs'[Primary].total = TestSize
      /\ jobs'[Primary].priority = "low" /\ jobs'[Primary].failed = 0
  BY <1>4 DEF NewJob
<1>6. calm' => OnlyTestQueued(sched')
  <2> SUFFICES ASSUME sched.pending = 0, NEW j \in Jobs \ {Primary, Fair}
               PROVE  sched'.items[j] = <<>>
    BY <1>1 DEF OnlyTestQueued
  <2>1. SchedOK(sched) /\ Exact(sched)
    BY <1>3, InvTypes
  <2>2. Primary \notin sched.keys
    BY <1>2, <1>3, TestSetting DEF EngineInv, JobsInv, KeysOK
  <2>3. sched'.items[j] = sched.items[j]
    BY <1>2, <2>1, <2>2, TestSetting, AddStep
  <2> QED BY <2>1, <2>3, NothingPending
<1>7. TestTypes' /\ Submitted' /\ CalmSoFar'
  BY <1>1, <1>2, <1>4, <1>5, <1>6
     DEF TestInv, TestTypes, Submitted, CalmSoFar, Accepted, Unharmed
<1>8. PassedOnCounters' /\ CalmTestPasses'
  BY <1>1 DEF TestInv, PassedOnCounters, CalmTestPasses
<1> QED BY <1>7, <1>8 DEF TestInv

(* The second submission, and the duplicate of the first one before it.    *)
LEMMA SubmitFairKeeps ==
  ASSUME TestInv, EngineInv', SubmitFair
  PROVE  TestInv'
<1> DEFINE r == NewJob(FairSize, "normal", FairKey, "running")
<1>1. /\ test = "submitting" /\ test' = "polling" /\ peak' = lim.in_use
      /\ reused' = /\ SubmitOutcome(TestSize, "low", PrimaryKey) = "reused"
                   /\ find_by_idempotency_key(PrimaryKey) = Primary
      /\ UNCHANGED <<verdict, calm>>
      /\ submit(Fair, FairSize, "normal", FairKey)
  BY DEF SubmitFair
<1>2. /\ EngineInv /\ Accepted(Primary, TestSize)
      /\ phase = "up" /\ jobs[Primary].priority = "low"
      /\ byKey[PrimaryKey] = Primary /\ Unharmed(Primary)
  BY <1>1 DEF TestInv, Submitted
<1>3. /\ jobs[Fair].state = "none" /\ phase' = "up"
      /\ jobs' = [jobs EXCEPT ![Fair] = r]
      /\ sched' = AddJob(sched, Fair, WorkItems(FairSize), "normal")
  BY <1>1, <1>2 DEF submit, create
<1>4. jobs'[Fair] = r /\ jobs'[Primary] = jobs[Primary]
  BY <1>2, <1>3, InvTypes, TestSetting
<1>5. /\ jobs'[Fair].state = "running" /\ jobs'[Fair].total = FairSize
      /\ jobs'[Fair].failed = 0
  BY <1>4 DEF NewJob
<1>6. reused' = TRUE
  <2>1. find_by_idempotency_key(PrimaryKey) = Primary /\ Primary # None /\ accepting
    BY <1>2, TestSetting, EngineAssumption DEF find_by_idempotency_key, accepting
  <2>2. SubmitOutcome(TestSize, "low", PrimaryKey) = "reused"
    BY <1>2, <2>1 DEF SubmitOutcome, Accepted, fingerprint
  <2> QED BY <1>1, <2>1, <2>2
<1>7. OnlyTestQueued(sched) => OnlyTestQueued(sched')
  <2> SUFFICES ASSUME NEW j \in Jobs \ {Primary, Fair}
               PROVE  sched'.items[j] = sched.items[j]
    BY DEF OnlyTestQueued
  <2>1. SchedOK(sched) /\ Exact(sched)
    BY <1>2, InvTypes
  <2>2. Fair \notin sched.keys
    BY <1>2, <1>3, TestSetting DEF EngineInv, JobsInv, KeysOK
  <2> QED BY <1>3, <2>1, <2>2, TestSetting, AddStep
<1>8. lim.in_use \in 0..Maximum
  BY <1>2, LimInvParts, TestSetting DEF EngineInv, LinkInv, LimMax
<1>9. TestTypes' /\ Submitted'
  BY <1>1, <1>2, <1>4, <1>5, <1>6, <1>8
     DEF TestInv, TestTypes, Submitted, Accepted
<1>10. CalmSoFar'
  BY <1>1, <1>2, <1>3, <1>4, <1>5, <1>7 DEF TestInv, CalmSoFar, Unharmed
<1>11. PassedOnCounters' /\ CalmTestPasses'
  BY <1>1 DEF TestInv, PassedOnCounters, CalmTestPasses
<1> QED BY <1>9, <1>10, <1>11 DEF TestInv

(* The report, check by check.                                             *)
LEMMA ReportFacts ==
  ASSUME NEW p, Report(p)
  PROVE  /\ test' = "done" /\ verdict' \in {"passed", "failed"}
         /\ verdict' = "passed" <=>
              /\ reused /\ p <= Maximum /\ sched.pending = 0
              /\ jobs[Primary].completed = TestSize
              /\ jobs[Primary].succeeded + jobs[Primary].failed = TestSize
              /\ jobs[Fair].state = "completed"
              /\ jobs[Fair].succeeded = jobs[Fair].total
<1> DEFINE c == checks(p)
<1>1. /\ test' = "done"
      /\ verdict' = IF \A x \in DOMAIN c : c[x] THEN "passed" ELSE "failed"
  BY DEF Report
<1>2. DOMAIN c = {"idempotency_roundtrip", "all_prompts_aggregated",
                  "no_prompts_dropped", "concurrency_cap_respected",
                  "queue_drained", "fair_scheduling"}
  BY DEF checks
<1>3. /\ c["idempotency_roundtrip"] = reused
      /\ c["all_prompts_aggregated"] = (jobs[Primary].completed = TestSize)
      /\ c["no_prompts_dropped"] =
           (jobs[Primary].succeeded + jobs[Primary].failed = TestSize)
      /\ c["concurrency_cap_respected"] = (p <= Maximum)
      /\ c["queue_drained"] = (sched.pending = 0)
      /\ c["fair_scheduling"] = (/\ jobs[Fair].state = "completed"
                                 /\ jobs[Fair].succeeded = jobs[Fair].total)
  BY DEF checks
<1> HIDE DEF c
<1> QED BY <1>1, <1>2, <1>3, Zenon

(* On a calm engine both jobs are over only when all is done.              *)
LEMMA CalmVerdict ==
  ASSUME TestInv, calm, test \in {"polling", "waiting"},
         Terminal(Primary), Terminal(Fair), NEW p \in 0..Maximum, Report(p)
  PROVE  verdict' = "passed"
<1>1. /\ EngineInv /\ OnlyTestQueued(sched) /\ Unharmed(Primary) /\ Unharmed(Fair)
      /\ Accepted(Primary, TestSize) /\ Accepted(Fair, FairSize) /\ reused
  BY DEF TestInv, CalmSoFar, Submitted
<1>2. ASSUME NEW j \in {Primary, Fair}
      PROVE  /\ jobs[j].state = "completed" /\ jobs[j].failed = 0
             /\ jobs[j].completed = jobs[j].total
             /\ jobs[j].succeeded = jobs[j].total
             /\ sched.items[j] = <<>>
             /\ jobs[j].total \in Nat
  <2>1. j \in Jobs /\ JobOK(jobs[j])
    BY <1>1, TestSetting, InvTypes
  <2>2. jobs[j].state = "completed" /\ jobs[j].failed = 0
    BY <1>1, <1>2 DEF Unharmed, Terminal
  <2>3. jobs[j].completed = jobs[j].total /\ jobs[j].total \in Nat
    BY <2>1, <2>2, SchedulerAssumption DEF JobOK, JobRecord
  <2>4. jobs[j].succeeded = jobs[j].completed
    BY <2>1, <2>2, CountersTell
  <2>5. sched.items[j] = <<>>
    BY <1>1, <2>1, <2>3, NothingLeft
  <2> QED BY <2>2, <2>3, <2>4, <2>5
<1>3. sched.pending = 0
  <2>1. \A j \in Jobs : sched.items[j] = <<>>
    BY <1>1, <1>2 DEF OnlyTestQueued
  <2> QED BY <1>1, <2>1, InvTypes, NothingPending
<1>4. /\ jobs[Primary].completed = TestSize
      /\ jobs[Primary].succeeded + jobs[Primary].failed = TestSize
      /\ jobs[Fair].state = "completed"
      /\ jobs[Fair].succeeded = jobs[Fair].total
  BY <1>1, <1>2, TestSetting DEF Accepted
<1> QED BY <1>1, <1>3, <1>4, ReportFacts, TestSetting

(* A poll reads; it reports when both jobs are over or it is late.         *)
LEMMA PollKeeps ==
  ASSUME TestInv, EngineInv', PollStep
  PROVE  TestInv'
<1>1. PICK late \in BOOLEAN : PollPrimary(late) \/ PollFairAgain(late)
  BY DEF PollStep
<1>2. UNCHANGED <<engineVars, reused>> /\ calm' = (calm /\ ~late)
  BY <1>1 DEF PollPrimary, PollFairAgain
<1>3. UNCHANGED <<sched, lim, jobs, byKey, phase, reused>>
  BY <1>2 DEF engineVars
<1>4. /\ TestTypes /\ Submitted /\ CalmSoFar /\ PassedOnCounters /\ EngineInv
      /\ verdict # "passed"
  <2>1. test # "done"
    BY <1>1 DEF PollPrimary, PollFairAgain
  <2> QED BY <2>1 DEF TestInv, PassedOnCounters
<1>5. PICK p \in 0..Maximum :
        /\ peak' = p
        /\ \/ /\ test = "polling" /\ test' = "polling" /\ UNCHANGED verdict
           \/ /\ test = "polling" /\ (Terminal(Primary) \/ late)
              /\ PollFair(p, FALSE)
           \/ test = "waiting" /\ PollFair(p, late)
  <2> DEFINE q == Larger(peak, lim.in_use)
  <2>1. q \in 0..Maximum /\ peak \in 0..Maximum
    BY <1>4, LimInvParts, TestSetting
       DEF TestTypes, EngineInv, LinkInv, LimMax, Larger
  <2>2. CASE PollPrimary(late)
    BY <2>1, <2>2 DEF PollPrimary
  <2>3. CASE PollFairAgain(late)
    BY <2>1, <2>3 DEF PollFairAgain
  <2> QED BY <1>1, <2>2, <2>3
<1>6. CASE test' # "done"
  <2>1. /\ test \in {"polling", "waiting"} /\ test' \in {"polling", "waiting"}
        /\ verdict' = verdict
        /\ ~late /\ test' = "waiting" => Terminal(Primary) \/ test = "waiting"
    BY <1>5, <1>6 DEF PollFair, Report
  <2>2. TestTypes' /\ Submitted'
    BY <1>2, <1>3, <1>4, <1>5, <2>1
       DEF TestTypes, Submitted, Accepted, Unharmed
  <2>3. CalmSoFar'
    BY <1>2, <1>3, <1>4, <2>1
       DEF CalmSoFar, OnlyTestQueued, Unharmed, Terminal
  <2>4. PassedOnCounters' /\ CalmTestPasses'
    BY <1>4, <1>6, <2>1 DEF PassedOnCounters, CalmTestPasses
  <2> QED BY <2>2, <2>3, <2>4 DEF TestInv
<1>7. CASE test' = "done"
  <2>1. /\ Report(p) /\ test \in {"polling", "waiting"}
        /\ ~late => Terminal(Fair) /\ (Terminal(Primary) \/ test = "waiting")
    BY <1>5, <1>7 DEF PollFair
  <2>2. /\ verdict' \in {"passed", "failed"}
        /\ verdict' = "passed" =>
             /\ jobs[Primary].completed = TestSize
             /\ jobs[Fair].succeeded = jobs[Fair].total
    BY <2>1, ReportFacts
  <2>3. Accepted(Primary, TestSize) /\ Accepted(Fair, FairSize)
    BY <1>4, <2>1 DEF Submitted
  <2>4. TestTypes' /\ Submitted' /\ CalmSoFar' /\ PassedOnCounters'
    BY <1>2, <1>3, <1>4, <1>5, <1>7, <2>2, <2>3
       DEF TestTypes, Submitted, CalmSoFar, PassedOnCounters, Accepted
  <2>5. CalmTestPasses'
    <3> SUFFICES ASSUME calm, ~late PROVE verdict' = "passed"
      BY <1>2 DEF CalmTestPasses
    <3>1. Terminal(Primary) /\ Terminal(Fair)
      BY <1>4, <2>1 DEF CalmSoFar, Terminal
    <3> QED BY <2>1, <3>1, CalmVerdict
  <2> QED BY <2>4, <2>5 DEF TestInv
<1> QED BY <1>6, <1>7

(* Between the steps of the test the engine, its other clients and a       *)
(* shutdown go on.                                                         *)
LEMMA OthersKeep ==
  ASSUME TestInv, EngineInv', jobs' = jobs \/ Accepts \/ Records \/ Cancels,
         Disturbance \/ Routine
  PROVE  TestInv'
<1>1. /\ test # "submitting" /\ UNCHANGED <<test, reused, peak, verdict>>
      /\ calm' \in {calm, FALSE}
  BY DEF Disturbance, Routine, testVars
<1>2. TestTypes' /\ Submitted' /\ PassedOnCounters'
  <2>1. /\ Accepted(Primary, TestSize) => Accepted(Primary, TestSize)'
        /\ Accepted(Fair, FairSize) => Accepted(Fair, FairSize)'
        /\ verdict = "passed" => /\ jobs'[Primary].completed = TestSize
                                 /\ jobs'[Fair].succeeded = FairSize
    BY SubmittedStays
  <2> QED BY <1>1, <2>1
          DEF TestInv, TestTypes, Submitted, PassedOnCounters
<1>3. CalmTestPasses'
  BY <1>1 DEF TestInv, TestTypes, CalmTestPasses
<1>4. CalmSoFar'
  <2> SUFFICES ASSUME calm', test \in {"polling", "waiting"}
               PROVE  /\ phase' = "up" /\ OnlyTestQueued(sched')
                      /\ Unharmed(Primary)' /\ Unharmed(Fair)'
                      /\ test = "waiting" => jobs'[Primary].state = "completed"
    BY <1>1 DEF CalmSoFar, OnlyTestQueued
  <2>1. /\ calm /\ EngineInv /\ phase = "up" /\ OnlyTestQueued(sched)
        /\ Unharmed(Primary) /\ Unharmed(Fair)
        /\ test = "waiting" => jobs[Primary].state = "completed"
    BY <1>1 DEF TestInv, TestTypes, CalmSoFar
  <2>2. PICK w \in Workers : Runs(w) \/ Succeeds(w) \/ RateLimited(w)
    BY <2>1 DEF Disturbance, Routine, ShutdownStep, GraceExpires,
                FinishShutdown, Exited
  <2> QED BY <2>1, <2>2, TestSetting, RoutineHarmless DEF OnlyTestQueued
<1> QED BY <1>2, <1>3, <1>4 DEF TestInv

(* TestInv is inductive.                                                   *)
THEOREM TestInductive == TestInv /\ [SelfTestNext]_selfTestVars => TestInv'
<1> SUFFICES ASSUME TestInv, [SelfTestNext]_selfTestVars
             PROVE  TestInv'
  OBVIOUS
<1>1. EngineInv' /\ (jobs' = jobs \/ Accepts \/ Records \/ Cancels)
  BY TestIsClient, EngineInductive DEF TestInv
<1>2. CASE Refused \/ UNCHANGED selfTestVars
  <2>1. /\ UNCHANGED engineVars /\ UNCHANGED <<reused, peak, verdict, calm>>
        /\ test' \in {test, "refused"} /\ (test' # test => verdict # "passed")
    BY <1>2 DEF Refused, selfTestVars, engineVars, TestInv, PassedOnCounters
  <2>2. UNCHANGED <<sched, jobs, byKey, phase>>
    BY <2>1 DEF engineVars
  <2> QED BY <1>1, <2>1, <2>2
          DEF TestInv, TestTypes, Submitted, CalmSoFar, PassedOnCounters,
              CalmTestPasses, Accepted, Unharmed, OnlyTestQueued
<1> QED BY <1>1, <1>2, SubmitPrimaryKeeps, SubmitFairKeeps, PollKeeps, OthersKeep
        DEF SelfTestNext

(* And it holds before the test starts.                                    *)
LEMMA TestInitOK == TestInit => TestInv
<1> SUFFICES ASSUME TestInit PROVE TestInv
  OBVIOUS
<1>1. EngineInv
  BY LinkInit, JobsInit DEF TestInit, EngineInv
<1>2. /\ test = "idle" /\ reused = FALSE /\ peak = 0 /\ verdict = "none"
      /\ calm = TRUE
  BY DEF TestInit
<1>3. TestTypes
  <2>1. peak \in 0..Maximum
    BY <1>2, TestSetting
  <2> QED BY <1>2, <2>1, Zenon DEF TestTypes
<1> QED BY <1>1, <1>2, <1>3
        DEF TestInv, Submitted, CalmSoFar, PassedOnCounters, CalmTestPasses

(* What the counters mean: every prompt of both jobs has its own result.   *)
LEMMA InvPassed == TestInv => PassedMeansDone
<1> SUFFICES ASSUME TestInv, verdict = "passed"
             PROVE  /\ Done(Primary) = 0..(TestSize - 1)
                    /\ Succeeded(Fair) = 0..(FairSize - 1)
                    /\ \A j \in {Primary, Fair} : Queued(j) \cup InFlight(j) = {}
  BY DEF PassedMeansDone
<1>1. /\ EngineInv /\ jobs[Primary].completed = TestSize
      /\ jobs[Fair].succeeded = FairSize
      /\ jobs[Primary].total = TestSize /\ jobs[Fair].total = FairSize
  BY DEF TestInv, PassedOnCounters, Submitted, Accepted
<1>2. JobOK(jobs[Fair])
  BY <1>1, InvTypes, TestSetting
<1>3. OkIn(jobs[Fair]) = 0..(FairSize - 1)
  BY <1>1, <1>2, CountersTell
<1>4. jobs[Fair].completed = jobs[Fair].total
  <2>1. OkIn(jobs[Fair]) \subseteq DoneIn(jobs[Fair])
    BY DEF OkIn, DoneIn
  <2>2. DoneIn(jobs[Fair]) \subseteq 0..(jobs[Fair].total - 1)
    BY <1>2 DEF JobOK
  <2> QED BY <1>1, <1>2, <1>3, <2>1, <2>2, AllDone
<1> QED BY <1>1, <1>3, <1>4, NothingLeft, TestSetting
        DEF Done, DoneIn, Succeeded, OkIn

-----------------------------------------------------------------------------
(***************************************************************************)
(* No false all-clear: when the self-test has passed, every prompt of both *)
(* its jobs has its own result, on an engine of any size, with other       *)
(* clients, failures, cancels and a shutdown around it.                    *)
(***************************************************************************)
THEOREM PassedCanBeTrusted == SelfTestSpec => []PassedMeansDone
BY TestInitOK, TestInductive, InvPassed, PTL DEF SelfTestSpec

(***************************************************************************)
(* No false alarm: on a calm engine the self-test never fails, however     *)
(* many prompts it has and however many 429s the provider answers.         *)
(***************************************************************************)
THEOREM NoFalseAlarm == SelfTestSpec => []CalmTestPasses
<1>1. TestInv => CalmTestPasses
  BY DEF TestInv
<1> QED BY <1>1, TestInitOK, TestInductive, PTL DEF SelfTestSpec

(***************************************************************************)
(* The test sees the production path: with it running, the engine takes    *)
(* only the steps it takes for any other client, so every theorem about    *)
(* the engine holds during a self-test too.                                *)
(***************************************************************************)
THEOREM TestUsesTheEngine == SelfTestSpec => Spec
<1>1. TestInit => Init
  BY DEF TestInit
<1>2. [SelfTestNext]_selfTestVars => [Next]_engineVars
  BY TestIsClient
<1> QED BY <1>1, <1>2, PTL DEF SelfTestSpec, Spec

=============================================================================
