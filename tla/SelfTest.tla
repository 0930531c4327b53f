------------------------------ MODULE SelfTest ------------------------------
(***************************************************************************)
(* POST /system/self-test (app/selftest.py) on a live engine: a client     *)
(* that submits two jobs, polls them against deadlines and judges what it  *)
(* sees, while other clients, failures and a shutdown interfere.           *)
(*                                                                         *)
(* The numbers of prompts are small constants; immediate_ack, which judges *)
(* the wall clock, and the informational retry_recovery_observed are left  *)
(* out.                                                                    *)
(***************************************************************************)
EXTENDS BatchEngine

CONSTANTS
  Primary, Fair,           \* the ids of the two jobs
  PrimaryKey, FairKey,     \* their idempotency keys, which hold a fresh uuid4
  TestSize, FairSize       \* their numbers of prompts

ASSUME SelfTestAssumption ==
  /\ {Primary, Fair} \subseteq Jobs /\ Primary # Fair
  /\ {PrimaryKey, FairKey} \subseteq Keys /\ PrimaryKey # FairKey
  /\ {TestSize, FairSize} \subseteq 1..MaxBatch
  /\ {"low", "normal"} \subseteq Priorities

VARIABLES
  test,      \* where run_self_test is
  reused,    \* checks["idempotency_roundtrip"]
  peak,      \* peak_inflight
  verdict,   \* the report's status
  calm       \* history: nothing has disturbed the test

testVars == <<test, reused, peak, verdict, calm>>

selfTestVars == <<sched, lim, holders, jobs, byKey, active, stage, item,
                  attempt, phase, test, reused, peak, verdict, calm>>

TestInit ==
  /\ Init
  /\ test = "idle" /\ reused = FALSE /\ peak = 0 /\ verdict = "none"
  /\ calm = TRUE

-----------------------------------------------------------------------------
(***************************************************************************)
(* The test submits without suspending: between the two submissions no     *)
(* other step is possible ("submitting").  A refusal is an exception, and  *)
(* the job that was accepted before it is left running.                    *)
(***************************************************************************)
SubmitPrimary ==
  /\ test = "idle"
  /\ submit(Primary, TestSize, "low", PrimaryKey)
  /\ test' = "submitting"
  /\ calm' = (sched.pending = 0)
  /\ UNCHANGED <<reused, peak, verdict>>

SubmitFair ==
  /\ test = "submitting"
  /\ submit(Fair, FairSize, "normal", FairKey)
  /\ reused' = /\ SubmitOutcome(TestSize, "low", PrimaryKey) = "reused"
               /\ find_by_idempotency_key(PrimaryKey) = Primary
  /\ test' = "polling"
  /\ peak' = lim.in_use
  /\ UNCHANGED <<verdict, calm>>

Refused ==
  /\ \/ test = "idle" /\ SubmitOutcome(TestSize, "low", PrimaryKey) # "accepted"
     \/ test = "submitting" /\ SubmitOutcome(FairSize, "normal", FairKey) # "accepted"
  /\ test' = "refused"
  /\ UNCHANGED <<engineVars, reused, peak, verdict, calm>>

(* The must-pass checks, with peak_inflight = p.                           *)
checks(p) ==
  [idempotency_roundtrip     |-> reused,
   all_prompts_aggregated    |-> jobs[Primary].completed = TestSize,
   no_prompts_dropped        |-> jobs[Primary].succeeded + jobs[Primary].failed
                                   = TestSize,
   concurrency_cap_respected |-> p <= Maximum,
   queue_drained             |-> sched.pending = 0,
   fair_scheduling           |-> /\ jobs[Fair].state = "completed"
                                 /\ jobs[Fair].succeeded = jobs[Fair].total]

Report(p) ==
  /\ verdict' = IF \A c \in DOMAIN checks(p) : checks(p)[c]
                THEN "passed" ELSE "failed"
  /\ test' = "done"

(* Mutant: the fair job is not waited for.                                 *)
PollFairOnce(p, late) == Report(p)

(* _poll on the fair job.                                                  *)
PollFair(p, late) ==
  IF Terminal(Fair) \/ late THEN Report(p)
  ELSE test' = "waiting" /\ UNCHANGED verdict

(***************************************************************************)
(* One turn of a polling loop.  late: its deadline has passed.  When the   *)
(* primary job is over the fair job is looked at in the same step.         *)
(***************************************************************************)
PollPrimary(late) ==
  LET p == Larger(peak, lim.in_use)
  IN  /\ test = "polling"
      /\ peak' = p
      /\ IF Terminal(Primary) \/ late THEN PollFair(p, FALSE)
         ELSE UNCHANGED <<test, verdict>>
      /\ calm' = (calm /\ ~late)
      /\ UNCHANGED <<engineVars, reused>>

(* Mutant: the poll of the fair job has no deadline.                       *)
PollFairAgainForever(late) ==
  /\ test = "waiting"
  /\ PollFair(peak, FALSE)
  /\ calm' = (calm /\ ~late)
  /\ UNCHANGED <<engineVars, reused, peak>>

PollFairAgain(late) ==
  /\ test = "waiting"
  /\ PollFair(peak, late)
  /\ calm' = (calm /\ ~late)
  /\ UNCHANGED <<engineVars, reused, peak>>

PollStep == \E late \in BOOLEAN : PollPrimary(late) \/ PollFairAgain(late)

-----------------------------------------------------------------------------
OtherClient ==
  \/ \E j \in Jobs \ {Primary, Fair} :
       \/ \E n \in 1..MaxBatch, p \in Priorities,
             k \in (Keys \ {PrimaryKey, FairKey}) \cup {None} : submit(j, n, p, k)
       \/ replay_endpoint(j)
  \/ \E j \in Jobs : cancel_job(j)

Disturbance ==
  /\ test # "submitting"
  /\ OtherClient \/ BeginShutdown \/ \E w \in Workers : Fails(w)
  /\ calm' = FALSE
  /\ UNCHANGED <<test, reused, peak, verdict>>

Routine ==
  /\ test # "submitting"
  /\ \/ \E w \in Workers : Runs(w) \/ Succeeds(w) \/ RateLimited(w)
     \/ ShutdownStep
     \/ Exited
  /\ UNCHANGED testVars

SelfTestNext ==
  SubmitPrimary \/ SubmitFair \/ Refused \/ PollStep \/ Disturbance \/ Routine

(* The event loop runs the test when its sleep is over, and time passes.   *)
SelfTestSpec ==
  TestInit /\ [][SelfTestNext]_selfTestVars /\ WF_selfTestVars(PollStep)

-----------------------------------------------------------------------------
(***************************************************************************)
(* No false alarm on a calm engine: with nothing queued when it starts and *)
(* no other client, failed prompt, shutdown or missed deadline until it    *)
(* ends, the self-test passes, whatever the provider throttles and however *)
(* its polls fall between the steps of the workers.                        *)
(***************************************************************************)
CalmTestPasses == test = "done" /\ calm => verdict = "passed"

(***************************************************************************)
(* No false all-clear: the checks read counters and the length of the      *)
(* queue, yet a test that passed means that every prompt of both jobs has  *)
(* its own result and none of them is queued or held by a worker, even     *)
(* when a job was cancelled under the test.                                *)
(***************************************************************************)
PassedMeansDone ==
  verdict = "passed" =>
    /\ Done(Primary) = 0..(TestSize - 1)
    /\ Succeeded(Fair) = 0..(FairSize - 1)
    /\ \A j \in {Primary, Fair} : Queued(j) \cup InFlight(j) = {}

(* The request is answered, also when the provider never answers.          *)
TestEnds == test = "polling" ~> test = "done"

=============================================================================
