-------------------------- MODULE SchedulerFairness --------------------------
(***************************************************************************)
(* What "fair" means for app/scheduler.py.  A history variable counts, for *)
(* every pair of jobs, how often the second was served since the first was *)
(* served last (or arrived, if it has not been served yet).                *)
(***************************************************************************)
EXTENDS FairScheduler

VARIABLE bypass   \* bypass[j][k]: services of k that j has waited through

fairVars == <<sched, bypass>>

NoBypass == [j \in Jobs |-> [k \in Jobs |-> 0]]

(* A job that leaves or enters the dict starts from zero on both sides.    *)
Forget(D) ==
  [j \in Jobs |-> [k \in Jobs |->
     IF j \in D \/ k \in D THEN 0 ELSE bypass[j][k]]]

FairInit == SchedInit /\ bypass = NoBypass

FairAdd(j, n, p) == add_job(j, n, p) /\ bypass' = Forget({j})

FairRemove(j) == remove_job(j) /\ bypass' = Forget({j})

FairPop ==
  LET gone   == Jobs \ Purged(sched).keys
      served == PopJob(sched)
  IN  /\ pop
      /\ bypass' =
           IF PopReturnsNone(sched) THEN NoBypass
           ELSE [j \in Jobs |-> [k \in Jobs |->
                  IF j \in gone \/ k \in gone \/ j = served THEN 0
                  ELSE IF k = served THEN bypass[j][k] + 1
                  ELSE bypass[j][k]]]

FairNext ==
  \/ \E j \in Jobs, n \in 1..MaxBatch, p \in Priorities : FairAdd(j, n, p)
  \/ \E j \in Jobs : FairRemove(j)
  \/ FairPop

FairSpec == FairInit /\ [][FairNext]_fairVars

-----------------------------------------------------------------------------
(***************************************************************************)
(* Type invariant of the scheduler's record and of the history variable;   *)
(* no credit and no counter becomes negative, and only jobs in the dict    *)
(* are ordered.                                                            *)
(***************************************************************************)
SchedTypeOK ==
  /\ sched \in SchedulerState
  /\ sched.older \subseteq sched.keys \X sched.keys
  /\ bypass \in [Jobs -> [Jobs -> Nat]]

(***************************************************************************)
(* Bounded bypass: while a job waits between two of its services, every    *)
(* other job is served at most weight times.  So a low-priority job gets   *)
(* its turn after at most one credit of each job that is in the dict, and  *)
(* jobs are served in proportion to their weights.                         *)
(***************************************************************************)
BoundedBypass ==
  \A j, k \in Jobs : Waiting(j) => bypass[j][k] <= sched.weight[k]

(***************************************************************************)
(* pop() never takes the branch that its comment calls "shouldn't happen": *)
(* after the round reset some queued job is in credit.                     *)
(***************************************************************************)
SomeoneInCredit ==
  ~PopReturnsNone(sched) => InCredit(WithRound(Purged(sched))) # {}

=============================================================================
