---------------------------- MODULE JobLifecycle ----------------------------
(***************************************************************************)
(* What the service promises about a job, without queues, workers and      *)
(* permits: it is accepted once, gets at most one answer per prompt, and   *)
(* ends once, completed with its last answer or cancelled before.  Answers *)
(* that were on their way when it was cancelled may still be counted.      *)
(***************************************************************************)
EXTENDS Integers

CONSTANTS Jobs, MaxBatch

VARIABLE life   \* for every job the fields of Job that clients see

NoLife == [state |-> "none", total |-> 0,
           completed |-> 0, succeeded |-> 0, failed |-> 0]

LifeInit == life = [j \in Jobs |-> NoLife]

Accept(j, n) ==
  /\ life[j].state = "none"
  /\ life' = [life EXCEPT ![j] = [NoLife EXCEPT !.state = "running", !.total = n]]

(* Mutant: a success is counted twice.                                     *)
AnsweredTwice(l, ok) ==
  [l EXCEPT !.completed = IF ok THEN @ + 2 ELSE @ + 1,
            !.succeeded = IF ok THEN @ + 1 ELSE @,
            !.failed    = IF ok THEN @ ELSE @ + 1,
            !.state     = IF l.completed + 1 = l.total /\ l.state = "running"
                          THEN "completed" ELSE @]

(* The record of a job l after one more answer.                            *)
Answered(l, ok) ==
  [l EXCEPT !.completed = @ + 1,
            !.succeeded = IF ok THEN @ + 1 ELSE @,
            !.failed    = IF ok THEN @ ELSE @ + 1,
            !.state     = IF l.completed + 1 = l.total /\ l.state = "running"
                          THEN "completed" ELSE @]

Answer(j, ok) ==
  /\ life[j].state \in {"running", "cancelled"}
  /\ life[j].completed < life[j].total
  /\ life' = [life EXCEPT ![j] = Answered(life[j], ok)]

(* A client cancels one running job; a shutdown cancels all that are left. *)
Cancel(S) ==
  /\ S # {} /\ \A j \in S : life[j].state = "running"
  /\ life' = [j \in Jobs |-> IF j \in S THEN [life[j] EXCEPT !.state = "cancelled"]
                             ELSE life[j]]

LifeNext ==
  \/ \E j \in Jobs, n \in 1..MaxBatch : Accept(j, n)
  \/ \E j \in Jobs, ok \in BOOLEAN : Answer(j, ok)
  \/ \E S \in SUBSET Jobs : Cancel(S)

LifeSpec == LifeInit /\ [][LifeNext]_life

=============================================================================
