---------------------------- MODULE FairScheduler ----------------------------
(***************************************************************************)
(* The global fair scheduler of app/scheduler.py: one queue of work items  *)
(* per job, served by weighted round robin with credits.                   *)
(*                                                                         *)
(* The object is one record, and every method is an operator from that     *)
(* record to the next one: the engine runs several methods in one          *)
(* uninterrupted stretch of the event loop, so it has to compose them.     *)
(***************************************************************************)
EXTENDS Integers, Sequences, FiniteSets

CONSTANTS
  Jobs,         \* job ids; a fresh uuid4 per job in the code
  MaxBatch,     \* bound: the longest batch that is submitted
  Priorities    \* bound: the priorities that are submitted

Priority == {"high", "normal", "low"}

ASSUME SchedulerAssumption ==
  /\ IsFiniteSet(Jobs)
  /\ MaxBatch \in Nat \ {0}
  /\ Priorities \subseteq Priority

VARIABLE sched

-----------------------------------------------------------------------------
(* State of a FairScheduler.                                               *)

PRIORITY_WEIGHTS == [high |-> 4, normal |-> 2, low |-> 1]

(***************************************************************************)
(* keys     the keys of the dict _queues                                   *)
(* older    <<j, k>>: the dict iterates over j before k (insertion order)  *)
(* weight, items, credit   the fields of a _JobQueue, 0 or empty when the  *)
(*          job has none; an item is its seq                               *)
(* pending  the counter _pending                                           *)
(***************************************************************************)
EmptyScheduler ==
  [keys    |-> {},
   older   |-> {},
   weight  |-> [j \in Jobs |-> 0],
   items   |-> [j \in Jobs |-> <<>>],
   credit  |-> [j \in Jobs |-> 0],
   pending |-> 0]

(* The items of a batch of n prompts, numbered in submission order.        *)
WorkItems(n) == [i \in 1..n |-> i - 1]

-----------------------------------------------------------------------------
(* Methods.                                                                *)

AddJob(s, j, work, priority) ==
  LET w == PRIORITY_WEIGHTS[priority]
  IN  [keys    |-> s.keys \cup {j},
       older   |-> s.older \cup (s.keys \X {j}),
       weight  |-> [s.weight EXCEPT ![j] = w],
       items   |-> [s.items EXCEPT ![j] = work],
       credit  |-> [s.credit EXCEPT ![j] = w],
       pending |-> s.pending + Len(work)]

(* Deletes the keys in D from the dict.                                    *)
DropQueues(s, D) ==
  [keys    |-> s.keys \ D,
   older   |-> {p \in s.older : p[1] \notin D /\ p[2] \notin D},
   weight  |-> [j \in Jobs |-> IF j \in D THEN 0 ELSE s.weight[j]],
   items   |-> [j \in Jobs |-> IF j \in D THEN <<>> ELSE s.items[j]],
   credit  |-> [j \in Jobs |-> IF j \in D THEN 0 ELSE s.credit[j]],
   pending |-> s.pending]

(* Mutant: the removed items are not subtracted.                           *)
RemoveJobKeepsCount(s, j) == DropQueues(s, {j})

RemoveJob(s, j) ==
  [DropQueues(s, {j}) EXCEPT !.pending = @ - Len(s.items[j])]

(* pop() first deletes the queues that have no item left.                  *)
Purged(s) == DropQueues(s, {j \in s.keys : s.items[j] = <<>>})

InCredit(s) == {j \in s.keys : s.credit[j] > 0}

NewRound(s) == [s EXCEPT !.credit = s.weight]

(* Mutants: a round ends as soon as one job has no credit, or never.       *)
WithRoundOnAny(s) ==
  IF \E j \in s.keys : s.credit[j] = 0 THEN NewRound(s) ELSE s

WithRoundNever(s) == s

(* When nobody has credit left a new round starts: credit = weight.        *)
WithRound(s) == IF InCredit(s) = {} THEN NewRound(s) ELSE s

Oldest(s, S) == CHOOSE j \in S : \A k \in S \ {j} : <<j, k>> \in s.older

PopReturnsNone(s) == Purged(s).keys = {}

(* Mutant: the oldest job is served, in credit or not.                     *)
PopJobWithoutCredit(s) == LET r == WithRound(Purged(s)) IN Oldest(r, r.keys)

(***************************************************************************)
(* The job pop() serves: the oldest one in credit.  When there is none     *)
(* even after the round was reset the code resets all credits again and    *)
(* takes the oldest job; its comment says that this should not happen.     *)
(***************************************************************************)
PopJob(s) ==
  LET r == WithRound(Purged(s))
  IN  IF InCredit(r) # {} THEN Oldest(r, InCredit(r)) ELSE Oldest(r, r.keys)

PopFallback(s) == IF InCredit(s) = {} THEN NewRound(s) ELSE s

PopItem(s) == Head(s.items[PopJob(s)])

Served(s, j) ==
  [s EXCEPT !.items   = [s.items EXCEPT ![j] = Tail(@)],
            !.credit  = [s.credit EXCEPT ![j] = @ - 1],
            !.pending = @ - 1]

Popped(s) ==
  IF PopReturnsNone(s) THEN Purged(s)
  ELSE Served(PopFallback(WithRound(Purged(s))), PopJob(s))

-----------------------------------------------------------------------------
(* The scheduler on its own: any job may arrive or be cancelled, and the   *)
(* workers pop.                                                            *)

SchedInit == sched = EmptyScheduler

add_job(j, n, priority) ==
  /\ j \notin sched.keys
  /\ sched' = AddJob(sched, j, WorkItems(n), priority)

remove_job(j) ==
  /\ j \in sched.keys
  /\ sched' = RemoveJob(sched, j)

pop == sched' = Popped(sched)

Arrival == \E j \in Jobs, n \in 1..MaxBatch, p \in Priorities : add_job(j, n, p)

SchedNext ==
  \/ Arrival
  \/ \E j \in Jobs : remove_job(j)
  \/ pop

(* The workers never stop popping while there are items.                   *)
SchedSpec == SchedInit /\ [][SchedNext]_sched /\ WF_sched(pop)

-----------------------------------------------------------------------------
SchedulerState ==
  [keys : SUBSET Jobs, older : SUBSET (Jobs \X Jobs), weight : [Jobs -> Nat],
   items : [Jobs -> Seq(Nat)], credit : [Jobs -> Nat], pending : Nat]

(* The positions of all queues that hold an item.                          *)
QueuedItems(s) ==
  {p \in Jobs \X (1..MaxBatch) : p[2] <= Len(s.items[p[1]])}

(***************************************************************************)
(* The counter _pending, which add_job, remove_job and pop maintain by     *)
(* hand and on which the engine's queue-capacity backpressure rests, is    *)
(* always the number of queued items.                                      *)
(***************************************************************************)
PendingIsExact == sched.pending = Cardinality(QueuedItems(sched))

Waiting(j) == j \in sched.keys /\ sched.items[j] # <<>>

(***************************************************************************)
(* "no job can be starved" (app/scheduler.py:11), with no condition on     *)
(* arrivals.                                                               *)
(***************************************************************************)
NoJobStarves == \A j \in Jobs : Waiting(j) ~> ~Waiting(j)

=============================================================================
