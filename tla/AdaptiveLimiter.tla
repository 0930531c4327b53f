--------------------------- MODULE AdaptiveLimiter ---------------------------
(***************************************************************************)
(* The AIMD concurrency gate of app/ratelimit.py and the worker loop that  *)
(* uses it (app/engine.py, _worker).                                       *)
(*                                                                         *)
(* No task suspends while it holds the lock of the asyncio.Condition, so   *)
(* the lock is always free when somebody wants it and is left out.  What   *)
(* stays of the condition is its wait queue.                               *)
(***************************************************************************)
EXTENDS Integers, Sequences, FiniteSets

CONSTANTS
  Workers,                    \* tasks that may exist at the same time
  Initial, Minimum, Maximum,  \* constructor arguments
  DecNum, DecDen,             \* decrease_factor, as the fraction DecNum/DecDen
  IncreaseAfter

ASSUME LimiterAssumption ==
  /\ IsFiniteSet(Workers)
  /\ Initial \in Nat \ {0}
  /\ Minimum \in Nat
  /\ Maximum \in Nat \ {0}
  /\ DecNum \in Nat /\ DecDen \in Nat \ {0} /\ DecNum <= DecDen
  /\ IncreaseAfter \in Nat

VARIABLES lim, holders   \* holders: the tasks between acquire and release

limVars == <<lim, holders>>

-----------------------------------------------------------------------------
(* State of an AdaptiveConcurrencyLimiter.                                 *)

Smaller(a, b) == IF a <= b THEN a ELSE b
Larger(a, b)  == IF a >= b THEN a ELSE b

(* The constructor clamps its arguments.                                   *)
LimMax     == Maximum
LimMin     == Smaller(Minimum, LimMax)
StartLimit == Larger(LimMin, Smaller(Initial, LimMax))

(***************************************************************************)
(* waiters  the futures in the condition's queue that are not done, FIFO   *)
(* woken    the tasks whose future notify() has set: they have left the    *)
(*          queue but have not run yet                                     *)
(***************************************************************************)
NewLimiter ==
  [limit |-> StartLimit, in_use |-> 0, streak |-> 0,
   waiters |-> <<>>, woken |-> {}]

-----------------------------------------------------------------------------
(* Methods.                                                                *)

CanAcquire(l) == l.in_use < l.limit

Acquired(l) == [l EXCEPT !.in_use = @ + 1]

Enqueued(l, w) == [l EXCEPT !.waiters = Append(@, w)]

(* A task resumes inside cond.wait(): its future leaves the queue.         *)
Dequeued(l, w) == [l EXCEPT !.woken = @ \ {w}]

(* Mutant: release() does not notify.                                      *)
NotifiedNobody(l) == l

(* notify(1): the first future that is not done.                           *)
Notified(l) ==
  IF l.waiters = <<>> THEN l
  ELSE [l EXCEPT !.woken = @ \cup {Head(l.waiters)}, !.waiters = Tail(@)]

Released(l) == Notified([l EXCEPT !.in_use = @ - 1])

(* Mutant: the floor is ignored.                                           *)
record_throttleUnclamped(l) ==
  [l EXCEPT !.limit = (@ * DecNum) \div DecDen, !.streak = 0]

record_throttle(l) ==
  [l EXCEPT !.limit = Larger(LimMin, (@ * DecNum) \div DecDen),
            !.streak = 0]

(* Only streak >= IncreaseAfter is ever tested: the counter saturates.     *)
record_success(l) ==
  LET streak == Smaller(l.streak + 1, IncreaseAfter)
  IN  IF streak >= IncreaseAfter /\ l.limit < LimMax
      THEN [l EXCEPT !.limit = @ + 1, !.streak = 0]
      ELSE [l EXCEPT !.streak = streak]

-----------------------------------------------------------------------------
(***************************************************************************)
(* The limiter under the worker loop: acquire; if there is work, hold the  *)
(* permit while the item is processed; release; start over.  A worker that *)
(* acquires and finds no work releases and ends.  From release to the next *)
(* acquire a worker does not suspend, so it gets ahead of the task its     *)
(* release woke.                                                           *)
(***************************************************************************)
LimInit == lim = NewLimiter /\ holders = {}

Idle(w) == /\ w \notin holders
           /\ w \notin lim.woken
           /\ \A i \in 1..Len(lim.waiters) : lim.waiters[i] # w

(* Mutant: a worker that finds no work ends without release().             *)
LimLoopLeaks(w, l, work) ==
  /\ lim' = IF ~CanAcquire(l) THEN Enqueued(l, w) ELSE Acquired(l)
  /\ holders' = IF CanAcquire(l) /\ work THEN holders \cup {w}
                ELSE holders \ {w}

(* The top of the loop, reached with the limiter in state l.               *)
LimLoop(w, l, work) ==
  /\ lim' = IF ~CanAcquire(l) THEN Enqueued(l, w)
            ELSE IF work THEN Acquired(l)
            ELSE Released(Acquired(l))
  /\ holders' = IF CanAcquire(l) /\ work THEN holders \cup {w}
                ELSE holders \ {w}

LimStart(w, work) == Idle(w) /\ LimLoop(w, lim, work)

LimResume(w, work) == w \in lim.woken /\ LimLoop(w, Dequeued(lim, w), work)

(* A 429 that will be retried: the permit is kept during the backoff.      *)
LimThrottle(w) ==
  /\ w \in holders
  /\ lim' = record_throttle(lim)
  /\ UNCHANGED holders

LimFinish(w, success, work) ==
  /\ w \in holders
  /\ LimLoop(w, Released(IF success THEN record_success(lim) ELSE lim), work)

(***************************************************************************)
(* Shutdown cancels the workers.  A sleeping future becomes done and the   *)
(* task leaves acquire() without a permit; a holder unwinds through the    *)
(* finally clause that releases.                                           *)
(***************************************************************************)
LimCancel ==
  /\ lim' = [lim EXCEPT !.waiters = <<>>, !.woken = {}]
  /\ UNCHANGED holders

LimUnwind(w) ==
  /\ w \in holders
  /\ lim' = Released(lim)
  /\ holders' = holders \ {w}

LimStep(w) ==
  \/ LimThrottle(w)
  \/ LimUnwind(w)
  \/ \E work \in BOOLEAN : LimStart(w, work) \/ LimResume(w, work)
  \/ \E success, work \in BOOLEAN : LimFinish(w, success, work)

LimNext ==
  \/ LimCancel
  \/ \E w \in Workers : LimStep(w)

LimSpec == LimInit /\ [][LimNext]_limVars

-----------------------------------------------------------------------------
LimiterState ==
  [limit : LimMin..LimMax, in_use : Nat, streak : 0..IncreaseAfter,
   waiters : Seq(Workers), woken : SUBSET Workers]

(* Type invariant of the limiter; the limit stays within its clamps.       *)
LimTypeOK ==
  /\ lim \in LimiterState
  /\ holders \subseteq Workers

(***************************************************************************)
(* Permits are neither leaked nor returned twice on any path through the   *)
(* worker loop, and, although the limit may fall below the number of       *)
(* permits in use, never more than GLOBAL_MAX_CONCURRENCY items are        *)
(* processed at once ("Bounded concurrency", docs/architecture.md:60).     *)
(***************************************************************************)
PermitsExact ==
  /\ lim.in_use = Cardinality(holders)
  /\ lim.in_use <= LimMax

(***************************************************************************)
(* No lost wakeup: as long as a task sleeps in the queue, every free       *)
(* permit is promised to a task that has already been woken.  A release    *)
(* wakes one task only, but the release after the success that grows the   *)
(* limit frees two permits: record_success() counts on its caller.         *)
(***************************************************************************)
NoLostWakeup ==
  lim.waiters # <<>> => lim.limit - lim.in_use <= Cardinality(lim.woken)

(***************************************************************************)
(* A task is in the wait queue at most once, is not woken while it sleeps, *)
(* and holds no permit while it waits.                                     *)
(***************************************************************************)
WaitersDistinct ==
  /\ \A i, k \in 1..Len(lim.waiters) :
        lim.waiters[i] = lim.waiters[k] => i = k
  /\ \A i \in 1..Len(lim.waiters) :
        lim.waiters[i] \notin lim.woken /\ lim.waiters[i] \notin holders
  /\ lim.woken \cap holders = {}

=============================================================================
