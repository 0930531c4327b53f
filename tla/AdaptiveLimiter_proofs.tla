----------------------- MODULE AdaptiveLimiter_proofs -----------------------
(***************************************************************************)
(* The limiter's invariants, for any number of workers and any constructor *)
(* arguments that LimiterAssumption admits.                                *)
(*                                                                         *)
(* The argument: between release and the next acquire a worker is in the   *)
(* middle of one step, and there the limiter may have one free permit more *)
(* than it has woken tasks.  LoopReady says so; LoopKeeps shows that the   *)
(* top of the loop restores the invariant from it; each action then only   *)
(* has to establish LoopReady.                                             *)
(***************************************************************************)
EXTENDS AdaptiveLimiter, FiniteSetTheorems, SequenceTheorems, TLAPS

Sleeping(l, w) == \E i \in 1..Len(l.waiters) : l.waiters[i] = w

(* The limiter neither lets w sleep nor has woken it.                      *)
Away(l, w) == w \notin l.woken /\ ~Sleeping(l, w)

(* No task is in two places: asleep twice, asleep and woken, or in h.      *)
Separate(l, h) ==
  /\ \A i, k \in 1..Len(l.waiters) : l.waiters[i] = l.waiters[k] => i = k
  /\ \A i \in 1..Len(l.waiters) :
        l.waiters[i] \notin l.woken /\ l.waiters[i] \notin h
  /\ l.woken \cap h = {}

(* n permits more than the woken tasks may be free while a task sleeps.    *)
FreeAtMost(l, n) ==
  l.waiters # <<>> => l.limit - l.in_use <= Cardinality(l.woken) + n

LimInv == LimTypeOK /\ WaitersDistinct /\ PermitsExact /\ NoLostWakeup

(* What holds of limiter l and the other holders h when w is about to      *)
(* acquire.                                                                *)
LoopReady(w, l, h) ==
  /\ l \in LimiterState
  /\ h \subseteq Workers /\ w \notin h
  /\ Separate(l, h)
  /\ w \notin l.woken /\ ~Sleeping(l, w)
  /\ l.in_use = Cardinality(h) /\ l.in_use <= LimMax
  /\ FreeAtMost(l, 1)

-----------------------------------------------------------------------------
(* The bounds that the constructor's clamps establish.                     *)
LEMMA Bounds ==
  /\ LimMax \in Nat \ {0} /\ LimMin \in Nat
  /\ LimMin <= LimMax /\ StartLimit \in LimMin..LimMax
  /\ Minimum # 0 => LimMin # 0
BY LimiterAssumption DEF LimMax, LimMin, StartLimit, Smaller, Larger

(* Sets of tasks are finite.                                               *)
LEMMA Finite ==
  ASSUME NEW S \in SUBSET Workers
  PROVE  IsFiniteSet(S) /\ Cardinality(S) \in Nat
BY LimiterAssumption, FS_Subset, FS_CardinalityType

(***************************************************************************)
(* notify(1) keeps the tasks apart, changes neither limit nor in_use, and  *)
(* wakes exactly one task unless nobody sleeps.                            *)
(***************************************************************************)
LEMMA NotifiedFacts ==
  ASSUME NEW l \in LimiterState, NEW h \in SUBSET Workers, Separate(l, h)
  PROVE  /\ Notified(l) \in LimiterState
         /\ Separate(Notified(l), h)
         /\ Notified(l).limit = l.limit /\ Notified(l).in_use = l.in_use
         /\ Notified(l).waiters # <<>> =>
              /\ l.waiters # <<>>
              /\ Cardinality(Notified(l).woken) = Cardinality(l.woken) + 1
         /\ \A w \in Workers : Away(Notified(l), w) <=> Away(l, w)
<1>1. CASE l.waiters = <<>>
  BY <1>1 DEF Notified
<1>2. CASE l.waiters # <<>>
  <2> DEFINE q == l.waiters
             m == Notified(l)
  <2>1. /\ q \in Seq(Workers) /\ Len(q) \in Nat \ {0}
        /\ l.woken \in SUBSET Workers
    BY <1>2, EmptySeq DEF LimiterState
  <2>2. /\ Head(q) \in Workers /\ Tail(q) \in Seq(Workers)
        /\ Len(Tail(q)) = Len(q) - 1
        /\ \A i \in 1..Len(Tail(q)) : Tail(q)[i] = q[i + 1]
    BY <1>2, <2>1, HeadTailProperties
  <2>3. Head(q) = q[1]
    BY <1>2, <2>1
  <2>4. /\ m.waiters = Tail(q) /\ m.woken = l.woken \cup {Head(q)}
        /\ m.limit = l.limit /\ m.in_use = l.in_use
        /\ m \in LimiterState
    BY <1>2, <2>1, <2>2 DEF Notified, LimiterState
  <2>5. Head(q) \notin l.woken /\ Head(q) \notin h
    BY <2>1, <2>3 DEF Separate
  <2>6. Cardinality(m.woken) = Cardinality(l.woken) + 1
    BY <2>1, <2>4, <2>5, Finite, FS_AddElement
  <2>7. \A i \in 1..Len(Tail(q)) : i + 1 \in 1..Len(q) /\ i + 1 # 1
    BY <2>1, <2>2
  <2>8. Separate(m, h)
    <3>1. ASSUME NEW i \in 1..Len(m.waiters), NEW k \in 1..Len(m.waiters),
                 m.waiters[i] = m.waiters[k]
          PROVE  i = k
      <4>1. q[i + 1] = q[k + 1] /\ i + 1 \in 1..Len(q) /\ k + 1 \in 1..Len(q)
        BY <3>1, <2>2, <2>4, <2>7
      <4>2. i + 1 = k + 1
        BY <4>1 DEF Separate
      <4> QED BY <4>2, <2>1, <2>2, <2>4
    <3>2. ASSUME NEW i \in 1..Len(m.waiters)
          PROVE  m.waiters[i] \notin m.woken /\ m.waiters[i] \notin h
      <4>1. m.waiters[i] = q[i + 1] /\ i + 1 \in 1..Len(q) /\ i + 1 # 1
        BY <2>2, <2>4, <2>7
      <4>2. q[i + 1] # q[1]
        BY <4>1, <2>1 DEF Separate
      <4> QED BY <4>1, <4>2, <2>3, <2>4 DEF Separate
    <3>3. m.woken \cap h = {}
      BY <2>4, <2>5 DEF Separate
    <3> QED BY <3>1, <3>2, <3>3 DEF Separate
  <2>9. ASSUME NEW w \in Workers PROVE Away(m, w) <=> Away(l, w)
    <3>1. Away(l, w) => Away(m, w)
      BY <2>1, <2>2, <2>3, <2>4, <2>7 DEF Away, Sleeping
    <3>2. ASSUME Sleeping(l, w) PROVE ~Away(m, w)
      <4>1. PICK i \in 1..Len(q) : q[i] = w
        BY <3>2 DEF Sleeping
      <4>2. CASE i = 1
        BY <2>3, <2>4, <4>1, <4>2 DEF Away
      <4>3. CASE i # 1
        <5>1. i - 1 \in 1..Len(Tail(q)) /\ (i - 1) + 1 = i
          BY <2>1, <2>2, <4>3
        <5>2. Tail(q)[i - 1] = w
          BY <2>2, <4>1, <5>1
        <5> QED BY <2>4, <5>1, <5>2 DEF Away, Sleeping
      <4> QED BY <4>2, <4>3
    <3> QED BY <2>4, <3>1, <3>2 DEF Away
  <2> QED BY <1>2, <2>4, <2>6, <2>8, <2>9
<1> QED BY <1>1, <1>2

(* The AIMD controller moves the limit and the streak and nothing else.    *)
Adjusted(l, n, s) == [l EXCEPT !.limit = n, !.streak = s]

(* What it leaves alone.                                                  *)
LEMMA AdjustedFacts ==
  ASSUME NEW l \in LimiterState, NEW n \in LimMin..LimMax,
         NEW s \in 0..IncreaseAfter
  PROVE  /\ Adjusted(l, n, s) \in LimiterState
         /\ Adjusted(l, n, s).limit = n
         /\ Adjusted(l, n, s).in_use = l.in_use
         /\ Adjusted(l, n, s).waiters = l.waiters
         /\ Adjusted(l, n, s).woken = l.woken
<1> DEFINE k == [l EXCEPT !.limit = n]
<1>1. /\ k \in LimiterState /\ k.limit = n /\ k.in_use = l.in_use
      /\ k.waiters = l.waiters /\ k.woken = l.woken
  BY DEF LimiterState
<1>2. Adjusted(l, n, s) = [k EXCEPT !.streak = s]
  BY DEF Adjusted
<1> HIDE DEF k
<1>3. LET m == [k EXCEPT !.streak = s]
      IN  /\ m \in LimiterState /\ m.limit = k.limit /\ m.in_use = k.in_use
          /\ m.waiters = k.waiters /\ m.woken = k.woken
  BY <1>1 DEF LimiterState
<1> QED BY <1>1, <1>2, <1>3, Zenon

(* A task that falls asleep goes to the end of the queue.                  *)
LEMMA EnqueuedFacts ==
  ASSUME NEW l \in LimiterState, NEW h \in SUBSET Workers, Separate(l, h),
         NEW w \in Workers, w \notin l.woken, w \notin h, ~Sleeping(l, w)
  PROVE  /\ Enqueued(l, w) \in LimiterState
         /\ Separate(Enqueued(l, w), h)
         /\ Enqueued(l, w).limit = l.limit /\ Enqueued(l, w).in_use = l.in_use
         /\ Enqueued(l, w).woken = l.woken
<1> DEFINE q == l.waiters
           m == Enqueued(l, w)
<1>1. q \in Seq(Workers) /\ Len(q) \in Nat
  BY LenProperties DEF LimiterState
<1>2. /\ Append(q, w) \in Seq(Workers)
      /\ Len(Append(q, w)) = Len(q) + 1
      /\ \A i \in 1..Len(q) : Append(q, w)[i] = q[i]
      /\ Append(q, w)[Len(q) + 1] = w
  BY <1>1, AppendProperties
<1>3. /\ m.waiters = Append(q, w) /\ m.woken = l.woken
      /\ m.limit = l.limit /\ m.in_use = l.in_use
      /\ m \in LimiterState
  BY <1>2 DEF Enqueued, LimiterState
<1>4. \A i \in 1..Len(m.waiters) :
         \/ i \in 1..Len(q) /\ m.waiters[i] = q[i]
         \/ i = Len(q) + 1 /\ m.waiters[i] = w
  BY <1>1, <1>2, <1>3
<1>5. \A i \in 1..Len(q) : q[i] # w
  BY DEF Sleeping
<1>6. \A i, k \in 1..Len(m.waiters) : m.waiters[i] = m.waiters[k] => i = k
  BY <1>4, <1>5 DEF Separate
<1>7. \A i \in 1..Len(m.waiters) : m.waiters[i] \notin m.woken /\ m.waiters[i] \notin h
  BY <1>3, <1>4 DEF Separate
<1> QED BY <1>3, <1>6, <1>7 DEF Separate

(* A release frees one permit and wakes one task if somebody sleeps.       *)
LEMMA ReleasedFacts ==
  ASSUME NEW l \in LimiterState, NEW h \in SUBSET Workers, Separate(l, h),
         l.in_use > 0, NEW n \in Int, FreeAtMost(l, n)
  PROVE  /\ Released(l) \in LimiterState
         /\ Separate(Released(l), h)
         /\ Released(l).limit = l.limit /\ Released(l).in_use = l.in_use - 1
         /\ FreeAtMost(Released(l), n)
         /\ \A w \in Workers : Away(Released(l), w) <=> Away(l, w)
<1> DEFINE m == [l EXCEPT !.in_use = @ - 1]
<1>1. /\ m \in LimiterState /\ m.in_use = l.in_use - 1 /\ m.limit = l.limit
      /\ m.waiters = l.waiters /\ m.woken = l.woken
  BY DEF LimiterState
<1>2. Separate(m, h)
  BY <1>1 DEF Separate
<1>3. \A w \in Workers : Away(m, w) <=> Away(l, w)
  BY <1>1 DEF Away, Sleeping
<1>4. Released(l) = Notified(m)
  BY DEF Released
<1>5. Cardinality(l.woken) \in Nat /\ l.limit \in Int /\ l.in_use \in Int
  BY Finite, Bounds DEF LimiterState
<1> HIDE DEF m
<1>6. FreeAtMost(Notified(m), n)
  BY <1>1, <1>2, <1>5, NotifiedFacts DEF FreeAtMost
<1> QED BY <1>1, <1>2, <1>3, <1>4, <1>6, NotifiedFacts

(* The top of the worker loop restores the invariant.                      *)
LEMMA LoopKeeps ==
  ASSUME NEW w \in Workers, NEW l, NEW work \in BOOLEAN,
         holders \subseteq Workers,
         LoopReady(w, l, holders \ {w}), LimLoop(w, l, work)
  PROVE  LimInv'
<1> DEFINE h == holders \ {w}
<1>1. /\ l \in LimiterState /\ h \in SUBSET Workers /\ Separate(l, h)
      /\ w \notin l.woken /\ ~Sleeping(l, w) /\ w \notin h
      /\ l.in_use = Cardinality(h) /\ l.in_use <= LimMax /\ FreeAtMost(l, 1)
  BY DEF LoopReady
<1>2. /\ Cardinality(h) \in Nat /\ Cardinality(l.woken) \in Nat
      /\ l.limit \in LimMin..LimMax /\ l.in_use \in Nat
      /\ LimMin \in Nat /\ LimMax \in Nat
  BY <1>1, Finite, Bounds DEF LimiterState
<1>3. SUFFICES /\ lim' \in LimiterState /\ holders' \subseteq Workers
               /\ Separate(lim', holders')
               /\ lim'.in_use = Cardinality(holders') /\ lim'.in_use <= LimMax
               /\ FreeAtMost(lim', 0)
  <2>1. Cardinality(lim'.woken) \in Nat
    BY <1>3, Finite DEF LimiterState
  <2> QED
    BY <1>3, <2>1 DEF LimInv, LimTypeOK, WaitersDistinct, PermitsExact,
                      NoLostWakeup, Separate, FreeAtMost
<1>4. CASE ~CanAcquire(l)
  <2>1. lim' = Enqueued(l, w) /\ holders' = h
    BY <1>4 DEF LimLoop
  <2>2. FreeAtMost(Enqueued(l, w), 0)
    BY <1>1, <1>2, <1>4, EnqueuedFacts DEF FreeAtMost, CanAcquire
  <2> QED BY <1>1, <2>1, <2>2, EnqueuedFacts
<1>5. CASE CanAcquire(l)
  <2> DEFINE m == Acquired(l)
  <2>1. /\ m \in LimiterState /\ m.in_use = l.in_use + 1 /\ m.limit = l.limit
        /\ m.waiters = l.waiters /\ m.woken = l.woken
    BY <1>1 DEF Acquired, LimiterState
  <2>2. FreeAtMost(m, 0) /\ m.in_use <= LimMax
    BY <1>1, <1>2, <1>5, <2>1 DEF FreeAtMost, CanAcquire
  <2>3. CASE work
    <3>1. lim' = m /\ holders' = h \cup {w}
      BY <1>5, <2>3 DEF LimLoop
    <3>2. Cardinality(h \cup {w}) = Cardinality(h) + 1
      BY <1>1, Finite, FS_AddElement
    <3>3. Separate(m, h \cup {w})
      BY <1>1, <2>1 DEF Separate, Sleeping
    <3> QED BY <1>1, <2>1, <2>2, <3>1, <3>2, <3>3
  <2>4. CASE ~work
    <3>1. lim' = Released(m) /\ holders' = h
      BY <1>5, <2>4 DEF LimLoop
    <3>2. Separate(m, h) /\ m.in_use > 0
      BY <1>1, <1>2, <2>1 DEF Separate
    <3> HIDE DEF m
    <3>3. /\ Released(m) \in LimiterState /\ Separate(Released(m), h)
          /\ Released(m).in_use = m.in_use - 1 /\ FreeAtMost(Released(m), 0)
      BY <1>1, <2>1, <2>2, <3>2, ReleasedFacts
    <3> QED BY <1>1, <1>2, <2>1, <3>1, <3>3
  <2> QED BY <2>3, <2>4
<1> QED BY <1>4, <1>5

-----------------------------------------------------------------------------
(* A new limiter satisfies the invariant.                                  *)
LEMMA LimInitOK == LimInit => LimInv
<1> SUFFICES ASSUME LimInit PROVE LimInv
  OBVIOUS
<1>1. /\ lim = NewLimiter /\ holders = {}
  BY DEF LimInit
<1>2. /\ lim.limit = StartLimit /\ lim.in_use = 0 /\ lim.waiters = <<>>
      /\ lim.woken = {} /\ lim \in LimiterState
  BY <1>1, Bounds, EmptySeq, LimiterAssumption DEF NewLimiter, LimiterState
<1> QED
  BY <1>1, <1>2, Bounds, FS_EmptySet, EmptySeq
     DEF LimInv, LimTypeOK, WaitersDistinct, PermitsExact, NoLostWakeup

(* What the invariant says, part by part, with the ranges that go with it. *)
LEMMA LimInvParts ==
  ASSUME LimInv
  PROVE  /\ lim \in LimiterState /\ holders \in SUBSET Workers
         /\ Separate(lim, holders) /\ FreeAtMost(lim, 0)
         /\ lim.in_use = Cardinality(holders) /\ lim.in_use <= LimMax
         /\ Cardinality(holders) \in Nat /\ Cardinality(lim.woken) \in Nat
         /\ lim.limit \in LimMin..LimMax /\ lim.in_use \in Nat
         /\ lim.streak \in 0..IncreaseAfter /\ lim.woken \in SUBSET Workers
         /\ LimMin \in Nat /\ LimMax \in Nat
<1>1. lim \in LimiterState /\ holders \in SUBSET Workers
  BY DEF LimInv, LimTypeOK
<1>2. /\ Cardinality(holders) \in Nat /\ Cardinality(lim.woken) \in Nat
      /\ lim.limit \in LimMin..LimMax /\ lim.in_use \in Nat
      /\ lim.streak \in 0..IncreaseAfter /\ lim.woken \in SUBSET Workers
      /\ LimMin \in Nat /\ LimMax \in Nat
  BY <1>1, Finite, Bounds DEF LimiterState
<1> QED BY <1>1, <1>2 DEF LimInv, LimTypeOK, WaitersDistinct, PermitsExact,
                          NoLostWakeup, Separate, FreeAtMost

(* A holder is in no queue, and it accounts for one permit.                *)
LEMMA HolderFacts ==
  ASSUME LimInv, NEW w \in Workers, w \in holders
  PROVE  /\ lim.in_use > 0 /\ Separate(lim, holders \ {w})
         /\ Cardinality(holders \ {w}) = lim.in_use - 1
         /\ w \notin lim.woken /\ ~Sleeping(lim, w)
<1>1. Cardinality(holders \ {w}) = Cardinality(holders) - 1
  BY LimInvParts, Finite, FS_RemoveElement
<1>2. Cardinality(holders \ {w}) \in Nat
  BY LimInvParts, Finite
<1>3. Separate(lim, holders \ {w}) /\ w \notin lim.woken /\ ~Sleeping(lim, w)
  BY LimInvParts DEF Separate, Sleeping
<1> QED BY LimInvParts, <1>1, <1>2, <1>3

(***************************************************************************)
(* record_success raises the limit by one or leaves it, and touches        *)
(* neither the permits nor the tasks.                                      *)
(***************************************************************************)
LEMMA SuccessFacts ==
  ASSUME LimInv, NEW success \in BOOLEAN
  PROVE  LET grown == IF success THEN record_success(lim) ELSE lim
         IN  /\ grown \in LimiterState
             /\ grown.limit \in lim.limit..(lim.limit + 1)
             /\ grown.limit <= lim.limit + 1
             /\ grown.in_use = lim.in_use /\ grown.waiters = lim.waiters
             /\ grown.woken = lim.woken
<1> DEFINE grown == IF success THEN record_success(lim) ELSE lim
<1>1. CASE ~success
  <2>1. lim.limit \in lim.limit..(lim.limit + 1)
    BY LimInvParts
  <2> QED BY LimInvParts, <1>1, <2>1
<1>2. CASE success
  <2>1. grown = record_success(lim)
    BY <1>2
  <2> DEFINE streak == Smaller(lim.streak + 1, IncreaseAfter)
  <2>2. streak \in 0..IncreaseAfter /\ 0 \in 0..IncreaseAfter
    BY LimInvParts, LimiterAssumption DEF Smaller
  <2> HIDE DEF streak
  <2>3. CASE streak >= IncreaseAfter /\ lim.limit < LimMax
    <3>1. grown = Adjusted(lim, lim.limit + 1, 0)
      BY <2>1, <2>3 DEF record_success, Adjusted, streak
    <3>2. lim.limit + 1 \in LimMin..LimMax
      BY LimInvParts, <2>3
    <3>3. lim.limit + 1 \in lim.limit..(lim.limit + 1)
      BY LimInvParts
    <3> HIDE DEF grown
    <3>4. /\ grown \in LimiterState
          /\ grown.limit \in lim.limit..(lim.limit + 1)
          /\ grown.in_use = lim.in_use /\ grown.waiters = lim.waiters
          /\ grown.woken = lim.woken
      BY LimInvParts, <2>2, <3>1, <3>2, <3>3, AdjustedFacts
    <3> QED BY <3>4, LimInvParts DEF grown
  <2>4. CASE ~(streak >= IncreaseAfter /\ lim.limit < LimMax)
    <3>1. grown = [lim EXCEPT !.streak = streak]
      BY <2>1, <2>4 DEF record_success, streak
    <3> QED BY LimInvParts, <2>2, <3>1 DEF LimiterState
  <2> QED BY <2>3, <2>4
<1> QED BY <1>1, <1>2

(* A new task may enter the loop,                                          *)
LEMMA StartReady ==
  ASSUME LimInv, NEW w \in Workers, Idle(w)
  PROVE  LoopReady(w, lim, holders \ {w})
<1>1. holders \ {w} = holders /\ w \notin lim.woken /\ ~Sleeping(lim, w)
  BY DEF Idle, Sleeping
<1>2. FreeAtMost(lim, 1)
  BY LimInvParts DEF FreeAtMost
<1> QED BY LimInvParts, <1>1, <1>2 DEF LoopReady

(* so may a task that was woken,                                           *)
LEMMA ResumeReady ==
  ASSUME LimInv, NEW w \in Workers, w \in lim.woken
  PROVE  /\ LoopReady(w, Dequeued(lim, w), holders \ {w})
         /\ \A v \in Workers \ {w} : Away(Dequeued(lim, w), v) <=> Away(lim, v)
<1> DEFINE l == Dequeued(lim, w)
<1>1. /\ l \in LimiterState /\ l.woken = lim.woken \ {w}
      /\ l.waiters = lim.waiters /\ l.limit = lim.limit
      /\ l.in_use = lim.in_use
  BY LimInvParts DEF Dequeued, LimiterState
<1>2. Cardinality(l.woken) = Cardinality(lim.woken) - 1
  BY LimInvParts, <1>1, Finite, FS_RemoveElement
<1>3. w \notin holders /\ holders \ {w} = holders
  BY LimInvParts DEF Separate
<1>4. Separate(l, holders) /\ w \notin l.woken /\ ~Sleeping(l, w)
  BY LimInvParts, <1>1, <1>3 DEF Separate, Sleeping
<1>5. FreeAtMost(l, 1)
  BY LimInvParts, <1>1, <1>2 DEF FreeAtMost
<1>6. LoopReady(w, l, holders \ {w})
  BY LimInvParts, <1>1, <1>3, <1>4, <1>5 DEF LoopReady
<1> QED BY <1>1, <1>6 DEF Away, Sleeping

(***************************************************************************)
(* and so may a holder that has just released, after a success that may    *)
(* have raised the limit.                                                  *)
(***************************************************************************)
LEMMA FinishReady ==
  ASSUME LimInv, NEW w \in Workers, w \in holders, NEW success \in BOOLEAN,
         NEW l, l = Released(IF success THEN record_success(lim) ELSE lim)
  PROVE  /\ LoopReady(w, l, holders \ {w})
         /\ \A v \in Workers : Away(l, v) <=> Away(lim, v)
<1> DEFINE h == holders \ {w}
           grown == IF success THEN record_success(lim) ELSE lim
<1>1. /\ grown \in LimiterState /\ grown.limit <= lim.limit + 1
      /\ grown.in_use = lim.in_use /\ grown.waiters = lim.waiters
      /\ grown.woken = lim.woken
  BY SuccessFacts
<1>2. l = Released(grown)
  OBVIOUS
<1> HIDE DEF grown
<1>3. /\ Separate(grown, h) /\ FreeAtMost(grown, 1) /\ grown.in_use > 0
      /\ \A v \in Workers : Away(grown, v) <=> Away(lim, v)
  <2>1. /\ Separate(lim, h) /\ FreeAtMost(lim, 0) /\ lim.in_use > 0
        /\ Cardinality(lim.woken) \in Nat /\ lim.limit \in Nat
        /\ lim.in_use \in Nat
    BY LimInvParts, HolderFacts
  <2>2. grown.limit \in Nat
    BY <1>1, Bounds DEF LimiterState
  <2> QED BY <1>1, <2>1, <2>2 DEF Separate, Away, Sleeping, FreeAtMost
<1>4. /\ l \in LimiterState /\ Separate(l, h)
      /\ l.in_use = lim.in_use - 1 /\ FreeAtMost(l, 1)
      /\ \A v \in Workers : Away(l, v) <=> Away(lim, v)
  BY LimInvParts, <1>1, <1>2, <1>3, ReleasedFacts
<1>5. LoopReady(w, l, h)
  BY LimInvParts, <1>4, HolderFacts DEF LoopReady, Away
<1> QED BY <1>4, <1>5

(***************************************************************************)
(* The invariant is inductive: every action of the worker loop, of the     *)
(* AIMD controller and of a shutdown preserves it.                         *)
(***************************************************************************)
THEOREM LimInvInductive == LimInv /\ [LimNext]_limVars => LimInv'
<1> SUFFICES ASSUME LimInv, [LimNext]_limVars PROVE LimInv'
  OBVIOUS
<1>1. CASE LimCancel
  <2>1. /\ lim' \in LimiterState /\ lim'.waiters = <<>> /\ lim'.woken = {}
        /\ lim'.in_use = lim.in_use /\ holders' = holders
    BY LimInvParts, <1>1, EmptySeq DEF LimCancel, LimiterState
  <2> QED
    BY LimInvParts, <2>1, EmptySeq DEF LimInv, LimTypeOK, WaitersDistinct,
                                       PermitsExact, NoLostWakeup
<1>2. ASSUME NEW w \in Workers, NEW work \in BOOLEAN, LimStart(w, work)
      PROVE  LimInv'
  BY LimInvParts, <1>2, StartReady, LoopKeeps DEF LimStart
<1>3. ASSUME NEW w \in Workers, NEW work \in BOOLEAN, LimResume(w, work)
      PROVE  LimInv'
  BY LimInvParts, <1>3, ResumeReady, LoopKeeps DEF LimResume
<1>4. ASSUME NEW w \in Workers, LimThrottle(w)
      PROVE  LimInv'
  <2>1. /\ (lim.limit * DecNum) \div DecDen \in Nat
        /\ (lim.limit * DecNum) \div DecDen <= lim.limit
    <3>1. /\ lim.limit \in Nat /\ DecNum \in Nat /\ DecDen \in Nat \ {0}
          /\ DecNum <= DecDen
      BY LimInvParts, LimiterAssumption
    <3>2. lim.limit * DecNum \in Nat /\ lim.limit * DecNum <= lim.limit * DecDen
      BY <3>1, SMT
    <3> QED BY <3>1, <3>2, SMT
  <2> DEFINE new == Larger(LimMin, (lim.limit * DecNum) \div DecDen)
  <2>2. new \in LimMin..LimMax /\ new <= lim.limit
    BY LimInvParts, <2>1 DEF Larger
  <2> HIDE DEF new
  <2>3. lim' = Adjusted(lim, new, 0) /\ holders' = holders
    BY <1>4 DEF LimThrottle, record_throttle, Adjusted, new
  <2>4. /\ lim' \in LimiterState /\ lim'.limit = new
        /\ lim'.in_use = lim.in_use /\ lim'.waiters = lim.waiters
        /\ lim'.woken = lim.woken
    <3>1. 0 \in 0..IncreaseAfter
      BY LimiterAssumption
    <3> QED BY LimInvParts, <2>2, <2>3, <3>1, AdjustedFacts
  <2>5. /\ Separate(lim, holders) /\ FreeAtMost(lim, 0)
        /\ lim.in_use = Cardinality(holders) /\ lim.in_use <= LimMax
        /\ holders \in SUBSET Workers /\ Cardinality(lim.woken) \in Nat
        /\ lim.limit \in Nat /\ lim.in_use \in Nat /\ new \in Nat
    BY LimInvParts, <2>2
  <2> QED
    BY <2>2, <2>3, <2>4, <2>5 DEF LimInv, LimTypeOK, WaitersDistinct,
       PermitsExact, NoLostWakeup, Separate, FreeAtMost
<1>5. ASSUME NEW w \in Workers, LimUnwind(w)
      PROVE  LimInv'
  <2> DEFINE h == holders \ {w}
  <2>1. w \in holders /\ lim' = Released(lim) /\ holders' = h
    BY <1>5 DEF LimUnwind
  <2>2. lim.in_use > 0 /\ Separate(lim, h) /\ Cardinality(h) = lim.in_use - 1
    BY <2>1, HolderFacts
  <2>3. /\ lim' \in LimiterState /\ Separate(lim', h)
        /\ lim'.in_use = lim.in_use - 1 /\ FreeAtMost(lim', 0)
    BY LimInvParts, <2>1, <2>2, ReleasedFacts
  <2>4. Cardinality(lim'.woken) \in Nat
    BY <2>3, Finite DEF LimiterState
  <2> QED
    BY LimInvParts, <2>1, <2>2, <2>3, <2>4 DEF LimInv, LimTypeOK,
       WaitersDistinct, PermitsExact, NoLostWakeup, Separate, FreeAtMost
<1>6. ASSUME NEW w \in Workers, NEW success \in BOOLEAN, NEW work \in BOOLEAN,
             LimFinish(w, success, work)
      PROVE  LimInv'
  <2> DEFINE l == Released(IF success THEN record_success(lim) ELSE lim)
  <2>1. w \in holders /\ LimLoop(w, l, work)
    BY <1>6 DEF LimFinish
  <2>2. l = Released(IF success THEN record_success(lim) ELSE lim)
    OBVIOUS
  <2> HIDE DEF l
  <2>3. LoopReady(w, l, holders \ {w})
    BY <2>1, <2>2, FinishReady
  <2> QED BY LimInvParts, <2>1, <2>3, LoopKeeps
<1>7. CASE UNCHANGED limVars
  BY <1>7 DEF limVars, LimInv, LimTypeOK, WaitersDistinct, PermitsExact,
              NoLostWakeup
<1> QED BY <1>1, <1>2, <1>3, <1>4, <1>5, <1>6, <1>7 DEF LimNext, LimStep

(***************************************************************************)
(* On every path through the worker loop the limiter's state is well       *)
(* formed and its limit stays between the clamped floor and ceiling.       *)
(***************************************************************************)
THEOREM LimTypeCorrect == LimSpec => []LimTypeOK
<1>1. LimInit => LimInv
  BY LimInitOK
<1> QED BY <1>1, LimInvInductive, PTL DEF LimSpec, LimInv

(***************************************************************************)
(* Permits are conserved and never exceed GLOBAL_MAX_CONCURRENCY, however  *)
(* many workers share the limiter.                                         *)
(***************************************************************************)
THEOREM PermitsAreExact == LimSpec => []PermitsExact
<1>1. LimInit => LimInv
  BY LimInitOK
<1> QED BY <1>1, LimInvInductive, PTL DEF LimSpec, LimInv

(***************************************************************************)
(* No wakeup is lost: while a task sleeps, no permit is free that is not   *)
(* promised to a woken task, although record_success() does not notify.    *)
(***************************************************************************)
THEOREM WakeupsAreNotLost == LimSpec => [](NoLostWakeup /\ WaitersDistinct)
<1>1. LimInit => LimInv
  BY LimInitOK
<1> QED BY <1>1, LimInvInductive, PTL DEF LimSpec, LimInv

=============================================================================
