---------------------- MODULE SchedulerFairness_proofs ----------------------
(***************************************************************************)
(* The fairness of the scheduler, for any finite set of jobs and any batch *)
(* size.                                                                   *)
(*                                                                         *)
(* BoundedBypass is not inductive.  The strengthening (PairBound) says     *)
(* where a pair of jobs is in the current round: a job is served only when *)
(* all older jobs have spent their credit, so what the other job has taken *)
(* since our last service plus what it may still take before our next one  *)
(* never exceeds its weight.                                               *)
(***************************************************************************)
EXTENDS SchedulerFairness, FairScheduler_proofs

(***************************************************************************)
(* Where j and k are in the round: j waits with n services of k behind it. *)
(***************************************************************************)
PairBound(s, j, k, n) ==
  IF <<k, j>> \in s.older
  THEN IF s.credit[j] > 0
       THEN n + s.credit[k] <= s.weight[k]
       ELSE n = 0 /\ s.credit[k] = 0
  ELSE IF s.credit[j] > 0
       THEN n <= s.weight[k]
       ELSE n + s.credit[k] <= s.weight[k]

BypassOK(s, b) ==
  /\ b \in [Jobs -> [Jobs -> Nat]]
  /\ \A j, k \in Jobs :
       IF j \in s.keys /\ k \in s.keys /\ j # k
       THEN PairBound(s, j, k, b[j][k])
       ELSE b[j][k] = 0

FairInv == SchedOK(sched) /\ BypassOK(sched, bypass) /\ PendingIsExact

-----------------------------------------------------------------------------
(***************************************************************************)
(* A new round turns spent credits into full ones and keeps every pair     *)
(* within its bound.                                                       *)
(***************************************************************************)
LEMMA RoundKeepsPairs ==
  ASSUME NEW s, SchedOK(s), NEW r, r.older = s.older, r.weight = s.weight,
         r.credit = s.weight, s.weight \in [Jobs -> Nat],
         s.credit \in [Jobs -> Nat],
         NEW j \in s.keys, NEW k \in s.keys, s.keys \subseteq Jobs,
         s.credit[j] = 0, s.credit[k] = 0,
         NEW n \in Nat, PairBound(s, j, k, n)
  PROVE  PairBound(r, j, k, n)
<1>1. s.weight[j] > 0 /\ s.weight[k] \in Nat
  BY DEF SchedOK, Formed
<1> QED BY <1>1 DEF PairBound

(* Jobs that leave the dict take their history with them.                  *)
LEMMA ForgetKeepsPairs ==
  ASSUME NEW s, SchedOK(s), NEW D, NEW r, r = DropQueues(s, D), NEW b, NEW c,
         BypassOK(s, b),
         c = [j \in Jobs |-> [k \in Jobs |->
                IF j \notin r.keys \/ k \notin r.keys THEN 0 ELSE b[j][k]]]
  PROVE  BypassOK(r, c)
<1>1. /\ r.keys = s.keys \ D /\ r.keys \subseteq Jobs
      /\ \A j, k \in r.keys : <<j, k>> \in r.older <=> <<j, k>> \in s.older
      /\ \A k \in r.keys : r.weight[k] = s.weight[k] /\ r.credit[k] = s.credit[k]
  <2>1. s.keys \subseteq Jobs
    BY DEF SchedOK, SchedulerState
  <2> QED BY <2>1, DropFacts
<1>2. c \in [Jobs -> [Jobs -> Nat]]
  BY DEF BypassOK
<1>3. ASSUME NEW j \in Jobs, NEW k \in Jobs
      PROVE  IF j \in r.keys /\ k \in r.keys /\ j # k
             THEN PairBound(r, j, k, c[j][k]) ELSE c[j][k] = 0
  <2>1. CASE j \in r.keys /\ k \in r.keys /\ j # k
    <3>1. PairBound(s, j, k, b[j][k]) /\ c[j][k] = b[j][k]
      BY <1>1, <2>1 DEF BypassOK
    <3> QED BY <1>1, <2>1, <3>1 DEF PairBound
  <2>2. CASE ~(j \in r.keys /\ k \in r.keys /\ j # k)
    BY <1>1, <2>2 DEF BypassOK
  <2> QED BY <2>1, <2>2
<1> QED BY <1>2, <1>3 DEF BypassOK

(* Serving the oldest job in credit keeps every pair within its bound.     *)
LEMMA ServeKeepsPairs ==
  ASSUME NEW s, SchedOK(s), NEW b, BypassOK(s, b), NEW x \in s.keys,
         s.credit[x] > 0, s.items[x] # <<>>, s.pending > 0,
         \A k \in s.keys : s.credit[k] > 0 /\ k # x => <<x, k>> \in s.older,
         NEW c,
         c = [j \in Jobs |-> [k \in Jobs |->
                IF j \notin s.keys \/ k \notin s.keys \/ j = x THEN 0
                ELSE IF k = x THEN b[j][k] + 1 ELSE b[j][k]]]
  PROVE  BypassOK(Served(s, x), c)
<1> DEFINE r == Served(s, x)
<1>1. /\ s.keys \subseteq Jobs /\ s.credit \in [Jobs -> Nat]
      /\ s.weight \in [Jobs -> Nat]
  BY DEF SchedOK, SchedulerState
<1>2. /\ r.keys = s.keys /\ r.older = s.older /\ r.weight = s.weight
      /\ r.credit[x] = s.credit[x] - 1
      /\ \A k \in Jobs \ {x} : r.credit[k] = s.credit[k]
  BY ServedFacts
<1> HIDE DEF r
<1>3. b \in [Jobs -> [Jobs -> Nat]]
  BY DEF BypassOK
<1>4. c \in [Jobs -> [Jobs -> Nat]]
  BY <1>3
<1>5. ASSUME NEW j \in Jobs, NEW k \in Jobs
      PROVE  IF j \in r.keys /\ k \in r.keys /\ j # k
             THEN PairBound(r, j, k, c[j][k]) ELSE c[j][k] = 0
  <2>1. CASE ~(j \in s.keys /\ k \in s.keys /\ j # k)
    <3>1. b[j][k] = 0
      BY <2>1 DEF BypassOK
    <3> QED BY <1>2, <2>1, <3>1
  <2>2. CASE j \in s.keys /\ k \in s.keys /\ j # k
    <3>1. PairBound(s, j, k, b[j][k])
      BY <2>2 DEF BypassOK
    <3>2. /\ s.credit[j] \in Nat /\ s.credit[k] \in Nat /\ s.weight[k] \in Nat
          /\ b[j][k] \in Nat /\ s.credit[k] <= s.weight[k]
          /\ <<j, k>> \in s.older <=> <<k, j>> \notin s.older
      <4>1. s.credit[k] <= s.weight[k]
        BY <2>2 DEF SchedOK, Formed
      <4>2. <<j, k>> \in s.older <=> <<k, j>> \notin s.older
        BY <2>2 DEF SchedOK, Ordered
      <4> QED BY <1>1, <1>3, <4>1, <4>2
    <3>3. CASE j = x
      <4>1. c[j][k] = 0 /\ r.credit[k] = s.credit[k] /\ r.weight[k] = s.weight[k]
        BY <1>2, <2>2, <3>3
      <4>2. <<k, j>> \in s.older => s.credit[k] = 0
        BY <2>2, <3>2, <3>3
      <4>3. PairBound(r, j, k, 0)
        BY <1>2, <2>2, <3>2, <4>1, <4>2 DEF PairBound
      <4> QED BY <1>2, <2>2, <4>1, <4>3
    <3>4. CASE k = x
      <4>1. /\ c[j][k] = b[j][k] + 1 /\ r.credit[k] = s.credit[k] - 1
            /\ r.credit[j] = s.credit[j] /\ r.weight[k] = s.weight[k]
        BY <1>2, <2>2, <3>4
      <4>2. s.credit[j] > 0 => <<k, j>> \in s.older
        BY <2>2, <3>4
      <4>3. s.credit[k] > 0
        BY <3>4
      <4>4. <<k, j>> \in r.older <=> s.credit[j] > 0
        BY <1>2, <3>1, <3>2, <4>2, <4>3 DEF PairBound
      <4>5. b[j][k] + s.credit[k] <= s.weight[k]
        BY <1>2, <3>1, <3>2, <4>4 DEF PairBound
      <4>6. b[j][k] + 1 + r.credit[k] <= r.weight[k]
        BY <3>2, <4>1, <4>5
      <4>7. PairBound(r, j, k, b[j][k] + 1)
        BY <3>2, <4>1, <4>4, <4>6 DEF PairBound
      <4> QED BY <1>2, <2>2, <4>1, <4>7
    <3>5. CASE j # x /\ k # x
      <4>1. /\ c[j][k] = b[j][k] /\ r.credit[k] = s.credit[k]
            /\ r.credit[j] = s.credit[j] /\ r.weight[k] = s.weight[k]
        BY <1>2, <2>2, <3>5
      <4>2. PairBound(r, j, k, b[j][k])
        BY <1>2, <3>1, <4>1 DEF PairBound
      <4> QED BY <1>2, <2>2, <4>1, <4>2
    <3> QED BY <3>3, <3>4, <3>5
  <2> QED BY <2>1, <2>2
<1> QED BY <1>4, <1>5 DEF BypassOK, r

-----------------------------------------------------------------------------
(* An empty scheduler satisfies the invariant.                             *)
LEMMA FairInitOK == FairInit => FairInv
<1> SUFFICES ASSUME FairInit PROVE FairInv
  OBVIOUS
<1>1. sched = EmptyScheduler /\ bypass = NoBypass
  BY DEF FairInit, SchedInit
<1>2. /\ sched \in SchedulerState /\ sched.keys = {} /\ sched.older = {}
      /\ sched.pending = 0
      /\ \A j \in Jobs : /\ sched.weight[j] = 0 /\ sched.credit[j] = 0
                         /\ sched.items[j] = <<>>
  BY <1>1, EmptySeq DEF EmptyScheduler, SchedulerState
<1>3. SchedOK(sched)
  BY <1>2 DEF SchedOK, Ordered, Formed
<1>4. BypassOK(sched, bypass)
  BY <1>1, <1>2 DEF BypassOK, NoBypass
<1>5. QueuedItems(sched) = {}
  BY <1>2, EmptySeq, SchedulerAssumption DEF QueuedItems
<1> QED BY <1>2, <1>3, <1>4, <1>5, FS_EmptySet DEF FairInv, PendingIsExact

(* add_job keeps the invariant.                                            *)
LEMMA AddKeeps ==
  ASSUME FairInv, NEW j \in Jobs, NEW n \in 1..MaxBatch, NEW p \in Priorities,
         FairAdd(j, n, p)
  PROVE  FairInv'
<1>1. /\ SchedOK(sched) /\ BypassOK(sched, bypass) /\ j \notin sched.keys
      /\ sched' = AddJob(sched, j, WorkItems(n), p) /\ bypass' = Forget({j})
  BY DEF FairInv, FairAdd, add_job
<1>2. /\ SchedOK(sched')
      /\ sched'.keys = sched.keys \cup {j}
      /\ sched'.older = sched.older \cup (sched.keys \X {j})
      /\ sched'.weight[j] = sched'.credit[j] /\ sched'.weight[j] \in Nat \ {0}
      /\ \A k \in Jobs \ {j} : /\ sched'.weight[k] = sched.weight[k]
                               /\ sched'.credit[k] = sched.credit[k]
                               /\ sched'.items[k] = sched.items[k]
      /\ Len(sched'.items[j]) = n
      /\ sched'.pending = sched.pending + n
  BY <1>1, AddFacts
<1>3. /\ sched.keys \subseteq Jobs /\ sched.credit \in [Jobs -> Nat]
      /\ sched.weight \in [Jobs -> Nat] /\ bypass \in [Jobs -> [Jobs -> Nat]]
      /\ sched.items[j] = <<>> /\ sched.older \subseteq sched.keys \X sched.keys
  BY <1>1 DEF SchedOK, SchedulerState, BypassOK, Formed, Ordered
<1>4. bypass' \in [Jobs -> [Jobs -> Nat]]
  BY <1>1, <1>3 DEF Forget
<1>5. ASSUME NEW i \in Jobs, NEW k \in Jobs
      PROVE  IF i \in sched'.keys /\ k \in sched'.keys /\ i # k
             THEN PairBound(sched', i, k, bypass'[i][k]) ELSE bypass'[i][k] = 0
  <2>1. bypass'[i][k] = IF i = j \/ k = j THEN 0 ELSE bypass[i][k]
    BY <1>1 DEF Forget
  <2>2. CASE ~(i \in sched'.keys /\ k \in sched'.keys /\ i # k)
    <3>1. bypass[i][k] = 0
      BY <1>1, <1>2, <2>2 DEF BypassOK
    <3> QED BY <2>1, <2>2, <3>1
  <2>3. CASE i \in sched.keys /\ k \in sched.keys /\ i # k
    <3>1. PairBound(sched, i, k, bypass[i][k]) /\ i # j /\ k # j
      BY <1>1, <2>3 DEF BypassOK
    <3>2. <<k, i>> \in sched'.older <=> <<k, i>> \in sched.older
      BY <1>2, <3>1
    <3>3. PairBound(sched', i, k, bypass[i][k])
      BY <1>2, <3>1, <3>2 DEF PairBound
    <3> QED BY <1>2, <2>1, <2>3, <3>1, <3>3
  <2>4. CASE i = j /\ k \in sched.keys
    <3>1. <<k, i>> \in sched'.older /\ sched'.credit[i] > 0 /\ k # j
      BY <1>1, <1>2, <2>4
    <3>2. /\ sched'.credit[k] = sched.credit[k]
          /\ sched'.weight[k] = sched.weight[k]
      BY <1>2, <3>1
    <3>3. sched.credit[k] <= sched.weight[k] /\ sched.credit[k] \in Nat
      BY <1>1, <1>3, <2>4 DEF SchedOK, Formed
    <3>4. PairBound(sched', i, k, 0)
      BY <3>1, <3>2, <3>3 DEF PairBound
    <3> QED BY <1>2, <2>1, <2>4, <3>1, <3>4
  <2>5. CASE k = j /\ i \in sched.keys
    <3>1. <<k, i>> \notin sched'.older /\ i # j
      BY <1>1, <1>2, <1>3, <2>5
    <3>2. PairBound(sched', i, k, 0)
      BY <1>2, <1>3, <2>5, <3>1 DEF PairBound
    <3> QED BY <1>2, <2>1, <2>5, <3>1, <3>2
  <2> QED BY <1>2, <2>2, <2>3, <2>4, <2>5
<1>6. Cardinality(QueuedItems(sched')) = Cardinality(QueuedItems(sched)) + n
  <2>1. Len(sched.items[j]) = 0
    BY <1>3, EmptySeq
  <2>2. /\ Len(sched'.items[j]) \in 1..MaxBatch
        /\ \A k \in Jobs \ {j} : sched'.items[k] = sched.items[k]
    BY <1>2
  <2>3. Cardinality(QueuedItems(sched'))
          = Cardinality(QueuedItems(sched)) + Len(sched'.items[j])
    BY <2>1, <2>2, QueuedAdded
  <2> QED BY <1>2, <2>3
<1> QED BY <1>2, <1>4, <1>5, <1>6 DEF FairInv, BypassOK, PendingIsExact

(* remove_job keeps the invariant.                                         *)
LEMMA RemoveKeeps ==
  ASSUME FairInv, NEW j \in Jobs, FairRemove(j)
  PROVE  FairInv'
<1> DEFINE q == DropQueues(sched, {j})
           n == Len(sched.items[j])
<1>1. /\ SchedOK(sched) /\ BypassOK(sched, bypass) /\ j \in sched.keys
      /\ sched' = RemoveJob(sched, j) /\ bypass' = Forget({j})
  BY DEF FairInv, FairRemove, remove_job
<1>2. /\ SchedOK(q) /\ q.keys = sched.keys \ {j} /\ q.pending = sched.pending
      /\ \A k \in Jobs \ {j} : q.items[k] = sched.items[k]
      /\ q.items[j] = <<>>
  BY <1>1, DropFacts
<1>3. /\ sched.items \in [Jobs -> Seq(Nat)] /\ sched.keys \subseteq Jobs
      /\ sched.pending \in Nat
  BY <1>1 DEF SchedOK, SchedulerState
<1>4. n \in 0..MaxBatch /\ n \in Nat
  <2>1. n \in Nat
    BY <1>3, LenProperties
  <2>2. n <= MaxBatch
    BY <1>1 DEF SchedOK, Formed
  <2> QED BY <2>1, <2>2, SchedulerAssumption
<1>5. Cardinality(QueuedItems(q)) = Cardinality(QueuedItems(sched)) - n
  BY <1>2, <1>4, EmptySeq, QueuedRemoved
<1> DEFINE left == sched.pending - n
<1>6. left = Cardinality(QueuedItems(q)) /\ left \in Nat
  BY <1>5, QueuedFinite DEF FairInv, PendingIsExact
<1>7. BypassOK(q, bypass')
  <2>1. bypass' = [i \in Jobs |-> [k \in Jobs |->
           IF i \notin q.keys \/ k \notin q.keys THEN 0 ELSE bypass[i][k]]]
    BY <1>1, <1>2 DEF Forget, BypassOK
  <2> HIDE DEF q
  <2> QED BY <1>1, <2>1, ForgetKeepsPairs DEF q
<1>8. sched' = [q EXCEPT !.pending = left]
  BY <1>1, <1>2 DEF RemoveJob
<1> HIDE DEF q, left
<1>9. /\ sched' \in SchedulerState /\ sched'.pending = left
      /\ sched'.keys = q.keys /\ sched'.older = q.older
      /\ sched'.weight = q.weight /\ sched'.credit = q.credit
      /\ sched'.items = q.items
  BY <1>2, <1>6, <1>8 DEF SchedOK, SchedulerState
<1>10. SchedOK(sched')
  BY <1>2, <1>9 DEF SchedOK, Ordered, Formed
<1>11. BypassOK(sched', bypass')
  BY <1>7, <1>9 DEF BypassOK, PairBound
<1>12. QueuedItems(sched') = QueuedItems(q)
  BY <1>9 DEF QueuedItems
<1> QED BY <1>6, <1>9, <1>10, <1>11, <1>12 DEF FairInv, PendingIsExact

(* pop keeps the invariant.                                                *)
LEMMA PopKeeps ==
  ASSUME FairInv, FairPop
  PROVE  FairInv'
<1> DEFINE D == {j \in sched.keys : sched.items[j] = <<>>}
           q == Purged(sched)
           b == [j \in Jobs |-> [k \in Jobs |->
                  IF j \notin q.keys \/ k \notin q.keys THEN 0 ELSE bypass[j][k]]]
<1>1. SchedOK(sched) /\ BypassOK(sched, bypass) /\ sched' = Popped(sched)
  BY DEF FairInv, FairPop, pop
<1>2. q = DropQueues(sched, D)
  BY DEF Purged
<1>3. /\ SchedOK(q) /\ q.keys = sched.keys \ D /\ q.pending = sched.pending
      /\ \A k \in Jobs : q.items[k] = sched.items[k]
      /\ q.keys \subseteq Jobs
  <2>1. /\ SchedOK(q) /\ q.keys = sched.keys \ D /\ q.pending = sched.pending
        /\ \A k \in Jobs \ D : q.items[k] = sched.items[k]
        /\ \A k \in Jobs \cap D : q.items[k] = <<>>
    <3> HIDE DEF q, D
    <3> QED BY <1>1, <1>2, DropFacts
  <2>2. q.keys \subseteq Jobs
    BY <2>1 DEF SchedOK, SchedulerState
  <2> QED BY <2>1, <2>2
<1>4. BypassOK(q, b)
  <2> HIDE DEF q, D
  <2> QED BY <1>1, <1>2, ForgetKeepsPairs
<1>5. QueuedItems(q) = QueuedItems(sched)
  BY <1>3 DEF QueuedItems
<1>6. CASE PopReturnsNone(sched)
  <2>1. sched' = q /\ q.keys = {} /\ bypass' = NoBypass
    BY <1>1, <1>6 DEF Popped, PopReturnsNone, FairPop
  <2>2. bypass' = b
    BY <2>1 DEF NoBypass
  <2> QED BY <1>3, <1>4, <1>5, <2>1, <2>2 DEF FairInv, PendingIsExact
<1>7. CASE ~PopReturnsNone(sched)
  <2> DEFINE r == WithRound(q)
             x == PopJob(sched)
  <2>1. /\ q.keys # {} /\ SchedOK(r)
        /\ x \in r.keys /\ r.credit[x] > 0 /\ r.items[x] # <<>>
        /\ \A k \in r.keys : r.credit[k] > 0 /\ k # x => <<x, k>> \in r.older
    BY <1>1, <1>7, PopFacts
  <2>2. sched' = Served(r, x)
    BY <1>1, <1>7, PopFacts DEF Popped
  <2>3. bypass' = [j \in Jobs |-> [k \in Jobs |->
           IF j \notin q.keys \/ k \notin q.keys \/ j = x THEN 0
           ELSE IF k = x THEN b[j][k] + 1 ELSE b[j][k]]]
    BY <1>3, <1>7 DEF FairPop
  <2> HIDE DEF q, b
  <2>4. /\ r.keys = q.keys /\ r.older = q.older /\ r.weight = q.weight
        /\ r.items = q.items /\ r.pending = q.pending
        /\ IF InCredit(q) = {} THEN r.credit = q.weight ELSE r = q
    BY <1>3, <2>1, RoundFacts
  <2> HIDE DEF r, x
  <2>5. BypassOK(r, b)
    <3>1. CASE InCredit(q) # {}
      BY <1>4, <2>4, <3>1
    <3>2. CASE InCredit(q) = {}
      <4>1. /\ q.credit \in [Jobs -> Nat] /\ q.weight \in [Jobs -> Nat]
            /\ b \in [Jobs -> [Jobs -> Nat]]
        BY <1>3, <1>4 DEF SchedOK, SchedulerState, BypassOK
      <4>2. \A k \in q.keys : q.credit[k] = 0
        BY <1>3, <3>2, <4>1 DEF InCredit
      <4>3. ASSUME NEW j \in Jobs, NEW k \in Jobs
            PROVE  IF j \in r.keys /\ k \in r.keys /\ j # k
                   THEN PairBound(r, j, k, b[j][k]) ELSE b[j][k] = 0
        <5>1. IF j \in q.keys /\ k \in q.keys /\ j # k
              THEN PairBound(q, j, k, b[j][k]) ELSE b[j][k] = 0
          BY <1>4 DEF BypassOK
        <5>2. b[j][k] \in Nat
          BY <4>1
        <5> QED BY <1>3, <2>4, <3>2, <4>1, <4>2, <5>1, <5>2, RoundKeepsPairs
      <4> QED BY <4>1, <4>3 DEF BypassOK
    <3> QED BY <3>1, <3>2
  <2>6. /\ r.items \in [Jobs -> Seq(Nat)] /\ x \in Jobs
        /\ Len(r.items[x]) \in 1..MaxBatch
    <3>1. r.items \in [Jobs -> Seq(Nat)] /\ x \in Jobs
      BY <2>1 DEF SchedOK, SchedulerState
    <3>2. Len(r.items[x]) \in Nat \ {0}
      BY <2>1, <3>1, EmptySeq
    <3>3. Len(r.items[x]) <= MaxBatch
      BY <2>1, <3>1 DEF SchedOK, Formed
    <3> QED BY <3>1, <3>2, <3>3, SchedulerAssumption
  <2>7. r.pending = Cardinality(QueuedItems(r))
    <3>1. QueuedItems(r) = QueuedItems(q)
      BY <2>4 DEF QueuedItems
    <3> QED BY <1>3, <1>5, <2>4, <3>1 DEF FairInv, PendingIsExact
  <2>8. r.pending > 0
    <3> DEFINE last == <<x, Len(r.items[x])>>
    <3>1. last \in QueuedItems(r)
      BY <2>6, SchedulerAssumption DEF QueuedItems
    <3> QED BY <2>7, <3>1, QueuedFinite, FS_EmptySet
  <2>9. /\ SchedOK(sched') /\ sched'.pending = r.pending - 1
        /\ Len(sched'.items[x]) = Len(r.items[x]) - 1
        /\ \A k \in Jobs \ {x} : sched'.items[k] = r.items[k]
    BY <2>1, <2>2, <2>8, ServedFacts
  <2>10. BypassOK(sched', bypass')
    BY <2>1, <2>2, <2>3, <2>4, <2>5, <2>8, ServeKeepsPairs
  <2>11. Cardinality(QueuedItems(sched')) = Cardinality(QueuedItems(r)) - 1
    BY <2>6, <2>9, QueuedServed
  <2> QED BY <2>7, <2>9, <2>10, <2>11 DEF FairInv, PendingIsExact
<1> QED BY <1>6, <1>7

(***************************************************************************)
(* FairInv is inductive: arrivals, cancellations and pops preserve it.     *)
(***************************************************************************)
THEOREM FairInvInductive == FairInv /\ [FairNext]_fairVars => FairInv'
<1> SUFFICES ASSUME FairInv, [FairNext]_fairVars PROVE FairInv'
  OBVIOUS
<1>1. CASE UNCHANGED fairVars
  <2>1. sched' = sched /\ bypass' = bypass
    BY <1>1 DEF fairVars
  <2> QED BY <2>1 DEF FairInv, PendingIsExact
<1>2. CASE FairNext
  BY <1>2, AddKeeps, RemoveKeeps, PopKeeps DEF FairNext
<1> QED BY <1>1, <1>2

(* What the inductive invariant says about the checked properties.         *)
LEMMA FairInvImplies ==
  FairInv => SchedTypeOK /\ PendingIsExact /\ BoundedBypass /\ SomeoneInCredit
<1> SUFFICES ASSUME FairInv
             PROVE  SchedTypeOK /\ PendingIsExact /\ BoundedBypass /\ SomeoneInCredit
  OBVIOUS
<1>1. /\ SchedOK(sched) /\ BypassOK(sched, bypass) /\ PendingIsExact
      /\ sched \in SchedulerState
  BY DEF FairInv, SchedOK
<1>2. SchedTypeOK
  BY <1>1 DEF SchedTypeOK, SchedOK, Ordered, BypassOK
<1>3. ASSUME NEW j \in Jobs, NEW k \in Jobs, Waiting(j)
      PROVE  bypass[j][k] <= sched.weight[k]
  <2>1. /\ sched.weight[k] \in Nat /\ sched.credit[k] \in Nat
        /\ sched.credit[j] \in Nat /\ bypass[j][k] \in Nat
    BY <1>1 DEF SchedulerState, BypassOK
  <2>2. CASE j \in sched.keys /\ k \in sched.keys /\ j # k
    <3>1. PairBound(sched, j, k, bypass[j][k])
      BY <1>1, <2>2 DEF BypassOK
    <3> QED BY <2>1, <3>1 DEF PairBound
  <2>3. CASE ~(j \in sched.keys /\ k \in sched.keys /\ j # k)
    BY <1>1, <2>1, <2>3 DEF BypassOK
  <2> QED BY <2>2, <2>3
<1>4. SomeoneInCredit
  BY <1>1, PopFacts DEF SomeoneInCredit
<1> QED BY <1>1, <1>2, <1>3, <1>4 DEF BoundedBypass

(***************************************************************************)
(* Weighted fairness, for any jobs, batch sizes and priorities: between    *)
(* two services of a waiting job no other job is served more often than    *)
(* its weight.                                                             *)
(***************************************************************************)
THEOREM SchedulerIsFair == FairSpec => []BoundedBypass
<1> QED BY FairInitOK, FairInvInductive, FairInvImplies, PTL DEF FairSpec

(***************************************************************************)
(* Under any sequence of add_job, remove_job and pop the scheduler's state *)
(* keeps its type, the credits included, and the order of the dict relates *)
(* only jobs that are in it.                                               *)
(***************************************************************************)
THEOREM SchedulerTypes == FairSpec => []SchedTypeOK
<1> QED BY FairInitOK, FairInvInductive, FairInvImplies, PTL DEF FairSpec

(***************************************************************************)
(* The hand-kept counter behind MAX_QUEUE_SIZE never drifts from the       *)
(* queues.                                                                 *)
(***************************************************************************)
THEOREM PendingNeverDrifts == FairSpec => []PendingIsExact
<1> QED BY FairInitOK, FairInvInductive, FairInvImplies, PTL DEF FairSpec

(***************************************************************************)
(* The "shouldn't happen" branch at the end of pop() is unreachable.       *)
(***************************************************************************)
THEOREM FallbackIsDead == FairSpec => []SomeoneInCredit
<1> QED BY FairInitOK, FairInvInductive, FairInvImplies, PTL DEF FairSpec

=============================================================================
