------------------------ MODULE FairScheduler_proofs ------------------------
(***************************************************************************)
(* What the methods of the scheduler do, for any finite set of jobs and    *)
(* any batch size: facts about one scheduler record, used for the          *)
(* scheduler on its own (SchedulerFairness_proofs) and for the one inside  *)
(* the engine (BatchEngine_proofs).                                        *)
(***************************************************************************)
EXTENDS FairScheduler, FiniteSetTheorems, SequenceTheorems, TLAPS

(* The dict's iteration order is a strict total order on its keys.         *)
Ordered(s) ==
  /\ s.older \subseteq s.keys \X s.keys
  /\ \A j \in s.keys : <<j, j>> \notin s.older
  /\ \A i, j, k \in s.keys :
       <<i, j>> \in s.older /\ <<j, k>> \in s.older => <<i, k>> \in s.older
  /\ \A j, k \in s.keys : j # k => <<j, k>> \in s.older \/ <<k, j>> \in s.older

(* Jobs outside the dict have nothing, jobs in it a credit up to weight.   *)
Formed(s) ==
  \A j \in Jobs :
    IF j \in s.keys
    THEN s.weight[j] >= 1 /\ s.credit[j] <= s.weight[j]
         /\ Len(s.items[j]) <= MaxBatch
    ELSE s.weight[j] = 0 /\ s.credit[j] = 0 /\ s.items[j] = <<>>

SchedOK(s) ==
  /\ s \in SchedulerState
  /\ Ordered(s)
  /\ Formed(s)

(* The hand-kept counter is the number of queued items.                    *)
Exact(s) == s.pending = Cardinality(QueuedItems(s))

-----------------------------------------------------------------------------
(* Every priority has a positive weight.                                   *)
LEMMA Weights ==
  ASSUME NEW p \in Priorities
  PROVE  PRIORITY_WEIGHTS[p] \in Nat \ {0}
BY SchedulerAssumption DEF PRIORITY_WEIGHTS, Priority

(* The dict has a first key in every non-empty set of its keys.            *)
LEMMA OldestExists ==
  ASSUME NEW s, SchedOK(s), NEW S \in SUBSET s.keys, S # {}
  PROVE  /\ Oldest(s, S) \in S
         /\ \A k \in S \ {Oldest(s, S)} : <<Oldest(s, S), k>> \in s.older
<1> DEFINE Before(j) == {k \in S : <<k, j>> \in s.older}
           T == {Before(j) : j \in S}
<1>1. S \in SUBSET Jobs /\ IsFiniteSet(S)
  BY SchedulerAssumption, FS_Subset DEF SchedOK, SchedulerState
<1>2. T \subseteq FiniteSubsetsOf(S) /\ T # {}
  <2>1. FiniteSubsetsOf(S) = SUBSET S
    BY <1>1, FS_FiniteSubsetsOfFinite
  <2>2. T \subseteq SUBSET S
    OBVIOUS
  <2>3. PICK j \in S : TRUE
    OBVIOUS
  <2>4. Before(j) \in T
    BY <2>3
  <2> HIDE DEF T
  <2> QED BY <2>1, <2>2, <2>4
<1>3. \E x \in T : \A y \in T : <<y, x>> \notin StrictSubsetOrdering(S)
  BY <1>2, FS_StrictSubsetOrderingWellFounded, WFMin, Zenon
<1>4. PICK j \in S : \A k \in S : <<Before(k), Before(j)>> \notin StrictSubsetOrdering(S)
  BY <1>3
<1>5. Before(j) = {}
  <2>1. SUFFICES ASSUME NEW k \in Before(j) PROVE FALSE
    OBVIOUS
  <2>2. Before(k) \subseteq Before(j)
    BY DEF SchedOK, Ordered
  <2>3. k \notin Before(k)
    BY DEF SchedOK, Ordered
  <2>4. <<Before(k), Before(j)>> \in StrictSubsetOrdering(S)
    BY <2>2, <2>3 DEF StrictSubsetOrdering
  <2> QED BY <1>4, <2>4
<1>6. \A k \in S \ {j} : <<j, k>> \in s.older
  BY <1>5 DEF SchedOK, Ordered
<1> QED BY <1>6 DEF Oldest

-----------------------------------------------------------------------------
(* What the methods do to a well-formed scheduler.                         *)

LEMMA AddFacts ==
  ASSUME NEW s, SchedOK(s), NEW j \in Jobs, j \notin s.keys,
         NEW n \in 1..MaxBatch, NEW p \in Priorities
  PROVE  LET r == AddJob(s, j, WorkItems(n), p)
         IN  /\ SchedOK(r)
             /\ r.keys = s.keys \cup {j}
             /\ r.older = s.older \cup (s.keys \X {j})
             /\ r.weight[j] = r.credit[j] /\ r.weight[j] \in Nat \ {0}
             /\ \A k \in Jobs \ {j} : /\ r.weight[k] = s.weight[k]
                                      /\ r.credit[k] = s.credit[k]
                                      /\ r.items[k] = s.items[k]
             /\ r.items[j] = WorkItems(n) /\ Len(r.items[j]) = n
             /\ r.pending = s.pending + n
<1> DEFINE r == AddJob(s, j, WorkItems(n), p)
           w == PRIORITY_WEIGHTS[p]
<1>1. w \in Nat \ {0}
  BY Weights
<1>2. n \in Nat /\ WorkItems(n) \in Seq(Nat) /\ Len(WorkItems(n)) = n
  BY SchedulerAssumption DEF WorkItems
<1> HIDE DEF w
<1>3. /\ s.keys \in SUBSET Jobs /\ s.older \in SUBSET (Jobs \X Jobs)
      /\ s.weight \in [Jobs -> Nat] /\ s.items \in [Jobs -> Seq(Nat)]
      /\ s.credit \in [Jobs -> Nat] /\ s.pending \in Nat
  BY DEF SchedOK, SchedulerState
<1>4. /\ r.keys = s.keys \cup {j}
      /\ r.older = s.older \cup (s.keys \X {j})
      /\ r.weight = [s.weight EXCEPT ![j] = w]
      /\ r.items = [s.items EXCEPT ![j] = WorkItems(n)]
      /\ r.credit = [s.credit EXCEPT ![j] = w]
      /\ r.pending = s.pending + n
      /\ r \in SchedulerState
  <2> DEFINE q == WorkItems(n)
  <2>1. /\ s.older \cup (s.keys \X {j}) \in SUBSET (Jobs \X Jobs)
        /\ [s.weight EXCEPT ![j] = w] \in [Jobs -> Nat]
        /\ [s.credit EXCEPT ![j] = w] \in [Jobs -> Nat]
    BY <1>1, <1>3
  <2>3. q \in Seq(Nat) /\ Len(q) = n /\ s.pending + n \in Nat
    BY <1>2, <1>3
  <2> HIDE DEF q
  <2>4. [s.items EXCEPT ![j] = q] \in [Jobs -> Seq(Nat)]
    BY <1>3, <2>3
  <2>2. r = [keys |-> s.keys \cup {j}, older |-> s.older \cup (s.keys \X {j}),
             weight |-> [s.weight EXCEPT ![j] = w],
             items |-> [s.items EXCEPT ![j] = q],
             credit |-> [s.credit EXCEPT ![j] = w],
             pending |-> s.pending + Len(q)]
    BY DEF AddJob, w, q
  <2> HIDE DEF r
  <2> QED BY <1>3, <2>1, <2>2, <2>3, <2>4 DEF SchedulerState, q
<1>5. Ordered(r)
  BY <1>3, <1>4 DEF SchedOK, Ordered
<1>6. Formed(r)
  <2> DEFINE q == WorkItems(n)
  <2>1. Len(q) = n /\ n \in 1..MaxBatch
    BY <1>2
  <2> HIDE DEF q, r
  <2>2. /\ r.weight[j] = w /\ r.credit[j] = w /\ r.items[j] = q
        /\ \A k \in Jobs \ {j} : /\ r.weight[k] = s.weight[k]
                                 /\ r.credit[k] = s.credit[k]
                                 /\ r.items[k] = s.items[k]
                                 /\ k \in r.keys <=> k \in s.keys
        /\ j \in r.keys
    BY <1>3, <1>4 DEF q
  <2>3. Formed(s)
    BY DEF SchedOK
  <2> QED BY <1>1, <2>1, <2>2, <2>3 DEF Formed
<1> QED BY <1>1, <1>2, <1>3, <1>4, <1>5, <1>6 DEF SchedOK

(* Deleting keys from the dict, as remove_job and the purge of pop do.     *)
LEMMA DropFacts ==
  ASSUME NEW s, SchedOK(s), NEW D
  PROVE  LET r == DropQueues(s, D)
         IN  /\ SchedOK(r)
             /\ r.keys = s.keys \ D
             /\ r.older \subseteq s.older
             /\ \A j, k \in r.keys : <<j, k>> \in r.older <=> <<j, k>> \in s.older
             /\ \A k \in Jobs \ D : /\ r.weight[k] = s.weight[k]
                                    /\ r.credit[k] = s.credit[k]
                                    /\ r.items[k] = s.items[k]
             /\ \A k \in Jobs \cap D : r.items[k] = <<>>
             /\ r.pending = s.pending
<1> DEFINE r == DropQueues(s, D)
<1>1. /\ s.keys \in SUBSET Jobs /\ s.older \in SUBSET (Jobs \X Jobs)
      /\ s.weight \in [Jobs -> Nat] /\ s.items \in [Jobs -> Seq(Nat)]
      /\ s.credit \in [Jobs -> Nat] /\ s.pending \in Nat
  BY DEF SchedOK, SchedulerState
<1>2. /\ r.keys = s.keys \ D
      /\ r.older = {p \in s.older : p[1] \notin D /\ p[2] \notin D}
      /\ r.weight = [j \in Jobs |-> IF j \in D THEN 0 ELSE s.weight[j]]
      /\ r.items = [j \in Jobs |-> IF j \in D THEN <<>> ELSE s.items[j]]
      /\ r.credit = [j \in Jobs |-> IF j \in D THEN 0 ELSE s.credit[j]]
      /\ r.pending = s.pending
  BY DEF DropQueues
<1>3. <<>> \in Seq(Nat) /\ Len(<<>>) = 0
  BY EmptySeq
<1>4. /\ r.weight \in [Jobs -> Nat] /\ r.credit \in [Jobs -> Nat]
      /\ r.items \in [Jobs -> Seq(Nat)]
  BY <1>1, <1>2, <1>3
<1>5. r \in SchedulerState
  BY <1>1, <1>2, <1>4 DEF SchedulerState, DropQueues
<1>6. \A j, k \in r.keys : <<j, k>> \in r.older <=> <<j, k>> \in s.older
  BY <1>2
<1>7. r.older \subseteq r.keys \X r.keys
  BY <1>2 DEF SchedOK, Ordered
<1>8. Ordered(r)
  BY <1>2, <1>6, <1>7 DEF SchedOK, Ordered
<1>9. Formed(r)
  BY <1>1, <1>2, <1>3 DEF SchedOK, Formed
<1> QED BY <1>1, <1>2, <1>5, <1>6, <1>8, <1>9 DEF SchedOK

(* The round reset changes credits only, and leaves somebody in credit.    *)
LEMMA RoundFacts ==
  ASSUME NEW s, SchedOK(s), s.keys # {}
  PROVE  LET r == WithRound(s)
         IN  /\ SchedOK(r)
             /\ r.keys = s.keys /\ r.older = s.older /\ r.weight = s.weight
             /\ r.items = s.items /\ r.pending = s.pending
             /\ IF InCredit(s) = {} THEN r.credit = s.weight ELSE r = s
             /\ InCredit(r) # {}
<1> DEFINE r == WithRound(s)
<1>1. /\ s.keys \in SUBSET Jobs /\ s.weight \in [Jobs -> Nat]
      /\ s.credit \in [Jobs -> Nat]
  BY DEF SchedOK, SchedulerState
<1>2. CASE InCredit(s) # {}
  BY <1>2 DEF WithRound
<1>3. CASE InCredit(s) = {}
  <2>1. r = [s EXCEPT !.credit = s.weight]
    BY <1>3 DEF WithRound, NewRound
  <2> HIDE DEF r
  <2>2. /\ r.keys = s.keys /\ r.older = s.older /\ r.weight = s.weight
        /\ r.items = s.items /\ r.pending = s.pending /\ r.credit = s.weight
        /\ r \in SchedulerState
    BY <2>1 DEF SchedOK, SchedulerState
  <2>3. Ordered(r)
    BY <2>2 DEF SchedOK, Ordered
  <2>4. Formed(r)
    BY <1>1, <2>2 DEF SchedOK, Formed
  <2>5. InCredit(r) # {}
    <3>1. PICK j \in s.keys : TRUE
      OBVIOUS
    <3>2. j \in Jobs /\ s.weight[j] > 0
      BY <1>1, <3>1 DEF SchedOK, Formed
    <3> QED BY <3>1, <3>2, <2>2 DEF InCredit
  <2> QED BY <1>3, <2>2, <2>3, <2>4, <2>5 DEF SchedOK, r
<1> QED BY <1>2, <1>3

(* Serving a job takes one credit and one item from it, and nothing else.  *)
LEMMA ServedFacts ==
  ASSUME NEW s, SchedOK(s), NEW j \in s.keys, s.credit[j] > 0,
         s.items[j] # <<>>, s.pending > 0
  PROVE  LET r == Served(s, j)
         IN  /\ SchedOK(r)
             /\ r.keys = s.keys /\ r.older = s.older /\ r.weight = s.weight
             /\ r.credit[j] = s.credit[j] - 1
             /\ \A k \in Jobs \ {j} : /\ r.credit[k] = s.credit[k]
                                      /\ r.items[k] = s.items[k]
             /\ r.items[j] = Tail(s.items[j])
             /\ Len(r.items[j]) = Len(s.items[j]) - 1
             /\ r.pending = s.pending - 1
<1> DEFINE items == [s.items EXCEPT ![j] = Tail(@)]
           credit == [s.credit EXCEPT ![j] = @ - 1]
           s1 == [s EXCEPT !.items = items]
           s2 == [s1 EXCEPT !.credit = credit]
           r == Served(s, j)
<1>1. /\ s.keys \in SUBSET Jobs /\ s.weight \in [Jobs -> Nat]
      /\ s.credit \in [Jobs -> Nat] /\ s.items \in [Jobs -> Seq(Nat)]
      /\ s.pending \in Nat /\ j \in Jobs
  BY DEF SchedOK, SchedulerState
<1>2. /\ Tail(s.items[j]) \in Seq(Nat)
      /\ Len(Tail(s.items[j])) = Len(s.items[j]) - 1
      /\ Len(s.items[j]) \in Nat
  BY <1>1, HeadTailProperties, LenProperties
<1>3. items \in [Jobs -> Seq(Nat)] /\ credit \in [Jobs -> Nat]
  BY <1>1, <1>2
<1>4. /\ items[j] = Tail(s.items[j]) /\ credit[j] = s.credit[j] - 1
      /\ \A k \in Jobs \ {j} : items[k] = s.items[k] /\ credit[k] = s.credit[k]
  BY <1>1
<1> HIDE DEF items, credit
<1>5. s1 \in SchedulerState /\ s1.items = items /\ s1.keys = s.keys
      /\ s1.older = s.older /\ s1.weight = s.weight /\ s1.credit = s.credit
      /\ s1.pending = s.pending
  BY <1>3 DEF SchedOK, SchedulerState
<1> HIDE DEF s1
<1>6. s2 \in SchedulerState /\ s2.items = items /\ s2.keys = s.keys
      /\ s2.older = s.older /\ s2.weight = s.weight /\ s2.credit = credit
      /\ s2.pending = s.pending
  BY <1>3, <1>5 DEF SchedulerState
<1> DEFINE less == s.pending - 1
<1>7. r = [s2 EXCEPT !.pending = less]
  BY DEF Served, s1, s2, items, credit
<1>8. less \in Nat
  BY <1>1
<1> HIDE DEF s2, r, less
<1>9. r \in SchedulerState /\ r.items = items /\ r.keys = s.keys
      /\ r.older = s.older /\ r.weight = s.weight /\ r.credit = credit
      /\ r.pending = less
  BY <1>1, <1>6, <1>7, <1>8 DEF SchedulerState
<1>10. Ordered(r)
  BY <1>9 DEF SchedOK, Ordered
<1>11. Formed(r)
  <2>1. /\ s.weight[j] >= 1 /\ s.credit[j] <= s.weight[j]
        /\ Len(s.items[j]) <= MaxBatch /\ s.weight[j] \in Nat
        /\ s.credit[j] \in Nat /\ MaxBatch \in Nat
    BY <1>1, SchedulerAssumption DEF SchedOK, Formed
  <2>2. /\ r.weight[j] >= 1 /\ r.credit[j] <= r.weight[j]
        /\ Len(r.items[j]) <= MaxBatch
    <3>1. /\ r.weight[j] = s.weight[j] /\ r.credit[j] = s.credit[j] - 1
          /\ Len(r.items[j]) = Len(s.items[j]) - 1
      BY <1>2, <1>4, <1>9
    <3> QED BY <1>2, <2>1, <3>1
  <2>3. \A k \in Jobs \ {j} :
           /\ r.weight[k] = s.weight[k] /\ r.credit[k] = s.credit[k]
           /\ r.items[k] = s.items[k]
    BY <1>4, <1>9
  <2> QED BY <1>9, <2>2, <2>3 DEF SchedOK, Formed
<1> QED BY <1>2, <1>4, <1>9, <1>10, <1>11 DEF SchedOK, r, less

-----------------------------------------------------------------------------
(* Counting the queued items.                                              *)

LEMMA RowCount ==
  ASSUME NEW j, NEW n \in Nat
  PROVE  IsFiniteSet({j} \X (1..n)) /\ Cardinality({j} \X (1..n)) = n
<1>1. IsFiniteSet({j}) /\ Cardinality({j}) = 1
  BY FS_Singleton
<1>2. IsFiniteSet(1..n) /\ Cardinality(1..n) = n
  BY FS_Interval
<1>3. /\ IsFiniteSet({j} \X (1..n))
      /\ Cardinality({j} \X (1..n)) = Cardinality({j}) * Cardinality(1..n)
  BY <1>1, <1>2, FS_Product
<1> QED BY <1>1, <1>2, <1>3

(* The queued items can be counted.                                        *)
LEMMA QueuedFinite ==
  ASSUME NEW s
  PROVE  IsFiniteSet(QueuedItems(s)) /\ Cardinality(QueuedItems(s)) \in Nat
<1>1. IsFiniteSet(1..MaxBatch)
  BY SchedulerAssumption, FS_Interval
<1>2. IsFiniteSet(Jobs \X (1..MaxBatch))
  BY <1>1, SchedulerAssumption, FS_Product
<1>3. QueuedItems(s) \in SUBSET (Jobs \X (1..MaxBatch))
  BY DEF QueuedItems
<1> QED BY <1>2, <1>3, FS_Subset, FS_CardinalityType

(* How the number of queued items changes with add_job,                    *)
LEMMA QueuedAdded ==
  ASSUME NEW s, NEW r, NEW j \in Jobs,
         Len(s.items[j]) = 0, Len(r.items[j]) \in 1..MaxBatch,
         \A k \in Jobs \ {j} : r.items[k] = s.items[k]
  PROVE  Cardinality(QueuedItems(r))
           = Cardinality(QueuedItems(s)) + Len(r.items[j])
<1> DEFINE n == Len(r.items[j])
           row == {j} \X (1..n)
<1>1. n \in Nat /\ 1..n \subseteq 1..MaxBatch
  BY SchedulerAssumption
<1>2. QueuedItems(r) = QueuedItems(s) \cup row
  BY <1>1 DEF QueuedItems
<1>3. QueuedItems(s) \cap row = {}
  BY <1>1 DEF QueuedItems
<1>4. IsFiniteSet(row) /\ Cardinality(row) = n
  BY <1>1, RowCount
<1> HIDE DEF row
<1>5. Cardinality(QueuedItems(s) \cap row) = 0
  BY <1>3, FS_EmptySet
<1>6. Cardinality(QueuedItems(r))
        = Cardinality(QueuedItems(s)) + n - Cardinality(QueuedItems(s) \cap row)
  BY <1>2, <1>4, QueuedFinite, FS_Union
<1> QED BY <1>1, <1>5, <1>6, QueuedFinite

(* with remove_job,                                                        *)
LEMMA QueuedRemoved ==
  ASSUME NEW s, NEW r, NEW j \in Jobs,
         Len(s.items[j]) \in 0..MaxBatch, Len(r.items[j]) = 0,
         \A k \in Jobs \ {j} : r.items[k] = s.items[k]
  PROVE  Cardinality(QueuedItems(r))
           = Cardinality(QueuedItems(s)) - Len(s.items[j])
<1> DEFINE n == Len(s.items[j])
           row == {j} \X (1..n)
<1>1. n \in Nat /\ 1..n \subseteq 1..MaxBatch
  BY SchedulerAssumption
<1>2. QueuedItems(r) = QueuedItems(s) \ row
  BY <1>1 DEF QueuedItems
<1>3. QueuedItems(s) \cap row = row
  BY <1>1 DEF QueuedItems
<1>4. Cardinality(row) = n
  BY <1>1, RowCount
<1> HIDE DEF row
<1>5. Cardinality(QueuedItems(s) \ row)
        = Cardinality(QueuedItems(s)) - Cardinality(QueuedItems(s) \cap row)
  BY QueuedFinite, FS_Difference
<1> QED BY <1>2, <1>3, <1>4, <1>5

(* and with pop.                                                           *)
LEMMA QueuedServed ==
  ASSUME NEW s, NEW r, NEW j \in Jobs,
         Len(s.items[j]) \in 1..MaxBatch,
         Len(r.items[j]) = Len(s.items[j]) - 1,
         \A k \in Jobs \ {j} : r.items[k] = s.items[k]
  PROVE  /\ Cardinality(QueuedItems(r)) = Cardinality(QueuedItems(s)) - 1
         /\ Cardinality(QueuedItems(s)) > 0
<1> DEFINE last == <<j, Len(s.items[j])>>
<1>1. Len(s.items[j]) \in Nat
  BY SchedulerAssumption
<1>2. last \in QueuedItems(s)
  BY <1>1 DEF QueuedItems
<1>3. QueuedItems(r) = QueuedItems(s) \ {last}
  BY <1>1 DEF QueuedItems
<1> HIDE DEF last
<1>4. Cardinality(QueuedItems(r)) = Cardinality(QueuedItems(s)) - 1
  BY <1>2, <1>3, QueuedFinite, FS_RemoveElement
<1>5. Cardinality(QueuedItems(r)) \in Nat /\ Cardinality(QueuedItems(s)) \in Nat
  BY QueuedFinite
<1> QED BY <1>4, <1>5

-----------------------------------------------------------------------------
(***************************************************************************)
(* The job pop() serves: in credit, with items, and no older job has       *)
(* credit.  The fallback has nothing to do.                                *)
(***************************************************************************)
LEMMA PopFacts ==
  ASSUME NEW s, SchedOK(s), ~PopReturnsNone(s)
  PROVE  LET r == WithRound(Purged(s))
             j == PopJob(s)
         IN  /\ SchedOK(Purged(s)) /\ Purged(s).keys # {}
             /\ SchedOK(r) /\ InCredit(r) # {} /\ PopFallback(r) = r
             /\ j \in r.keys /\ r.credit[j] > 0 /\ r.items[j] # <<>>
             /\ \A k \in r.keys : r.credit[k] > 0 /\ k # j => <<j, k>> \in r.older
<1> DEFINE D == {j \in s.keys : s.items[j] = <<>>}
           q == Purged(s)
           r == WithRound(q)
           j == PopJob(s)
<1>1. /\ SchedOK(q) /\ q.keys = s.keys \ D /\ s.keys \in SUBSET Jobs
      /\ \A k \in Jobs \ D : q.items[k] = s.items[k]
  <2>1. s.keys \in SUBSET Jobs
    BY DEF SchedOK, SchedulerState
  <2>2. q = DropQueues(s, D)
    BY DEF Purged
  <2> HIDE DEF q, D
  <2> QED BY <2>1, <2>2, DropFacts
<1>2. q.keys # {}
  BY DEF PopReturnsNone
<1>3. \A k \in q.keys : q.items[k] # <<>>
  BY <1>1
<1> HIDE DEF q
<1>4. SchedOK(r) /\ r.keys = q.keys /\ r.items = q.items /\ InCredit(r) # {}
  BY <1>1, <1>2, RoundFacts
<1>5. j = Oldest(r, InCredit(r))
  BY <1>4 DEF PopJob, q
<1> HIDE DEF r, j
<1>6. /\ InCredit(r) \in SUBSET r.keys
      /\ \A k \in r.keys : k \in InCredit(r) <=> r.credit[k] > 0
  BY DEF InCredit
<1>7. j \in InCredit(r) /\ \A k \in InCredit(r) \ {j} : <<j, k>> \in r.older
  BY <1>4, <1>5, <1>6, OldestExists
<1>8. PopFallback(r) = r
  BY <1>4 DEF PopFallback
<1> QED BY <1>1, <1>2, <1>3, <1>4, <1>6, <1>7, <1>8 DEF q, r, j

-----------------------------------------------------------------------------
(* The methods as the engine uses them: what they do to the queues, with   *)
(* the counter exact before and after.                                     *)

(* A new scheduler.                                                        *)
LEMMA NewSchedulerOK ==
  /\ SchedOK(EmptyScheduler) /\ Exact(EmptyScheduler)
  /\ EmptyScheduler.keys = {} /\ EmptyScheduler.pending = 0
  /\ \A j \in Jobs : EmptyScheduler.items[j] = <<>>
<1> DEFINE s == EmptyScheduler
<1>1. /\ s \in SchedulerState /\ s.keys = {} /\ s.older = {} /\ s.pending = 0
      /\ \A j \in Jobs : /\ s.weight[j] = 0 /\ s.credit[j] = 0
                         /\ s.items[j] = <<>>
  BY EmptySeq DEF EmptyScheduler, SchedulerState
<1> HIDE DEF s
<1>2. SchedOK(s)
  BY <1>1 DEF SchedOK, Ordered, Formed
<1>3. QueuedItems(s) = {}
  BY <1>1, EmptySeq, SchedulerAssumption DEF QueuedItems
<1> QED BY <1>1, <1>2, <1>3, FS_EmptySet DEF Exact, s

(* add_job of a job that has no queue.                                     *)
LEMMA AddStep ==
  ASSUME NEW s, SchedOK(s), Exact(s), NEW j \in Jobs, j \notin s.keys,
         NEW n \in 1..MaxBatch, NEW p \in Priorities
  PROVE  LET r == AddJob(s, j, WorkItems(n), p)
         IN  /\ SchedOK(r) /\ Exact(r)
             /\ r.keys = s.keys \cup {j}
             /\ r.items[j] = WorkItems(n) /\ Len(r.items[j]) = n
             /\ \A k \in Jobs \ {j} : r.items[k] = s.items[k]
             /\ r.pending = s.pending + n
<1> DEFINE r == AddJob(s, j, WorkItems(n), p)
<1>1. /\ SchedOK(r) /\ r.keys = s.keys \cup {j}
      /\ r.items[j] = WorkItems(n) /\ Len(r.items[j]) = n
      /\ \A k \in Jobs \ {j} : r.items[k] = s.items[k]
      /\ r.pending = s.pending + n
  BY AddFacts
<1> HIDE DEF r
<1>2. Len(s.items[j]) = 0
  BY EmptySeq DEF SchedOK, Formed
<1>3. Cardinality(QueuedItems(r)) = Cardinality(QueuedItems(s)) + Len(r.items[j])
  BY <1>1, <1>2, QueuedAdded
<1> QED BY <1>1, <1>3 DEF Exact, r

(* remove_job, whether the job still has a queue or not.                   *)
LEMMA RemoveStep ==
  ASSUME NEW s, SchedOK(s), Exact(s), NEW j \in Jobs
  PROVE  LET r == RemoveJob(s, j)
         IN  /\ SchedOK(r) /\ Exact(r)
             /\ r.keys = s.keys \ {j}
             /\ r.items[j] = <<>>
             /\ \A k \in Jobs \ {j} : r.items[k] = s.items[k]
             /\ r.pending <= s.pending
<1> DEFINE q == DropQueues(s, {j})
           n == Len(s.items[j])
           r == RemoveJob(s, j)
<1>1. /\ SchedOK(q) /\ q.keys = s.keys \ {j} /\ q.pending = s.pending
      /\ \A k \in Jobs \ {j} : q.items[k] = s.items[k]
      /\ q.items[j] = <<>>
  BY DropFacts
<1>2. s.items \in [Jobs -> Seq(Nat)] /\ s.pending \in Nat /\ n \in Nat
  BY LenProperties DEF SchedOK, SchedulerState
<1>3. n \in 0..MaxBatch
  <2>1. n <= MaxBatch
    BY SchedulerAssumption, EmptySeq DEF SchedOK, Formed
  <2> QED BY <1>2, <2>1, SchedulerAssumption
<1>4. Cardinality(QueuedItems(q)) = Cardinality(QueuedItems(s)) - n
  BY <1>1, <1>3, EmptySeq, QueuedRemoved
<1> DEFINE left == s.pending - n
<1>5. left = Cardinality(QueuedItems(q)) /\ left \in Nat /\ left <= s.pending
  BY <1>2, <1>4, QueuedFinite DEF Exact
<1>6. r = [q EXCEPT !.pending = left]
  BY <1>1 DEF RemoveJob
<1> HIDE DEF q, left, r
<1>7. /\ r \in SchedulerState /\ r.pending = left
      /\ r.keys = q.keys /\ r.older = q.older
      /\ r.weight = q.weight /\ r.credit = q.credit /\ r.items = q.items
  BY <1>1, <1>5, <1>6 DEF SchedOK, SchedulerState
<1>8. SchedOK(r)
  BY <1>1, <1>7 DEF SchedOK, Ordered, Formed
<1>9. QueuedItems(r) = QueuedItems(q)
  BY <1>7 DEF QueuedItems
<1> QED BY <1>1, <1>5, <1>7, <1>8, <1>9 DEF Exact, r

(* pop with nothing queued only forgets the empty queues,                  *)
LEMMA PopNothing ==
  ASSUME NEW s, SchedOK(s), Exact(s), PopReturnsNone(s)
  PROVE  /\ SchedOK(Popped(s)) /\ Exact(Popped(s))
         /\ Popped(s).keys = {} /\ Popped(s).pending = 0 /\ s.pending = 0
         /\ \A k \in Jobs : s.items[k] = <<>> /\ Popped(s).items[k] = <<>>
<1> DEFINE D == {j \in s.keys : s.items[j] = <<>>}
           q == Purged(s)
<1>1. Popped(s) = q /\ q = DropQueues(s, D) /\ q.keys = {}
  BY DEF Popped, Purged, PopReturnsNone
<1>2. s.keys \subseteq Jobs
  BY DEF SchedOK, SchedulerState
<1>3. /\ SchedOK(q) /\ q.keys = s.keys \ D /\ q.pending = s.pending
      /\ \A k \in Jobs \ D : q.items[k] = s.items[k]
      /\ \A k \in Jobs \cap D : q.items[k] = <<>>
  <2> HIDE DEF q, D
  <2> QED BY <1>1, DropFacts
<1>4. \A k \in Jobs : s.items[k] = <<>>
  BY <1>1, <1>3 DEF SchedOK, Formed
<1> HIDE DEF q
<1>5. \A k \in Jobs : q.items[k] = <<>>
  BY <1>3, <1>4
<1>6. QueuedItems(s) = {} /\ QueuedItems(q) = {}
  BY <1>4, <1>5, EmptySeq, SchedulerAssumption DEF QueuedItems
<1>7. s.pending = 0 /\ Exact(q)
  BY <1>3, <1>6, FS_EmptySet DEF Exact
<1> QED BY <1>1, <1>3, <1>4, <1>5, <1>7

(* and otherwise takes the first item of one queue that has one.           *)
LEMMA PopOne ==
  ASSUME NEW s, SchedOK(s), Exact(s), ~PopReturnsNone(s)
  PROVE  LET j == PopJob(s)
             r == Popped(s)
         IN  /\ SchedOK(r) /\ Exact(r)
             /\ j \in s.keys /\ j \in Jobs /\ s.items[j] # <<>>
             /\ r.keys \subseteq s.keys
             /\ r.items[j] = Tail(s.items[j])
             /\ \A k \in Jobs \ {j} : r.items[k] = s.items[k]
             /\ r.pending = s.pending - 1
<1> DEFINE D == {j \in s.keys : s.items[j] = <<>>}
           q == Purged(s)
           m == WithRound(q)
           x == PopJob(s)
           r == Popped(s)
<1>1. q = DropQueues(s, D) /\ r = Served(m, x)
  BY PopFacts DEF Purged, Popped
<1>2. /\ SchedOK(q) /\ q.keys # {} /\ SchedOK(m)
      /\ x \in m.keys /\ m.credit[x] > 0 /\ m.items[x] # <<>>
  BY PopFacts
<1>3. /\ q.keys = s.keys \ D /\ q.pending = s.pending
      /\ \A k \in Jobs : q.items[k] = s.items[k]
  <2>1. /\ q.keys = s.keys \ D /\ q.pending = s.pending
        /\ \A k \in Jobs \ D : q.items[k] = s.items[k]
        /\ \A k \in Jobs \cap D : q.items[k] = <<>>
    <3> HIDE DEF q, D
    <3> QED BY <1>1, DropFacts
  <2> QED BY <2>1
<1> HIDE DEF q, x, D
<1>4. m.keys = q.keys /\ m.items = q.items /\ m.pending = q.pending
  BY <1>2, RoundFacts
<1> HIDE DEF m
<1>5. /\ m.items \in [Jobs -> Seq(Nat)] /\ x \in Jobs
      /\ Len(m.items[x]) \in 1..MaxBatch
  <2>1. m.items \in [Jobs -> Seq(Nat)] /\ x \in Jobs
    BY <1>2 DEF SchedOK, SchedulerState
  <2>2. Len(m.items[x]) \in Nat \ {0}
    BY <1>2, <2>1, EmptySeq
  <2>3. Len(m.items[x]) <= MaxBatch
    BY <1>2, <2>1 DEF SchedOK, Formed
  <2> QED BY <2>1, <2>2, <2>3, SchedulerAssumption
<1>6. m.pending = Cardinality(QueuedItems(m))
  <2>1. QueuedItems(m) = QueuedItems(s)
    BY <1>3, <1>4 DEF QueuedItems
  <2> QED BY <1>3, <1>4, <2>1 DEF Exact
<1>7. m.pending > 0
  <2> DEFINE last == <<x, Len(m.items[x])>>
  <2>1. last \in QueuedItems(m)
    BY <1>5, SchedulerAssumption DEF QueuedItems
  <2> QED BY <1>6, <2>1, QueuedFinite, FS_EmptySet
<1>8. /\ SchedOK(r) /\ r.keys = m.keys /\ r.pending = m.pending - 1
      /\ r.items[x] = Tail(m.items[x])
      /\ Len(r.items[x]) = Len(m.items[x]) - 1
      /\ \A k \in Jobs \ {x} : r.items[k] = m.items[k]
  <2> HIDE DEF r
  <2> QED BY <1>1, <1>2, <1>7, ServedFacts
<1> HIDE DEF r
<1>9. Cardinality(QueuedItems(r)) = Cardinality(QueuedItems(m)) - 1
  BY <1>5, <1>8, QueuedServed
<1>10. Exact(r)
  BY <1>6, <1>8, <1>9 DEF Exact
<1> QED BY <1>2, <1>3, <1>4, <1>5, <1>8, <1>10 DEF r, x

=============================================================================
