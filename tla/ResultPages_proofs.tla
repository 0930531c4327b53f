------------------------- MODULE ResultPages_proofs -------------------------
(***************************************************************************)
(* The readers of a job, for any set of jobs, any batch and page size.     *)
(* Whatever the job does while a reader is suspended, it obeys the         *)
(* contract of JobLifecycle: its counters stay within its size, and the    *)
(* state it ends in is final.  The event stream relies on the second.  The *)
(* export relies on results only being added: the rank of an item in the   *)
(* listing never falls, so what is now before the offset was read.         *)
(***************************************************************************)
EXTENDS ResultPages, FiniteSetTheorems, SequenceTheorems, TLAPS

(* The record of a job: the counters add up and never pass the total.      *)
LifeOK(l) ==
  /\ l \in Snapshots
  /\ l.completed <= l.total
  /\ l.succeeded + l.failed = l.completed

LivesOK ==
  /\ life \in [Jobs -> Snapshots]
  /\ \A j \in Jobs : LifeOK(life[j])

(* What the generator holds; a stream that has ended saw the job ended.    *)
GeneratorOK ==
  /\ pc \in {"closed", "started", "poll", "progress", "final", "done", "gone"}
  /\ snap \in Snapshots
  /\ last \in -1..MaxBatch
  /\ sent.data \in Snapshots
  /\ pc \in {"final", "done"} =>
       snapshot.state \in terminal /\ sent.event = snapshot.state

StreamInv == LivesOK /\ GeneratorOK

(* The prompts whose results a listing shows.                              *)
Have(what) ==
  {s \in Seqs : IF what = "results" THEN results[s] # "none"
                ELSE results[s] = "error"}

(* The results of the job: none beyond its last prompt.                    *)
ResultsOK ==
  /\ results \in [Seqs -> {"none", "ok", "error"}]
  /\ \A s \in Seqs : results[s] # "none" => s < snapshot.total
  /\ snapshot.state = "none" => snapshot.total = 0

(* What the export holds, whatever becomes of it.                          *)
ExportTypes ==
  /\ reader \in {"idle", "reading", "saved", "failed"}
  /\ listing \in {"results", "dead-letter"}
  /\ offset \in Nat /\ offset <= snapshot.total + PageSize
  /\ all \in Seq(Seqs) /\ Elements(all) \subseteq Have(listing)
  /\ begun.items \subseteq Have(listing)
  /\ begun.state = "completed" => snapshot.state = "completed"
  /\ reader = "idle" => offset = 0 /\ all = <<>>

(* S: what the listing shows now; B: what it showed at the first request.  *)
(* While it reads, every page was full, and an item that was there at the  *)
(* first request and is now before the offset has been read.               *)
Reading(S, B, read, at) ==
  /\ Len(read) = at /\ at <= Cardinality(S)
  /\ \A s \in B : Rank(S, s) < at => s \in Elements(read)

(* The pages of a job that can no longer change are its first results.     *)
ExactSoFar(S, read, at, rd) ==
  /\ rd = "reading" => read = SubSeq(sorted(S), 1, at)
  /\ rd = "saved" => read = sorted(S)

ExportOK ==
  /\ ExportTypes
  /\ reader = "reading" => Reading(Have(listing), begun.items, all, offset)
  /\ reader = "saved" => begun.items \subseteq Elements(all)
  /\ begun.state = "completed" => ExactSoFar(Have(listing), all, offset, reader)

PagesInv == StreamInv /\ ResultsOK /\ ExportOK

-----------------------------------------------------------------------------
(* One more answer keeps the record of a job in order.                     *)
LEMMA AnsweredOK ==
  ASSUME NEW l, LifeOK(l), l.completed < l.total, NEW ok \in BOOLEAN,
         l.state \in {"running", "cancelled"}
  PROVE  /\ LifeOK(Answered(l, ok))
         /\ l.state \in terminal => Answered(l, ok).state = l.state
         /\ Answered(l, ok).state # "none" /\ Answered(l, ok).total = l.total
<1>1. MaxBatch \in Nat
  BY StreamAssumption
<1>2. /\ l = [state |-> l.state, total |-> l.total, completed |-> l.completed,
              succeeded |-> l.succeeded, failed |-> l.failed]
      /\ l.state \in {"none", "running"} \cup terminal
      /\ l.total \in 0..MaxBatch /\ l.completed \in 0..MaxBatch
      /\ l.succeeded \in 0..MaxBatch /\ l.failed \in 0..MaxBatch
      /\ l.succeeded + l.failed = l.completed
  BY DEF LifeOK, Snapshots
<1> DEFINE done == IF l.completed + 1 = l.total /\ l.state = "running"
                   THEN "completed" ELSE l.state
           good == IF ok THEN l.succeeded + 1 ELSE l.succeeded
           bad  == IF ok THEN l.failed ELSE l.failed + 1
           more == l.completed + 1
           l1 == [l EXCEPT !.completed = more]
           l2 == [l1 EXCEPT !.succeeded = good]
           l3 == [l2 EXCEPT !.failed = bad]
           r == [l3 EXCEPT !.state = done]
<1>3. Answered(l, ok) = r
  BY <1>2 DEF Answered
<1>4. /\ more \in 0..MaxBatch /\ good \in 0..MaxBatch /\ bad \in 0..MaxBatch
      /\ more <= l.total /\ good + bad = more
  BY <1>1, <1>2
<1>5. /\ done \in {"none", "running"} \cup terminal
      /\ l.state \in terminal => done = l.state
      /\ done # "none"
  BY <1>2 DEF terminal
<1> HIDE DEF done, good, bad, more
<1>6. /\ l1 \in Snapshots /\ l1.total = l.total /\ l1.completed = more
  BY <1>4 DEF LifeOK, Snapshots
<1> HIDE DEF l1
<1>7. /\ l2 \in Snapshots /\ l2.total = l.total /\ l2.completed = more
      /\ l2.succeeded = good
  BY <1>4, <1>6 DEF Snapshots
<1> HIDE DEF l2
<1>8. /\ l3 \in Snapshots /\ l3.total = l.total /\ l3.completed = more
      /\ l3.succeeded = good /\ l3.failed = bad
  BY <1>4, <1>7 DEF Snapshots
<1> HIDE DEF l3
<1>9. /\ r \in Snapshots /\ r.total = l.total /\ r.completed = more
      /\ r.succeeded = good /\ r.failed = bad /\ r.state = done
  BY <1>5, <1>8 DEF Snapshots
<1> HIDE DEF r
<1>10. LifeOK(r)
  BY <1>4, <1>9 DEF LifeOK
<1> QED BY <1>3, <1>5, <1>9, <1>10

(***************************************************************************)
(* Any step of a job keeps the records in order, and a job that has ended  *)
(* stays in the state it ended in.                                         *)
(***************************************************************************)
LEMMA LifeSteps ==
  ASSUME LivesOK, LifeNext
  PROVE  /\ LivesOK'
         /\ \A j \in Jobs : life[j].state \in terminal =>
              life'[j].state = life[j].state
<1>0. MaxBatch \in Nat \ {0} /\ life \in [Jobs -> Snapshots]
  BY StreamAssumption DEF LivesOK
<1>1. ASSUME NEW j \in Jobs, NEW n \in 1..MaxBatch, Accept(j, n)
      PROVE  /\ LivesOK'
             /\ \A i \in Jobs : life[i].state \in terminal =>
                  life'[i].state = life[i].state
  <2> DEFINE l == [NoLife EXCEPT !.state = "running"]
             r == [l EXCEPT !.total = n]
  <2>1. life[j].state = "none" /\ life' = [life EXCEPT ![j] = r]
    BY <1>1 DEF Accept
  <2>2. LifeOK(r)
    <3>1. NoLife \in Snapshots /\ NoLife.completed = 0
          /\ NoLife.succeeded = 0 /\ NoLife.failed = 0
      BY <1>0 DEF NoLife, Snapshots
    <3>2. l \in Snapshots /\ l.completed = 0 /\ l.succeeded = 0 /\ l.failed = 0
      BY <3>1 DEF Snapshots
    <3> HIDE DEF l
    <3>3. /\ r \in Snapshots /\ r.total = n /\ r.completed = 0
          /\ r.succeeded = 0 /\ r.failed = 0
      BY <1>0, <3>2 DEF Snapshots
    <3> HIDE DEF r
    <3> QED BY <1>0, <3>3 DEF LifeOK
  <2>3. r \in Snapshots
    BY <2>2 DEF LifeOK
  <2> HIDE DEF r
  <2>4. /\ life' \in [Jobs -> Snapshots]
        /\ \A i \in Jobs : life'[i] = IF i = j THEN r ELSE life[i]
    BY <1>0, <2>1, <2>3
  <2>5. \A i \in Jobs : LifeOK(life'[i])
    BY <2>2, <2>4 DEF LivesOK
  <2>6. LivesOK'
    BY <2>4, <2>5 DEF LivesOK, LifeOK
  <2> QED BY <2>1, <2>4, <2>6 DEF terminal
<1>2. ASSUME NEW j \in Jobs, NEW ok \in BOOLEAN, Answer(j, ok)
      PROVE  /\ LivesOK'
             /\ \A i \in Jobs : life[i].state \in terminal =>
                  life'[i].state = life[i].state
  <2> DEFINE r == Answered(life[j], ok)
  <2>1. /\ life[j].state \in {"running", "cancelled"}
        /\ life[j].completed < life[j].total /\ life' = [life EXCEPT ![j] = r]
    BY <1>2 DEF Answer
  <2>2. LifeOK(r) /\ (life[j].state \in terminal => r.state = life[j].state)
    BY <2>1, AnsweredOK DEF LivesOK
  <2>3. r \in Snapshots
    BY <2>2 DEF LifeOK
  <2> HIDE DEF r
  <2>4. /\ life' \in [Jobs -> Snapshots]
        /\ \A i \in Jobs : life'[i] = IF i = j THEN r ELSE life[i]
    BY <1>0, <2>1, <2>3
  <2>5. \A i \in Jobs : LifeOK(life'[i])
    BY <2>2, <2>4 DEF LivesOK
  <2>6. LivesOK'
    BY <2>4, <2>5 DEF LivesOK, LifeOK
  <2> QED BY <2>2, <2>4, <2>6
<1>3. ASSUME NEW S \in SUBSET Jobs, Cancel(S)
      PROVE  /\ LivesOK'
             /\ \A i \in Jobs : life[i].state \in terminal =>
                  life'[i].state = life[i].state
  <2>1. /\ \A j \in S : life[j].state = "running"
        /\ life' = [j \in Jobs |-> IF j \in S THEN [life[j] EXCEPT !.state = "cancelled"]
                                   ELSE life[j]]
    BY <1>3 DEF Cancel
  <2>2. ASSUME NEW i \in Jobs
        PROVE  /\ LifeOK(life'[i])
               /\ life[i].state \in terminal => life'[i].state = life[i].state
    <3>1. CASE i \in S
      <4> DEFINE l == life[i]
                 r == [l EXCEPT !.state = "cancelled"]
      <4>1. LifeOK(l) /\ l.state = "running" /\ life'[i] = r
        BY <2>1, <3>1 DEF LivesOK
      <4> HIDE DEF l
      <4>2. LifeOK(r)
        BY <4>1 DEF LifeOK, Snapshots, terminal
      <4> QED BY <4>1, <4>2 DEF terminal, l
    <3>2. CASE i \notin S
      <4>1. life'[i] = life[i]
        BY <2>1, <3>2
      <4> QED BY <4>1 DEF LivesOK
    <3> QED BY <3>1, <3>2
  <2>3. \A i \in Jobs : life'[i] \in Snapshots
    BY <2>2 DEF LifeOK
  <2>4. life' \in [Jobs -> Snapshots]
    BY <2>1, <2>3
  <2>5. LivesOK'
    BY <2>2, <2>4 DEF LivesOK, LifeOK
  <2> QED BY <2>2, <2>5
<1> QED BY <1>1, <1>2, <1>3 DEF LifeNext

(* A stream starts with nothing read and nothing sent.                     *)
LEMMA StreamInit_Inv == StreamInit => StreamInv
<1> SUFFICES ASSUME StreamInit PROVE StreamInv
  OBVIOUS
<1>1. MaxBatch \in Nat \ {0} /\ Watched \in Jobs
  BY StreamAssumption
<1>2. LifeOK(NoLife) /\ NoLife \in Snapshots
  BY <1>1 DEF LifeOK, NoLife, Snapshots
<1>3. life = [j \in Jobs |-> NoLife] /\ pc = "closed" /\ snap = NoLife
      /\ last = -1 /\ sent = [event |-> "none", data |-> NoLife]
  BY DEF StreamInit, LifeInit, Event
<1>4. LivesOK
  BY <1>2, <1>3 DEF LivesOK
<1>5. GeneratorOK
  BY <1>1, <1>2, <1>3 DEF GeneratorOK
<1> QED BY <1>4, <1>5 DEF StreamInv

(* A poll and the turn after a progress event, with the job where it is.   *)
LEMMA FinishKeeps ==
  ASSUME StreamInv, NEW s \in Snapshots, Finish(s), UNCHANGED life
  PROVE  /\ pc' \in {"poll", "final"} /\ sent'.data \in Snapshots
         /\ pc' = "final" => /\ snapshot'.state \in terminal
                             /\ sent'.event = snapshot'.state
<1>1. snapshot' = snapshot
  BY DEF snapshot
<1>2. CASE snapshot.state \in terminal
  BY <1>1, <1>2 DEF Finish, Event
<1>3. CASE snapshot.state \notin terminal
  BY <1>3 DEF Finish, StreamInv, GeneratorOK
<1> QED BY <1>2, <1>3

(***************************************************************************)
(* Every step of the stream or of a job keeps the invariant.               *)
(***************************************************************************)
LEMMA StreamStep_Inv ==
  StreamInv /\ [StreamNext]_streamVars => StreamInv'
<1> SUFFICES ASSUME StreamInv, [StreamNext]_streamVars PROVE StreamInv'
  OBVIOUS
<1>0. MaxBatch \in Nat \ {0} /\ Watched \in Jobs /\ LivesOK /\ GeneratorOK
  BY StreamAssumption DEF StreamInv
<1>1. snapshot \in Snapshots /\ snapshot.completed \in 0..MaxBatch
  BY <1>0 DEF LivesOK, snapshot, Snapshots
<1>2. CASE UNCHANGED streamVars
  BY <1>0, <1>2 DEF streamVars, StreamInv, LivesOK, LifeOK, GeneratorOK, snapshot
<1>3. CASE JobStep
  <2>1. /\ LivesOK'
        /\ snapshot.state \in terminal => snapshot'.state = snapshot.state
    BY <1>0, <1>3, LifeSteps DEF JobStep, snapshot
  <2>2. UNCHANGED <<pc, snap, last, sent>>
    BY <1>3 DEF JobStep
  <2>3. GeneratorOK'
    BY <1>0, <2>1, <2>2 DEF GeneratorOK
  <2> QED BY <2>1, <2>3 DEF StreamInv
<1>4. ASSUME UNCHANGED life PROVE LivesOK' /\ snapshot' = snapshot
  BY <1>0, <1>4 DEF LivesOK, LifeOK, snapshot
<1>5. CASE Open
  <2>1. /\ life' = life /\ snap' = snap /\ last' = last /\ pc' = "started"
        /\ sent' = [event |-> "job_started", data |-> snapshot]
    BY <1>5 DEF Open, Event
  <2>2. GeneratorOK'
    BY <1>0, <1>1, <2>1 DEF GeneratorOK
  <2> QED BY <1>4, <2>1, <2>2 DEF StreamInv
<1>6. CASE Poll
  <2>1. life' = life /\ last' = last /\ snap' = snapshot
    BY <1>6 DEF Poll
  <2>2. CASE snapshot.completed # last
    <3>1. sent' = [event |-> "progress", data |-> snapshot] /\ pc' = "progress"
      BY <1>6, <2>2 DEF Poll, Event
    <3>2. GeneratorOK'
      BY <1>0, <1>1, <2>1, <3>1 DEF GeneratorOK
    <3> QED BY <1>4, <2>1, <3>2 DEF StreamInv
  <2>3. CASE ~(snapshot.completed # last)
    <3>1. Finish(snapshot)
      BY <1>6, <2>3 DEF Poll
    <3>2. /\ pc' \in {"poll", "final"} /\ sent'.data \in Snapshots
          /\ pc' = "final" => /\ snapshot'.state \in terminal
                              /\ sent'.event = snapshot'.state
      BY <1>1, <2>1, <3>1, FinishKeeps
    <3>3. GeneratorOK'
      BY <1>0, <1>1, <2>1, <3>2 DEF GeneratorOK
    <3> QED BY <1>4, <2>1, <3>3 DEF StreamInv
  <2> QED BY <2>2, <2>3
<1>7. CASE AfterProgress
  <2>1. life' = life /\ snap' = snap /\ last' = snapshot.completed /\ Finish(snap)
    BY <1>7 DEF AfterProgress
  <2>2. /\ pc' \in {"poll", "final"} /\ sent'.data \in Snapshots
        /\ pc' = "final" => /\ snapshot'.state \in terminal
                            /\ sent'.event = snapshot'.state
    BY <1>0, <2>1, FinishKeeps DEF GeneratorOK
  <2>3. last' \in -1..MaxBatch
    BY <1>0, <1>1, <2>1
  <2>4. GeneratorOK'
    BY <1>0, <2>1, <2>2, <2>3 DEF GeneratorOK
  <2> QED BY <1>4, <2>1, <2>4 DEF StreamInv
<1>8. CASE Return \/ Disconnect
  <2>1. /\ UNCHANGED <<life, snap, last, sent>>
        /\ pc' = "gone" \/ (pc = "final" /\ pc' = "done")
    BY <1>8 DEF Return, Disconnect
  <2>2. GeneratorOK'
    BY <1>0, <1>4, <2>1 DEF GeneratorOK
  <2> QED BY <1>4, <2>1, <2>2 DEF StreamInv
<1> QED BY <1>2, <1>3, <1>5, <1>6, <1>7, <1>8 DEF StreamNext, StreamStep

(* For the stream an export is a pause, and so is every step of it.        *)
LEMMA ReaderStep_Stream == ReaderNext => [StreamNext]_streamVars
<1> SUFFICES ASSUME ReaderNext PROVE [StreamNext]_streamVars
  OBVIOUS
<1>1. Watched \in Jobs
  BY StreamAssumption
<1>2. CASE JobMoves
  <2>1. LifeNext
    BY <1>1, <1>2 DEF JobMoves, StoreResult, LifeNext
  <2> QED BY <1>2, <2>1 DEF JobMoves, JobStep, StreamNext
<1>3. CASE StreamClient \/ StreamTurn
  BY <1>3 DEF StreamClient, StreamTurn, StreamNext
<1>4. CASE (\E what \in {"results", "dead-letter"} : FirstPage(what)) \/ NextPage
           \/ ExportFails
  BY <1>4 DEF FirstPage, NextPage, ExportFails
<1> QED BY <1>2, <1>3, <1>4 DEF ReaderNext

(* The invariant along the behaviours of the readers.                      *)
LEMMA ReaderKeepsStream ==
  StreamInv /\ [ReaderNext]_readerVars => StreamInv'
<1>1. UNCHANGED readerVars => UNCHANGED streamVars
  BY DEF readerVars, streamVars
<1> QED BY <1>1, ReaderStep_Stream, StreamStep_Inv

-----------------------------------------------------------------------------
(***************************************************************************)
(* No job ever gets more answers than it has prompts, and the generator's  *)
(* position never leaves the range of the counter, with the answers of     *)
(* cancelled jobs, other jobs and exports going on around it.              *)
(***************************************************************************)
THEOREM StreamTypes == ReaderSpec => []StreamTypeOK
<1>1. PageInit => StreamInv
  BY StreamInit_Inv DEF PageInit
<1>2. StreamInv => StreamTypeOK
  BY DEF StreamInv, LivesOK, LifeOK, GeneratorOK, StreamTypeOK
<1> QED BY <1>1, <1>2, ReaderKeepsStream, PTL DEF ReaderSpec

(***************************************************************************)
(* A stream is never wrong about the end: the terminal event carries the   *)
(* name of the state the job is in, now and for good.                      *)
(***************************************************************************)
THEOREM FinalNameStaysTrue == ReaderSpec => []FinalNameIsTrue
<1>1. PageInit => StreamInv
  BY StreamInit_Inv DEF PageInit
<1>2. StreamInv => FinalNameIsTrue
  BY DEF StreamInv, GeneratorOK, FinalNameIsTrue
<1> QED BY <1>1, <1>2, ReaderKeepsStream, PTL DEF ReaderSpec

-----------------------------------------------------------------------------
(* Sorting.                                                                *)

(* Sets of prompts can be counted.                                         *)
LEMMA SeqSets ==
  ASSUME NEW S \in SUBSET Seqs
  PROVE  IsFiniteSet(S) /\ Cardinality(S) \in Nat /\ S \subseteq Nat
<1>1. MaxBatch \in Nat /\ Seqs = 0..(MaxBatch - 1)
  BY StreamAssumption DEF Seqs
<1>2. IsFiniteSet(Seqs)
  BY <1>1, FS_Interval
<1>3. IsFiniteSet(S)
  BY <1>2, FS_Subset
<1> QED BY <1>1, <1>3, FS_CardinalityType

(* The rank of an element says how many come before it, so it tells the    *)
(* elements apart.                                                         *)
LEMMA RankFacts ==
  ASSUME NEW S \in SUBSET Seqs
  PROVE  /\ \A s \in S : Rank(S, s) \in 0..(Cardinality(S) - 1)
         /\ \A s, t \in S : Rank(S, s) = Rank(S, t) => s = t
<1>1. ASSUME NEW s \in S, NEW T \in SUBSET S, s \in T, \A t \in S : t < s => t \in T
      PROVE  Rank(S, s) \in Nat /\ Rank(S, s) < Cardinality(T) /\ Cardinality(T) \in Nat
  <2> DEFINE L == {t \in S : t < s}
  <2>1. L \in SUBSET Seqs /\ T \in SUBSET Seqs /\ s \notin L /\ L \cup {s} \subseteq T
    BY <1>1, SeqSets
  <2>2. /\ IsFiniteSet(L) /\ Cardinality(L) \in Nat
        /\ IsFiniteSet(T) /\ Cardinality(T) \in Nat
    BY <2>1, SeqSets
  <2> HIDE DEF L
  <2>3. Cardinality(L \cup {s}) = Cardinality(L) + 1
    BY <2>1, <2>2, FS_AddElement
  <2>4. Cardinality(L \cup {s}) <= Cardinality(T)
    BY <2>1, <2>2, FS_Subset
  <2>5. Cardinality(L) < Cardinality(T)
    BY <2>2, <2>3, <2>4
  <2> QED BY <2>2, <2>5 DEF L, Rank
<1>2. \A s \in S : Rank(S, s) \in 0..(Cardinality(S) - 1)
  BY <1>1
<1>3. ASSUME NEW s \in S, NEW t \in S, s < t PROVE Rank(S, s) < Rank(S, t)
  <2> DEFINE T == {u \in S : u < t}
  <2>1. T \in SUBSET S /\ s \in T /\ \A u \in S : u < s => u \in T
    BY <1>3, SeqSets
  <2> HIDE DEF T
  <2>2. Rank(S, s) < Cardinality(T)
    BY <1>1, <2>1
  <2> QED BY <2>2 DEF T, Rank
<1>4. ASSUME NEW s \in S, NEW t \in S, Rank(S, s) = Rank(S, t) PROVE s = t
  <2>1. s \in Nat /\ t \in Nat /\ Rank(S, s) \in Nat /\ Rank(S, t) \in Nat
    BY <1>2, SeqSets
  <2> QED BY <1>3, <1>4, <2>1
<1> QED BY <1>2, <1>4

(* Every position up to the number of elements is the rank of one.         *)
LEMMA RankOnto ==
  ASSUME NEW S \in SUBSET Seqs, NEW i \in 1..Cardinality(S)
  PROVE  \E s \in S : Rank(S, s) = i - 1
<1> DEFINE n == Cardinality(S)
           f == [s \in S |-> Rank(S, s)]
           T == 0..(n - 1)
<1>1. IsFiniteSet(S) /\ n \in Nat
  BY SeqSets
<1>2. IsFiniteSet(T) /\ Cardinality(T) = n
  <2>1. /\ IsFiniteSet(T)
        /\ Cardinality(T) = IF 0 > n - 1 THEN 0 ELSE (n - 1) - 0 + 1
    <3> HIDE DEF n
    <3>1. n - 1 \in Int /\ 0 \in Int
      BY <1>1
    <3> QED BY <3>1, FS_Interval
  <2> HIDE DEF n, T
  <2> QED BY <1>1, <2>1
<1>3. f \in Injection(S, T)
  <2>1. f \in [S -> T] /\ \A s, t \in S : f[s] = f[t] => s = t
    BY RankFacts
  <2> HIDE DEF f, T
  <2> QED BY <2>1 DEF Injection, IsInjective
<1>4. f \in Surjection(S, T)
  <2> HIDE DEF f, T, n
  <2>1. Cardinality(S) = Cardinality(T)
    BY <1>2 DEF n
  <2> QED BY <1>2, <1>3, <2>1, FS_Injection
<1>5. i - 1 \in T
  BY <1>1
<1>6. \E s \in S : f[s] = i - 1
  <2> HIDE DEF f, T
  <2> QED BY <1>4, <1>5 DEF Surjection
<1> QED BY <1>6

(* sorted() has every element of the set, at the position of its rank.     *)
LEMMA SortedFacts ==
  ASSUME NEW S \in SUBSET Seqs
  PROVE  /\ sorted(S) \in Seq(Seqs) /\ Len(sorted(S)) = Cardinality(S)
         /\ \A i \in 1..Cardinality(S) :
              sorted(S)[i] \in S /\ Rank(S, sorted(S)[i]) = i - 1
         /\ \A s \in S : /\ Rank(S, s) + 1 \in 1..Cardinality(S)
                         /\ sorted(S)[Rank(S, s) + 1] = s
         /\ Elements(sorted(S)) = S
<1> DEFINE n == Cardinality(S)
           q == sorted(S)
<1>1. n \in Nat /\ IsFiniteSet(S)
  BY SeqSets
<1>2. \A i \in 1..n : q[i] \in S /\ Rank(S, q[i]) = i - 1
  <2> SUFFICES ASSUME NEW i \in 1..n PROVE q[i] \in S /\ Rank(S, q[i]) = i - 1
    OBVIOUS
  <2>1. q[i] = CHOOSE s \in S : Rank(S, s) = i - 1
    BY DEF sorted
  <2> QED BY <2>1, RankOnto
<1>3. q = [i \in 1..n |-> q[i]]
  BY DEF sorted
<1> HIDE DEF q
<1>4. q \in Seq(Seqs) /\ Len(q) = n
  <2>1. q \in [1..n -> Seqs]
    BY <1>2, <1>3
  <2> QED BY <1>1, <2>1
<1>5. \A s \in S : Rank(S, s) + 1 \in 1..n /\ q[Rank(S, s) + 1] = s
  <2> SUFFICES ASSUME NEW s \in S
               PROVE  Rank(S, s) + 1 \in 1..n /\ q[Rank(S, s) + 1] = s
    OBVIOUS
  <2> DEFINE r == Rank(S, s)
             k == r + 1
  <2>1. r \in 0..(n - 1)
    BY RankFacts
  <2>2. k \in 1..n /\ k - 1 = r
    <3> HIDE DEF r, n
    <3> QED BY <1>1, <2>1
  <2> HIDE DEF k
  <2>3. q[k] \in S /\ Rank(S, q[k]) = k - 1
    BY <1>2, <2>2
  <2>4. q[k] = s
    BY <2>2, <2>3, RankFacts
  <2> QED BY <2>2, <2>4 DEF k
<1>6. Elements(q) = S
  BY <1>2, <1>4, <1>5 DEF Elements
<1> QED BY <1>2, <1>4, <1>5, <1>6 DEF q

-----------------------------------------------------------------------------
(* Paging.                                                                 *)

(* What has been read together with the page from there to position e.     *)
GoesOn(S, B, read, at, e) ==
  LET page == SubSeq(sorted(S), at + 1, e)
      more == read \o page
  IN  /\ Len(page) = e - at /\ more \in Seq(Seqs)
      /\ Reading(S, B, more, e) /\ Elements(more) \subseteq S
      /\ e = Cardinality(S) => B \subseteq Elements(more)
      /\ read = SubSeq(sorted(S), 1, at) => /\ more = SubSeq(sorted(S), 1, e)
                                            /\ e = Cardinality(S) => more = sorted(S)

(* A page that goes on from where the last one ended leaves no gap.        *)
LEMMA PageFacts ==
  ASSUME NEW S \in SUBSET Seqs, NEW B, NEW read \in Seq(Seqs), NEW at \in Nat,
         Reading(S, B, read, at), B \subseteq S, Elements(read) \subseteq S,
         NEW e \in at..Cardinality(S)
  PROVE  GoesOn(S, B, read, at, e)
<1> DEFINE n == Cardinality(S)
           q == sorted(S)
           page == SubSeq(q, at + 1, e)
           more == read \o page
<1>1. /\ q \in Seq(Seqs) /\ Len(q) = n /\ n \in Nat
      /\ \A i \in 1..n : q[i] \in S
      /\ \A s \in S : Rank(S, s) + 1 \in 1..n /\ q[Rank(S, s) + 1] = s
  BY SortedFacts, SeqSets
<1>2. Len(read) = at /\ \A s \in B : Rank(S, s) < at => s \in Elements(read)
  BY DEF Reading
<1>3. \A s \in S : Rank(S, s) \in Nat /\ Rank(S, s) < n
  BY SeqSets, RankFacts
<1> HIDE DEF n, q
<1>4. e \in Nat /\ at <= e /\ e <= n
  BY <1>1 DEF n
<1>5. /\ page \in Seq(S) /\ page \in Seq(Seqs) /\ Len(page) = e - at
      /\ \A i \in 1..(e - at) : page[i] = q[at + i]
  <2>1. at + 1 \in Int /\ e \in Int /\ \A i \in (at + 1)..e : q[i] \in S
    BY <1>1, <1>4
  <2>2. /\ page \in Seq(S)
        /\ Len(page) = IF at + 1 <= e THEN e - (at + 1) + 1 ELSE 0
        /\ \A i \in 1..(e - (at + 1) + 1) : page[i] = q[at + 1 + i - 1]
    BY <2>1, SubSeqProperties
  <2>3. /\ page \in Seq(Seqs)
    <3>1. \A i \in (at + 1)..e : q[i] \in Seqs
      BY <2>1
    <3> QED BY <2>1, <3>1, SubSeqProperties
  <2> HIDE DEF page
  <2> QED BY <1>4, <2>2, <2>3
<1> HIDE DEF page
<1>6. /\ more \in Seq(Seqs) /\ Len(more) = e
      /\ \A i \in 1..e : more[i] = IF i <= at THEN read[i] ELSE page[i - at]
  <2>1. /\ more \in Seq(Seqs) /\ Len(more) = Len(read) + Len(page)
        /\ \A i \in 1..(Len(read) + Len(page)) :
             more[i] = IF i <= Len(read) THEN read[i] ELSE page[i - Len(read)]
    BY <1>5, ConcatProperties
  <2> HIDE DEF more
  <2>2. Len(read) + Len(page) = e
    BY <1>2, <1>4, <1>5
  <2> QED BY <1>2, <2>1, <2>2
<1> HIDE DEF more
<1>0. ASSUME NEW i \in 1..e, i > at PROVE more[i] = q[i]
  <2> DEFINE j == i - at
  <2>1. i \in Int
    OBVIOUS
  <2>2. j \in Int /\ 1 <= j /\ j <= e - at /\ at + j = i
    BY <1>0, <1>4, <2>1
  <2>3. more[i] = page[j]
    BY <1>0, <1>6, <2>1
  <2> HIDE DEF j
  <2>4. j \in 1..(e - at)
    BY <1>4, <2>2
  <2> QED BY <1>5, <2>2, <2>3, <2>4
<1>7. ASSUME NEW i \in 1..e PROVE more[i] \in S
  <2>1. CASE i <= at
    BY <1>2, <1>6, <2>1 DEF Elements
  <2>2. CASE i > at
    BY <1>0, <1>1, <1>4, <2>2
  <2> QED BY <1>4, <2>1, <2>2
<1>8. Elements(more) \subseteq S
  BY <1>6, <1>7 DEF Elements
<1>9. ASSUME NEW s \in B, Rank(S, s) < e PROVE s \in Elements(more)
  <2> DEFINE k == Rank(S, s) + 1
  <2>1. Rank(S, s) \in Nat /\ k \in 1..e /\ q[k] = s
    BY <1>1, <1>3, <1>4, <1>9
  <2>2. CASE Rank(S, s) < at
    <3>1. s \in Elements(read)
      BY <1>2, <2>2
    <3>2. PICK i \in 1..at : read[i] = s
      BY <1>2, <3>1 DEF Elements
    <3>3. i \in 1..e /\ more[i] = s
      BY <1>4, <1>6, <3>2
    <3> QED BY <1>6, <3>3 DEF Elements
  <2>3. CASE ~(Rank(S, s) < at)
    <3> HIDE DEF k
    <3>1. k > at
      BY <2>1, <2>3 DEF k
    <3>2. more[k] = s
      BY <1>0, <2>1, <3>1
    <3> QED BY <1>6, <2>1, <3>2 DEF Elements
  <2> QED BY <2>2, <2>3
<1>10. Reading(S, B, more, e)
  BY <1>4, <1>6, <1>9 DEF Reading, n
<1>11. e = n => B \subseteq Elements(more)
  BY <1>3, <1>9
<1>12. ASSUME read = SubSeq(q, 1, at)
       PROVE  more = SubSeq(q, 1, e) /\ (e = n => more = q)
  <2>1. 1 \in 1..(Len(q) + 1) /\ at \in (1 - 1)..Len(q) /\ e \in at..Len(q)
    BY <1>1, <1>4
  <2>2. more = SubSeq(q, 1, e)
    BY <1>1, <1>12, <2>1, ConcatAdjacentSubSeq DEF more, page
  <2>3. SubSeq(q, 1, Len(q)) = q
    BY <1>1, SubSeqFull
  <2> QED BY <1>1, <2>2, <2>3
<1>13. /\ Len(page) = e - at /\ more \in Seq(Seqs)
       /\ Reading(S, B, more, e) /\ Elements(more) \subseteq S
       /\ e = n => B \subseteq Elements(more)
       /\ read = SubSeq(q, 1, at) =>
            /\ more = SubSeq(q, 1, e)
            /\ e = n => more = q
  BY <1>5, <1>6, <1>8, <1>10, <1>11, <1>12
<1> QED BY <1>13 DEF n, q, page, more, GoesOn

(* What the endpoints list is the sorted set of the results there are.     *)
LEMMA ListedIsSorted ==
  ASSUME NEW what \in {"results", "dead-letter"}
  PROVE  /\ Have(what) \in SUBSET Seqs
         /\ Listed(what) = sorted(Have(what))
<1>1. CASE what = "results"
  <2>1. Have(what) = {s \in Seqs : results[s] # "none"}
    BY <1>1 DEF Have
  <2> QED BY <1>1, <2>1 DEF Listed, ordered_results
<1>2. CASE what = "dead-letter"
  <2>1. Have(what) = {s \in Seqs : results[s] = "error"}
    BY <1>2 DEF Have
  <2> QED BY <1>2, <2>1 DEF Listed, dead_letter
<1> QED BY <1>1, <1>2

(* A job lists no more results than it has prompts.                        *)
LEMMA ListedIsBounded ==
  ASSUME NEW what \in {"results", "dead-letter"}, LivesOK, ResultsOK
  PROVE  /\ snapshot.total \in Nat /\ Cardinality(Have(what)) \in Nat
         /\ Cardinality(Have(what)) <= snapshot.total
<1> DEFINE S == Have(what)
           t == snapshot.total
           P == 0..(t - 1)
<1>1. t \in Nat
  <2>1. MaxBatch \in Nat /\ life[Watched] \in Snapshots
    BY StreamAssumption DEF LivesOK
  <2> QED BY <2>1 DEF Snapshots, snapshot
<1>2. S \in SUBSET Seqs /\ Cardinality(S) \in Nat /\ IsFiniteSet(S)
  BY ListedIsSorted, SeqSets
<1>3. S \subseteq P
  <2> SUFFICES ASSUME NEW s \in S PROVE s \in P
    OBVIOUS
  <2>1. s \in Nat /\ s \in Seqs
    BY <1>2, SeqSets
  <2>2. results[s] # "none"
    BY DEF Have
  <2>3. s < t
    BY <2>1, <2>2 DEF ResultsOK
  <2> HIDE DEF t
  <2> QED BY <1>1, <2>1, <2>3
<1> HIDE DEF S, t
<1>4. IsFiniteSet(P) /\ Cardinality(P) = t
  <2>1. 0 \in Int /\ t - 1 \in Int
    BY <1>1
  <2>2. IsFiniteSet(P) /\ Cardinality(P) = IF 0 > t - 1 THEN 0 ELSE (t - 1) - 0 + 1
    BY <2>1, FS_Interval
  <2> HIDE DEF P
  <2> QED BY <1>1, <2>2
<1>5. Cardinality(S) <= Cardinality(P)
  BY <1>3, <1>4, FS_Subset
<1> QED BY <1>1, <1>2, <1>4, <1>5 DEF S, t

(***************************************************************************)
(* One request.  S is what the listing shows, B a part of it that was      *)
(* there at the first request.  A full page lets the export go on without  *)
(* a gap; a short one, or the last prompt of the batch, ends it with all   *)
(* of B; and if nothing changed since the first request the pages are the  *)
(* listing itself.                                                         *)
(***************************************************************************)
LEMMA FetchFacts ==
  ASSUME NEW what \in {"results", "dead-letter"}, LivesOK, ResultsOK,
         NEW S, S = Have(what), NEW B, B \subseteq S,
         offset \in Nat, all \in Seq(Seqs), Elements(all) \subseteq S,
         Reading(S, B, all, offset), Fetch(what)
  PROVE  /\ reader' \in {"reading", "saved"}
         /\ offset' \in Nat /\ offset' <= snapshot.total + PageSize
         /\ all' \in Seq(Seqs) /\ Elements(all') \subseteq S
         /\ reader' = "reading" => Reading(S, B, all', offset')
         /\ reader' = "saved" => B \subseteq Elements(all')
         /\ all = SubSeq(sorted(S), 1, offset) =>
              ExactSoFar(S, all', offset', reader')
<1> DEFINE q == sorted(S)
           n == Cardinality(S)
           t == snapshot.total
           e == IF offset + PageSize <= Len(q) THEN offset + PageSize ELSE Len(q)
           page == SubSeq(q, offset + 1, e)
           read == all \o page
<1>1. /\ S \in SUBSET Seqs /\ Listed(what) = q
      /\ t \in Nat /\ n \in Nat /\ n <= t /\ Len(q) = n
  BY ListedIsSorted, ListedIsBounded, SortedFacts
<1>2. /\ all' = read /\ offset' = offset + PageSize
      /\ reader' = IF Complete(what, page, read) THEN "saved" ELSE "reading"
  BY <1>1 DEF Fetch, Page
<1>3. PageSize \in Nat \ {0} /\ Len(all) = offset /\ offset <= n
  BY PageAssumption DEF Reading
<1> HIDE DEF q, n, t, page, read
<1>4. /\ e \in Nat /\ offset <= e /\ e <= n /\ e <= offset + PageSize
      /\ e # n => e = offset + PageSize
  BY <1>1, <1>3
<1> HIDE DEF e
<1>5. /\ Len(page) = e - offset /\ read \in Seq(Seqs)
      /\ Reading(S, B, read, e) /\ Elements(read) \subseteq S
      /\ e = n => B \subseteq Elements(read)
      /\ all = SubSeq(q, 1, offset) => /\ read = SubSeq(q, 1, e)
                                       /\ e = n => read = q
  <2>1. e \in offset..Cardinality(S)
    BY <1>1, <1>4 DEF n
  <2>2. S \in SUBSET Seqs
    BY <1>1
  <2>3. GoesOn(S, B, all, offset, e)
    BY <2>1, <2>2, PageFacts
  <2> QED BY <2>3 DEF GoesOn, q, n, page, read
<1>6. Len(read) = e
  BY <1>5 DEF Reading
<1>7. CASE Complete(what, page, read)
  <2>1. Len(page) < PageSize \/ Len(read) >= t
    BY <1>7 DEF Complete, t
  <2>2. e = n
    BY <1>1, <1>3, <1>4, <1>5, <1>6, <2>1
  <2>3. reader' = "saved" /\ offset' \in Nat /\ offset' <= t + PageSize
    BY <1>1, <1>2, <1>3, <1>7
  <2>4. all = SubSeq(q, 1, offset) => ExactSoFar(S, all', offset', reader')
    BY <1>2, <1>5, <2>2, <2>3 DEF ExactSoFar, q
  <2> QED BY <1>2, <1>5, <2>2, <2>3, <2>4 DEF q, t
<1>8. CASE ~Complete(what, page, read)
  <2>1. ~(Len(page) < PageSize)
    BY <1>8 DEF Complete
  <2>2. e = offset + PageSize
    BY <1>3, <1>4, <1>5, <2>1
  <2>3. reader' = "reading" /\ offset' = e /\ offset' <= t + PageSize
    BY <1>1, <1>2, <1>3, <1>8, <2>2
  <2>4. all = SubSeq(q, 1, offset) => ExactSoFar(S, all', offset', reader')
    BY <1>2, <1>5, <2>3 DEF ExactSoFar, q
  <2> QED BY <1>2, <1>4, <1>5, <2>3, <2>4 DEF q, t
<1> QED BY <1>7, <1>8

(* A larger listing: nothing moves forward, and what is behind the offset  *)
(* was behind it before.                                                   *)
LEMMA ReadingGrows ==
  ASSUME NEW T \in SUBSET Seqs, NEW S \in SUBSET T, NEW B, B \subseteq S,
         NEW read, NEW at \in Nat, Reading(S, B, read, at)
  PROVE  Reading(T, B, read, at)
<1>1. /\ Cardinality(S) \in Nat /\ Cardinality(T) \in Nat
      /\ IsFiniteSet(T) /\ T \subseteq Nat /\ S \in SUBSET Seqs
  BY SeqSets
<1>2. Cardinality(S) <= Cardinality(T)
  BY <1>1, FS_Subset
<1>3. ASSUME NEW s \in B, Rank(T, s) < at PROVE s \in Elements(read)
  <2> DEFINE L == {t \in S : t < s}
             U == {t \in T : t < s}
  <2>1. U \in SUBSET Seqs /\ L \in SUBSET Seqs /\ L \subseteq U
    BY <1>1
  <2>2. IsFiniteSet(U) /\ Cardinality(U) \in Nat /\ Cardinality(L) \in Nat
    BY <2>1, SeqSets
  <2> HIDE DEF L, U
  <2>3. Cardinality(L) <= Cardinality(U)
    BY <2>1, <2>2, FS_Subset
  <2>4. Rank(S, s) = Cardinality(L) /\ Rank(T, s) = Cardinality(U)
    BY DEF Rank, L, U
  <2>5. Rank(S, s) < at
    BY <1>3, <2>2, <2>3, <2>4
  <2> QED BY <2>5 DEF Reading
<1>4. Len(read) = at /\ at <= Cardinality(T)
  BY <1>1, <1>2 DEF Reading
<1> QED BY <1>3, <1>4 DEF Reading

(* What a job does between two requests: its size is settled when it is    *)
(* accepted, and a completed job stays as it is.                           *)
LEMMA WatchedMoves ==
  ASSUME LivesOK, ResultsOK, JobMoves
  PROVE  /\ snapshot.total \in Nat /\ snapshot'.total \in Nat
         /\ snapshot.total <= snapshot'.total
         /\ snapshot'.state = "none" => snapshot'.total = 0
         /\ snapshot.state = "completed" =>
              snapshot'.state = "completed" /\ results' = results
         /\ LivesOK'
<1> DEFINE l == life[Watched]
           m == life'[Watched]
<1>1. /\ Watched \in Jobs /\ MaxBatch \in Nat /\ life \in [Jobs -> Snapshots]
      /\ LifeOK(l) /\ l.total \in 0..MaxBatch
      /\ l.state = "none" => l.total = 0
  BY StreamAssumption DEF LivesOK, LifeOK, Snapshots, ResultsOK, snapshot
<1>2. LifeNext
  BY <1>1 DEF JobMoves, StoreResult, LifeNext
<1>3. LivesOK' /\ (l.state \in terminal => m.state = l.state)
  BY <1>1, <1>2, LifeSteps
<1>4. m.total \in 0..MaxBatch
  BY <1>1, <1>3 DEF LivesOK, Snapshots
<1>5. CASE \E j \in Jobs, n \in 1..MaxBatch : Accept(j, n) /\ UNCHANGED results
  <2>1. PICK j \in Jobs, n \in 1..MaxBatch : Accept(j, n) /\ UNCHANGED results
    BY <1>5
  <2>2. CASE j = Watched
    <3>1. l.state = "none" /\ m.state = "running"
      BY <1>1, <2>1, <2>2 DEF Accept, NoLife
    <3> QED BY <1>1, <1>3, <1>4, <3>1 DEF snapshot
  <2>3. CASE j # Watched
    <3>1. m = l
      BY <1>1, <2>1, <2>3 DEF Accept
    <3> QED BY <1>1, <1>3, <2>1, <3>1 DEF snapshot
  <2> QED BY <2>2, <2>3
<1>6. CASE \E S \in SUBSET Jobs : Cancel(S) /\ UNCHANGED results
  <2>1. PICK S \in SUBSET Jobs : Cancel(S) /\ UNCHANGED results
    BY <1>6
  <2>2. CASE Watched \in S
    <3>1. l.state = "running" /\ m = [l EXCEPT !.state = "cancelled"]
      BY <1>1, <2>1, <2>2 DEF Cancel
    <3>2. m.state = "cancelled" /\ m.total = l.total
      BY <1>1, <3>1 DEF LifeOK, Snapshots
    <3> QED BY <1>1, <1>3, <3>1, <3>2 DEF snapshot
  <2>3. CASE Watched \notin S
    <3>1. m = l
      BY <1>1, <2>1, <2>3 DEF Cancel
    <3> QED BY <1>1, <1>3, <2>1, <3>1 DEF snapshot
  <2> QED BY <2>2, <2>3
<1>7. CASE \E ok \in BOOLEAN : StoreResult(ok)
  <2>1. PICK ok \in BOOLEAN : StoreResult(ok)
    BY <1>7
  <2>2. /\ l.state \in {"running", "cancelled"} /\ l.completed < l.total
        /\ m = Answered(l, ok)
    BY <1>1, <2>1 DEF StoreResult, Answer
  <2>3. m.state # "none" /\ m.total = l.total
    BY <1>1, <2>2, AnsweredOK
  <2> QED BY <1>1, <1>3, <2>2, <2>3 DEF snapshot
<1> QED BY <1>5, <1>6, <1>7 DEF JobMoves

(* Results are only added, each below the size of the job.                 *)
LEMMA ResultsMove ==
  ASSUME LivesOK, ResultsOK, JobMoves
  PROVE  /\ ResultsOK'
         /\ \A s \in Seqs : results[s] # "none" => results'[s] = results[s]
<1>1. /\ snapshot.total \in Nat /\ snapshot'.total \in Nat
      /\ snapshot.total <= snapshot'.total
      /\ snapshot'.state = "none" => snapshot'.total = 0
  BY WatchedMoves
<1>2. /\ results \in [Seqs -> {"none", "ok", "error"}]
      /\ \A s \in Seqs : results[s] # "none" => s < snapshot.total
      /\ Seqs \subseteq Nat
  BY SeqSets DEF ResultsOK
<1>3. CASE UNCHANGED results
  BY <1>1, <1>2, <1>3 DEF ResultsOK
<1>4. CASE \E ok \in BOOLEAN : StoreResult(ok)
  <2>1. PICK ok \in BOOLEAN : StoreResult(ok)
    BY <1>4
  <2>2. PICK s \in 0..(snapshot.total - 1) :
          /\ results[s] = "none"
          /\ results' = [results EXCEPT ![s] = IF ok THEN "ok" ELSE "error"]
    BY <2>1 DEF StoreResult
  <2>3. results' \in [Seqs -> {"none", "ok", "error"}]
    BY <1>2, <2>2
  <2>4. \A u \in Seqs : results[u] # "none" => results'[u] = results[u]
    BY <1>2, <2>2
  <2>5. \A u \in Seqs : results'[u] # "none" => u < snapshot'.total
    <3> SUFFICES ASSUME NEW u \in Seqs, results'[u] # "none"
                 PROVE  u < snapshot'.total
      OBVIOUS
    <3>1. u \in Nat
      BY <1>2
    <3>2. CASE u = s
      BY <1>1, <2>2, <3>1, <3>2
    <3>3. CASE u # s
      <4>1. results'[u] = results[u]
        BY <1>2, <2>2, <3>3
      <4>2. u < snapshot.total
        BY <1>2, <4>1
      <4> QED BY <1>1, <3>1, <4>2
    <3> QED BY <3>2, <3>3
  <2> QED BY <1>1, <2>3, <2>4, <2>5 DEF ResultsOK
<1> QED BY <1>3, <1>4 DEF JobMoves

-----------------------------------------------------------------------------
(* Nothing is read at first, and there is nothing to read.                 *)
LEMMA PageInit_Inv == PageInit => PagesInv
<1> SUFFICES ASSUME PageInit PROVE PagesInv
  OBVIOUS
<1>1. /\ StreamInv /\ PageSize \in Nat /\ Watched \in Jobs
  BY StreamInit_Inv, PageAssumption, StreamAssumption DEF PageInit
<1>2. snapshot.state = "none" /\ snapshot.total = 0
  BY <1>1 DEF PageInit, StreamInit, LifeInit, NoLife, snapshot
<1>3. /\ results = [s \in Seqs |-> "none"]
      /\ reader = "idle" /\ listing = "results" /\ offset = 0 /\ all = <<>>
      /\ begun.items = {} /\ begun.state = "none"
  BY DEF PageInit
<1>4. ResultsOK
  BY <1>2, <1>3 DEF ResultsOK
<1>5. all \in Seq(Seqs) /\ Elements(all) = {}
  BY <1>3 DEF Elements
<1>6. ExportTypes
  BY <1>1, <1>2, <1>3, <1>5 DEF ExportTypes
<1>7. ExportOK
  BY <1>3, <1>6 DEF ExportOK
<1> QED BY <1>1, <1>4, <1>7 DEF PagesInv

(* A step of the stream is none of the export.                             *)
LEMMA ExportRests ==
  ASSUME ResultsOK, ExportOK, UNCHANGED <<life, pageVars>>
  PROVE  ResultsOK' /\ ExportOK'
<1>1. /\ snapshot' = snapshot /\ results' = results /\ reader' = reader
      /\ listing' = listing /\ offset' = offset /\ all' = all /\ begun' = begun
  BY DEF snapshot, pageVars
<1>2. ResultsOK'
  BY <1>1 DEF ResultsOK
<1>3. Have(listing)' = Have(listing)
  BY <1>1 DEF Have
<1>4. ExportTypes'
  BY <1>1, <1>3 DEF ExportOK, ExportTypes, Elements
<1>5. ExportOK'
  BY <1>1, <1>3, <1>4 DEF ExportOK
<1> QED BY <1>2, <1>5

(* The first request starts from an empty export.                          *)
LEMMA FirstPageKeeps ==
  ASSUME LivesOK, ResultsOK, ExportOK,
         NEW what \in {"results", "dead-letter"}, FirstPage(what)
  PROVE  ResultsOK' /\ ExportOK'
<1> DEFINE S == Have(what)
<1>1. /\ offset = 0 /\ all = <<>> /\ Fetch(what) /\ listing' = what
      /\ begun'.items = Elements(Listed(what)) /\ begun'.state = snapshot.state
      /\ results' = results /\ snapshot' = snapshot
  BY DEF FirstPage, ExportOK, ExportTypes, streamVars, snapshot
<1>2. S \in SUBSET Seqs /\ begun'.items = S
  BY <1>1, ListedIsSorted, SortedFacts
<1>3. Have(listing)' = S
  BY <1>1 DEF Have
<1> HIDE DEF S
<1>4. all \in Seq(Seqs) /\ Elements(all) = {} /\ Len(all) = 0 /\ offset \in Nat
  BY <1>1 DEF Elements
<1>5. Reading(S, S, all, offset)
  <2>1. Cardinality(S) \in Nat /\ \A s \in S : Rank(S, s) \in 0..(Cardinality(S) - 1)
    BY <1>2, SeqSets, RankFacts
  <2>2. \A s \in S : ~(Rank(S, s) < 0)
    BY <2>1
  <2> QED BY <1>1, <1>4, <2>1, <2>2 DEF Reading
<1>6. all = SubSeq(sorted(S), 1, offset)
  BY <1>1, SubSeqEmpty
<1>7. /\ reader' \in {"reading", "saved"}
      /\ offset' \in Nat /\ offset' <= snapshot.total + PageSize
      /\ all' \in Seq(Seqs) /\ Elements(all') \subseteq S
      /\ reader' = "reading" => Reading(S, S, all', offset')
      /\ reader' = "saved" => S \subseteq Elements(all')
      /\ ExactSoFar(S, all', offset', reader')
  <2>1. S = Have(what) /\ S \subseteq S /\ Elements(all) \subseteq S
    BY <1>4 DEF S
  <2> QED BY <1>1, <1>4, <1>5, <1>6, <2>1, FetchFacts
<1>8. ResultsOK'
  BY <1>1 DEF ResultsOK
<1>9. ExportTypes'
  <2>1. Elements(all)' = Elements(all')
    BY DEF Elements
  <2> QED BY <1>1, <1>2, <1>3, <1>7, <2>1 DEF ExportTypes
<1>10. ExportOK'
  <2>1. Elements(all)' = Elements(all')
    BY DEF Elements
  <2> QED BY <1>1, <1>2, <1>3, <1>7, <1>9, <2>1 DEF ExportOK
<1> QED BY <1>8, <1>10

(* The next request goes on where the last one ended.                      *)
LEMMA NextPageKeeps ==
  ASSUME LivesOK, ResultsOK, ExportOK, NextPage
  PROVE  ResultsOK' /\ ExportOK'
<1> DEFINE S == Have(listing)
           B == begun.items
<1>1. /\ reader = "reading" /\ Fetch(listing) /\ listing' = listing
      /\ begun' = begun /\ results' = results /\ snapshot' = snapshot
  BY DEF NextPage, streamVars, snapshot
<1>2. /\ listing \in {"results", "dead-letter"} /\ B \subseteq S
      /\ offset \in Nat /\ all \in Seq(Seqs) /\ Elements(all) \subseteq S
      /\ Reading(S, B, all, offset)
      /\ begun.state = "completed" =>
           snapshot.state = "completed" /\ all = SubSeq(sorted(S), 1, offset)
  BY <1>1 DEF ExportOK, ExportTypes, ExactSoFar
<1>3. Have(listing)' = S
  BY <1>1 DEF Have
<1>4. /\ reader' \in {"reading", "saved"}
      /\ offset' \in Nat /\ offset' <= snapshot.total + PageSize
      /\ all' \in Seq(Seqs) /\ Elements(all') \subseteq S
      /\ reader' = "reading" => Reading(S, B, all', offset')
      /\ reader' = "saved" => B \subseteq Elements(all')
      /\ all = SubSeq(sorted(S), 1, offset) => ExactSoFar(S, all', offset', reader')
  <2>1. S = Have(listing)
    OBVIOUS
  <2> HIDE DEF S, B
  <2> QED BY <1>1, <1>2, <2>1, FetchFacts
<1>5. ResultsOK'
  BY <1>1 DEF ResultsOK
<1> HIDE DEF S
<1>6. Elements(all)' = Elements(all')
  BY DEF Elements
<1>7. ExportTypes'
  BY <1>1, <1>2, <1>3, <1>4, <1>6 DEF ExportTypes
<1>8. ExportOK'
  BY <1>1, <1>2, <1>3, <1>4, <1>6, <1>7 DEF ExportOK
<1> QED BY <1>5, <1>8

(* Results that arrive during an export do not hide what was there.        *)
LEMMA JobMovesKeeps ==
  ASSUME LivesOK, ResultsOK, ExportOK, JobMoves
  PROVE  ResultsOK' /\ ExportOK'
<1> DEFINE S == Have(listing)
           T == {s \in Seqs : IF listing = "results" THEN results'[s] # "none"
                              ELSE results'[s] = "error"}
           B == begun.items
<1>1. /\ reader' = reader /\ listing' = listing /\ offset' = offset
      /\ all' = all /\ begun' = begun
  BY DEF JobMoves
<1>2. /\ ResultsOK'
      /\ \A s \in Seqs : results[s] # "none" => results'[s] = results[s]
  BY ResultsMove
<1>3. /\ snapshot.total \in Nat /\ snapshot'.total \in Nat
      /\ snapshot.total <= snapshot'.total
      /\ snapshot.state = "completed" =>
           snapshot'.state = "completed" /\ results' = results
  BY WatchedMoves
<1>4. Have(listing)' = T /\ T \in SUBSET Seqs
  BY <1>1 DEF Have
<1>5. S \subseteq T
  BY <1>2 DEF Have
<1>6. snapshot.state = "completed" => T = S
  BY <1>3 DEF Have
<1>7. PageSize \in Nat
  BY PageAssumption
<1> HIDE DEF S, T
<1>8. /\ ExportTypes /\ B \subseteq S /\ Elements(all) \subseteq S /\ offset \in Nat
      /\ offset <= snapshot.total + PageSize
      /\ begun.state = "completed" => snapshot.state = "completed"
      /\ reader = "reading" => Reading(S, B, all, offset)
      /\ reader = "saved" => B \subseteq Elements(all)
      /\ begun.state = "completed" => ExactSoFar(S, all, offset, reader)
  BY DEF ExportOK, ExportTypes, S
<1> HIDE DEF B
<1>9. reader = "reading" => Reading(T, B, all, offset)
  BY <1>4, <1>5, <1>8, ReadingGrows
<1>10. offset <= snapshot'.total + PageSize
  BY <1>3, <1>7, <1>8
<1>11. Elements(all)' = Elements(all)
  BY <1>1 DEF Elements
<1>12. ExportTypes'
  BY <1>1, <1>3, <1>4, <1>5, <1>8, <1>10, <1>11 DEF ExportTypes, B
<1>13. begun.state = "completed" => ExactSoFar(T, all, offset, reader)
  BY <1>6, <1>8
<1>14. ExportOK'
  BY <1>1, <1>4, <1>8, <1>9, <1>11, <1>12, <1>13 DEF ExportOK, B
<1> QED BY <1>2, <1>14

(* An export that is given up keeps what it has.                           *)
LEMMA ExportFailsKeeps ==
  ASSUME ResultsOK, ExportOK, ExportFails
  PROVE  ResultsOK' /\ ExportOK'
<1>1. /\ snapshot' = snapshot /\ results' = results /\ reader' = "failed"
      /\ listing' = listing /\ offset' = offset /\ all' = all /\ begun' = begun
  BY DEF ExportFails, streamVars, snapshot
<1>2. ResultsOK'
  BY <1>1 DEF ResultsOK
<1>3. Have(listing)' = Have(listing) /\ Elements(all)' = Elements(all)
  BY <1>1 DEF Have, Elements
<1>4. ExportTypes'
  BY <1>1, <1>3 DEF ExportOK, ExportTypes
<1>5. ExportOK'
  BY <1>1, <1>3, <1>4 DEF ExportOK, ExactSoFar
<1> QED BY <1>2, <1>5

(***************************************************************************)
(* Every step keeps the invariant of the readers.                          *)
(***************************************************************************)
LEMMA PagesStep_Inv ==
  PagesInv /\ [ReaderNext]_readerVars => PagesInv'
<1> SUFFICES ASSUME PagesInv, [ReaderNext]_readerVars PROVE PagesInv'
  OBVIOUS
<1>1. StreamInv' /\ LivesOK /\ ResultsOK /\ ExportOK
  BY ReaderKeepsStream DEF PagesInv, StreamInv
<1>2. ASSUME NEW what \in {"results", "dead-letter"}, FirstPage(what)
      PROVE  ResultsOK' /\ ExportOK'
  BY <1>1, <1>2, FirstPageKeeps
<1>3. CASE NextPage
  BY <1>1, <1>3, NextPageKeeps DEF PagesInv
<1>4. CASE ExportFails
  BY <1>1, <1>4, ExportFailsKeeps DEF PagesInv
<1>5. CASE JobMoves
  BY <1>1, <1>5, JobMovesKeeps DEF PagesInv
<1>6. CASE StreamClient \/ StreamTurn \/ UNCHANGED readerVars
  <2>1. UNCHANGED <<life, pageVars>>
    BY <1>6 DEF StreamClient, StreamTurn, StreamStep, Open, Disconnect, Poll,
                AfterProgress, Return, readerVars, pageVars
  <2> QED BY <1>1, <2>1, ExportRests DEF PagesInv
<1> QED BY <1>1, <1>2, <1>3, <1>4, <1>5, <1>6 DEF ReaderNext, PagesInv

-----------------------------------------------------------------------------
(***************************************************************************)
(* However many results arrive between the requests of an export, and      *)
(* wherever they come to stand, what was listed at the first request is in *)
(* the saved file, and everything in the file is a result of the job.      *)
(***************************************************************************)
THEOREM ExportMissesNothing == ReaderSpec => []NothingPresentIsMissed
<1>1. PagesInv => NothingPresentIsMissed
  <2> SUFFICES ASSUME PagesInv PROVE NothingPresentIsMissed
    OBVIOUS
  <2>1. /\ reader = "saved" => begun.items \subseteq Elements(all)
        /\ Elements(all) \subseteq Have(listing)
        /\ listing \in {"results", "dead-letter"}
    BY DEF PagesInv, ExportOK, ExportTypes
  <2>2. Elements(Listed(listing)) = Have(listing)
    BY <2>1, ListedIsSorted, SortedFacts
  <2> QED BY <2>1, <2>2 DEF NothingPresentIsMissed
<1> QED BY <1>1, PageInit_Inv, PagesStep_Inv, PTL DEF ReaderSpec

(***************************************************************************)
(* The export of a completed job is the listing itself, whatever the page  *)
(* size and the number of its results.                                     *)
(***************************************************************************)
THEOREM CompletedExportsAreExact == ReaderSpec => []CompletedExportIsExact
<1>1. PagesInv => CompletedExportIsExact
  <2> SUFFICES ASSUME PagesInv PROVE CompletedExportIsExact
    OBVIOUS
  <2>1. /\ begun.state = "completed" /\ reader = "saved" => all = sorted(Have(listing))
        /\ listing \in {"results", "dead-letter"}
    BY DEF PagesInv, ExportOK, ExportTypes, ExactSoFar
  <2>2. Listed(listing) = sorted(Have(listing))
    BY <2>1, ListedIsSorted
  <2> QED BY <2>1, <2>2 DEF CompletedExportIsExact
<1> QED BY <1>1, PageInit_Inv, PagesStep_Inv, PTL DEF ReaderSpec

(***************************************************************************)
(* No export asks for more pages than the batch fills, and one more, also  *)
(* while results keep arriving.                                            *)
(***************************************************************************)
THEOREM ExportsStayBounded == ReaderSpec => []ExportIsBounded
<1>1. PagesInv => ExportIsBounded
  BY DEF PagesInv, ExportOK, ExportTypes, ExportIsBounded
<1> QED BY <1>1, PageInit_Inv, PagesStep_Inv, PTL DEF ReaderSpec

=============================================================================
