-------------------------- MODULE RetryLoop_proofs --------------------------
(***************************************************************************)
(* The token bucket, and the retry loop of infer_with_retry on top of it,  *)
(* for any settings and any number of callers.                             *)
(*                                                                         *)
(* First part, the bucket.  RateBound is not inductive.  What is: the      *)
(* units granted in excess of the rate and the units that a call would     *)
(* find now fit in the bucket together.  Time drains the one as it fills   *)
(* the other.                                                              *)
(*                                                                         *)
(* Second part: the loop uses the bucket as the bucket expects, so the     *)
(* rate limit holds for the upstream calls; attempts and delays are        *)
(* bounded; and no attempt is made before the Retry-After it was given has *)
(* passed.                                                                 *)
(***************************************************************************)
EXTENDS RetryLoop, FiniteSetTheorems, TLAPS

(* What is known of the sleeping callers: a sleep is never longer than the *)
(* time in which a whole token flows in.                                   *)
WaitOK ==
  /\ wait \in [Callers -> -1..CeilDiv(Cost, Rate)]
  /\ served \in BOOLEAN

BucketInv ==
  /\ tokens \in 0..Capacity
  /\ elapsed \in 0..FillTime
  /\ excess \in Nat
  /\ excess + Refilled <= Capacity

-----------------------------------------------------------------------------
(* A bucket that was left alone for FillTime is full.                      *)
LEMMA FillTimeFills ==
  /\ FillTime \in Nat
  /\ FillTime * Rate >= Capacity
<1>1. /\ Rate \in Nat \ {0} /\ Capacity \in Nat \ {0}
  BY BucketAssumption
<1> DEFINE n == Capacity + Rate - 1
           q == n \div Rate
           r == n % Rate
<1>2. n \in Nat /\ q \in Nat /\ r \in 0..(Rate - 1) /\ n = Rate * q + r
  BY <1>1, SMT
<1>3. Rate * q = q * Rate /\ q * Rate \in Nat
  BY <1>1, <1>2, SMT
<1>4. q * Rate >= Capacity
  <2> HIDE DEF q, r
  <2> QED BY <1>1, <1>2, <1>3
<1> QED BY <1>2, <1>4 DEF FillTime, CeilDiv

(* What a call would find lies between the tokens and the capacity.        *)
LEMMA RefilledRange ==
  ASSUME BucketInv
  PROVE  /\ Refilled \in tokens..Capacity
         /\ elapsed * Rate \in Nat
         /\ Rate \in Nat \ {0} /\ Capacity \in Nat \ {0} /\ Cost \in Nat \ {0}
         /\ tokens \in Nat /\ elapsed \in Nat
<1>1. /\ Rate \in Nat \ {0} /\ Capacity \in Nat \ {0} /\ Cost \in Nat \ {0}
      /\ tokens \in Nat /\ elapsed \in Nat /\ tokens <= Capacity
  BY BucketAssumption, FillTimeFills DEF BucketInv
<1>2. elapsed * Rate \in Nat
  BY <1>1, SMT
<1> QED BY <1>1, <1>2 DEF Refilled, Least

(* One turn of acquire()'s loop keeps the balance.                         *)
LEMMA TryAcquireKeeps ==
  ASSUME BucketInv, NEW c \in Callers, TryAcquire(c)
  PROVE  BucketInv'
<1>1. elapsed' = 0 /\ elapsed' * Rate = 0 /\ 0 \in 0..FillTime
  BY RefilledRange, FillTimeFills, BucketAssumption DEF TryAcquire
<1>2. CASE Refilled >= Cost
  <2>1. tokens' = Refilled - Cost /\ excess' = excess + Cost
    BY <1>2 DEF TryAcquire, Granted
  <2>2. tokens' \in 0..Capacity /\ Refilled' = tokens'
    BY <1>1, <1>2, <2>1, RefilledRange DEF Refilled, Least
  <2>3. excess' \in Nat /\ excess' + Refilled' <= Capacity
    <3>1. excess \in Nat /\ excess + Refilled <= Capacity
      BY DEF BucketInv
    <3>2. Refilled \in Nat /\ Cost \in Nat /\ Capacity \in Nat
      BY RefilledRange
    <3> QED BY <2>1, <2>2, <3>1, <3>2
  <2> QED BY <1>1, <2>2, <2>3 DEF BucketInv
<1>3. CASE ~(Refilled >= Cost)
  <2>1. tokens' = Refilled /\ excess' = excess
    BY <1>3 DEF TryAcquire
  <2>2. tokens' \in 0..Capacity /\ Refilled' = tokens'
    BY <1>1, <2>1, RefilledRange DEF Refilled, Least
  <2> QED BY <1>1, <2>1, <2>2 DEF BucketInv
<1> QED BY <1>2, <1>3

(* Time keeps the balance.                                                 *)
LEMMA TickKeeps ==
  ASSUME BucketInv, Tick
  PROVE  BucketInv'
<1>1. /\ tokens' = tokens /\ elapsed' = Least(elapsed + 1, FillTime)
      /\ excess' = Most(0, excess - Rate)
  BY DEF Tick
<1>2. /\ tokens \in 0..Capacity /\ elapsed \in 0..FillTime /\ excess \in Nat
      /\ excess + Refilled <= Capacity
  BY DEF BucketInv
<1>3. elapsed' \in 0..FillTime /\ excess' \in Nat
  BY <1>1, <1>2, FillTimeFills, RefilledRange DEF Least, Most
<1>4. excess' + Refilled' <= Capacity
  <2>1. CASE elapsed < FillTime
    <3>1. elapsed' = elapsed + 1
      BY <1>1, <1>2, <2>1, FillTimeFills, RefilledRange DEF Least
    <3>2. elapsed' * Rate = elapsed * Rate + Rate
      BY <3>1, RefilledRange, SMT
    <3>3. Refilled' <= Refilled + Rate /\ Refilled' <= Capacity /\ Refilled' \in Nat
      BY <1>1, <3>2, RefilledRange DEF Refilled, Least
    <3>4. Refilled \in Nat
      BY RefilledRange
    <3> QED BY <1>1, <1>2, <3>3, <3>4, RefilledRange DEF Most
  <2>2. CASE ~(elapsed < FillTime)
    <3>1. elapsed = FillTime /\ elapsed' = elapsed
      BY <1>1, <1>2, <2>2, FillTimeFills DEF Least
    <3>2. Refilled' = Refilled
      BY <1>1, <3>1 DEF Refilled
    <3>3. Refilled \in Nat /\ excess' <= excess
      BY <1>1, <1>2, RefilledRange DEF Most
    <3> QED BY <1>2, <1>3, <3>2, <3>3, RefilledRange
  <2> QED BY <2>1, <2>2, <1>2, FillTimeFills
<1> QED BY <1>1, <1>2, <1>3, <1>4 DEF BucketInv

(* The sleep that acquire() computes for the missing units is a time, and  *)
(* the more is missing the longer it is.                                   *)
LEMMA CeilDivGrows ==
  ASSUME NEW a \in Nat, NEW b \in Nat, a <= b
  PROVE  /\ CeilDiv(a, Rate) \in Nat /\ CeilDiv(b, Rate) \in Nat
         /\ CeilDiv(a, Rate) <= CeilDiv(b, Rate)
<1>1. Rate \in Nat \ {0}
  BY BucketAssumption
<1> DEFINE m == a + Rate - 1
           n == b + Rate - 1
           q == m \div Rate
           p == n \div Rate
<1>2. m \in Nat /\ n \in Nat /\ m <= n
  BY <1>1
<1> HIDE DEF m, n
<1>3. \A x \in Nat : /\ x \div Rate \in Nat /\ x % Rate \in 0..(Rate - 1)
                     /\ x = Rate * (x \div Rate) + (x % Rate)
  BY <1>1, SMT
<1>4. /\ q \in Nat /\ m % Rate \in 0..(Rate - 1) /\ m = Rate * q + (m % Rate)
      /\ p \in Nat /\ n % Rate \in 0..(Rate - 1) /\ n = Rate * p + (n % Rate)
  BY <1>2, <1>3
<1>5. q <= p
  <2> HIDE DEF p, q
  <2> SUFFICES ASSUME q >= p + 1 PROVE FALSE
    BY <1>4
  <2>1. PICK d \in Nat : q = p + 1 + d
    <3>1. q - (p + 1) \in Nat /\ q = p + 1 + (q - (p + 1))
      BY <1>4
    <3> QED BY <3>1
  <2>2. Rate * q = Rate * p + Rate + Rate * d /\ Rate * d \in Nat /\ Rate * p \in Nat
    BY <1>1, <1>4, <2>1, SMT
  <2> DEFINE u == m % Rate
             v == n % Rate
  <2>3. u \in 0..(Rate - 1) /\ v \in 0..(Rate - 1) /\ m = Rate * q + u /\ n = Rate * p + v
    BY <1>4
  <2> HIDE DEF u, v
  <2> DEFINE x == Rate * p
             y == Rate * d
  <2>4. x \in Nat /\ y \in Nat /\ m = x + Rate + y + u /\ n = x + v
    BY <2>2, <2>3
  <2> HIDE DEF x, y
  <2> QED BY <1>1, <1>2, <2>3, <2>4
<1> QED BY <1>4, <1>5 DEF CeilDiv, m, n

(* A caller that does not get a token sleeps no longer than one needs.     *)
LEMMA TryAcquireWaits ==
  ASSUME BucketInv, WaitOK, NEW c \in Callers, TryAcquire(c)
  PROVE  WaitOK'
<1>1. CASE Refilled >= Cost
  <2>1. wait' = [wait EXCEPT ![c] = -1] /\ served' = TRUE
    BY <1>1 DEF TryAcquire, Granted
  <2>2. Cost \in Nat /\ Cost <= Cost
    BY BucketAssumption
  <2>3. -1 \in -1..CeilDiv(Cost, Rate)
    BY <2>2, CeilDivGrows
  <2> QED BY <2>1, <2>3 DEF WaitOK
<1>2. CASE ~(Refilled >= Cost)
  <2>1. /\ wait' = [wait EXCEPT ![c] = CeilDiv(Cost - Refilled, Rate)]
        /\ served' = served
    BY <1>2 DEF TryAcquire
  <2>2. Cost \in Nat /\ Refilled \in Nat
    BY RefilledRange
  <2>3. Cost - Refilled \in Nat /\ Cost - Refilled <= Cost
    BY <1>2, <2>2
  <2>4. /\ CeilDiv(Cost - Refilled, Rate) \in Nat /\ CeilDiv(Cost, Rate) \in Nat
        /\ CeilDiv(Cost - Refilled, Rate) <= CeilDiv(Cost, Rate)
    BY <2>2, <2>3, CeilDivGrows
  <2>5. CeilDiv(Cost - Refilled, Rate) \in -1..CeilDiv(Cost, Rate)
    BY <2>4
  <2> QED BY <2>1, <2>5 DEF WaitOK
<1> QED BY <1>1, <1>2

(* The sleepers of a tick: their time gets shorter, never negative.        *)
LEMMA TickWaits ==
  ASSUME WaitOK, Tick
  PROVE  WaitOK'
<1>1. Cost \in Nat /\ Cost <= Cost
  BY BucketAssumption
<1>2. CeilDiv(Cost, Rate) \in Nat
  BY <1>1, CeilDivGrows
<1> DEFINE W == CeilDiv(Cost, Rate)
<1>3. \A x \in -1..W : (IF x > 0 THEN x - 1 ELSE x) \in -1..W
  <2> HIDE DEF W
  <2> QED BY <1>2 DEF W
<1>4. wait \in [Callers -> -1..W]
  BY DEF WaitOK
<1>5. /\ wait' = [c \in Callers |-> IF wait[c] > 0 THEN wait[c] - 1 ELSE wait[c]]
      /\ served' = FALSE
  BY DEF Tick
<1> HIDE DEF W
<1>6. wait' \in [Callers -> -1..W]
  BY <1>3, <1>4, <1>5
<1> QED BY <1>5, <1>6 DEF WaitOK, W

(***************************************************************************)
(* The invariant is inductive, and the safety of the bucket follows; stated *)
(* for single steps, so that a module which embeds the bucket can use it.  *)
(***************************************************************************)
LEMMA BucketInit_Inv == BucketInit => BucketInv /\ WaitOK
<1> SUFFICES ASSUME BucketInit PROVE BucketInv /\ WaitOK
  OBVIOUS
<1>1. /\ tokens = Capacity /\ elapsed = 0 /\ excess = 0 /\ served = FALSE
      /\ wait = [c \in Callers |-> -1]
  BY DEF BucketInit
<1>2. Capacity \in Nat /\ Rate \in Nat /\ 0 * Rate = 0 /\ Cost \in Nat /\ Cost <= Cost
  BY BucketAssumption, SMT
<1>3. BucketInv
  BY <1>1, <1>2, FillTimeFills DEF BucketInv, Refilled, Least
<1>4. -1 \in -1..CeilDiv(Cost, Rate)
  BY <1>2, CeilDivGrows
<1> QED BY <1>1, <1>3, <1>4 DEF WaitOK

(* Every step of the bucket keeps it.                                      *)
LEMMA BucketStep_Inv ==
  BucketInv /\ WaitOK /\ [BucketNext]_bucketVars => BucketInv' /\ WaitOK'
<1> SUFFICES ASSUME BucketInv, WaitOK, [BucketNext]_bucketVars
             PROVE  BucketInv' /\ WaitOK'
  OBVIOUS
<1>1. CASE UNCHANGED bucketVars
  BY <1>1 DEF bucketVars, BucketInv, Refilled, WaitOK
<1>2. CASE Tick
  BY <1>2, TickKeeps, TickWaits
<1>3. CASE \E c \in Callers : Call(c) \/ Wake(c)
  BY <1>3, TryAcquireKeeps, TryAcquireWaits DEF Call, Wake
<1> QED BY <1>1, <1>2, <1>3 DEF BucketNext

(* What it says of one state.                                              *)
LEMMA BucketInv_Safe == BucketInv /\ WaitOK => BucketTypeOK /\ RateBound
<1> SUFFICES ASSUME BucketInv, WaitOK PROVE BucketTypeOK /\ RateBound
  OBVIOUS
<1>1. excess \in Nat /\ excess + Refilled <= Capacity
  BY DEF BucketInv
<1>2. RateBound
  BY <1>1, RefilledRange DEF RateBound
<1> QED BY <1>2 DEF BucketInv, WaitOK, BucketTypeOK

(***************************************************************************)
(* However many tasks share the bucket and however late they wake, at most *)
(* Capacity + t * Rate units are granted in any t ticks.                   *)
(***************************************************************************)
THEOREM RateIsBounded == BucketSpec => []RateBound
BY BucketInit_Inv, BucketStep_Inv, BucketInv_Safe, PTL DEF BucketSpec

(* The bucket never overflows, is never in debt, and nobody sleeps longer  *)
(* than a token takes to flow in.                                          *)
THEOREM BucketTypes == BucketSpec => []BucketTypeOK
BY BucketInit_Inv, BucketStep_Inv, BucketInv_Safe, PTL DEF BucketSpec

-----------------------------------------------------------------------------
(* The retry loop.                                                         *)

(* A delay is within the settings, or the provider asked for it.           *)
DelayOK(d) ==
  /\ d \in Nat
  /\ \/ d \in 0..(BackoffMax + Jitter)
     \/ \E r \in RetryAfters : d <= r

(***************************************************************************)
(* The inductive invariant.  The links between the two processes: only a   *)
(* caller at the gate sleeps in the bucket, what was granted is what went  *)
(* upstream, and what is left of a Retry-After is covered by what is left  *)
(* of the backoff.                                                         *)
(***************************************************************************)
LocalTypes ==
  /\ at \in [Callers -> {"idle", "gate", "calling", "backoff"}]
  /\ tries \in [Callers -> 0..(MaxRetries + 1)]
  /\ delay \in [Callers -> Nat]
  /\ due \in [Callers -> Nat]
  /\ calls \in 0..(RateLimitEvery - 1)

CallerOK(c) ==
  /\ DelayOK(delay[c])
  /\ due[c] <= delay[c]
  /\ due[c] > 0 => at[c] = "backoff"
  /\ at[c] # "gate" => wait[c] = -1
  /\ at[c] = "gate" => tries[c] \in 1..(MaxRetries + 1)
  /\ at[c] = "backoff" => tries[c] \in 1..MaxRetries

RetryInv ==
  /\ BucketInv
  /\ WaitOK
  /\ LocalTypes
  /\ load = excess
  /\ \A c \in Callers : CallerOK(c)

-----------------------------------------------------------------------------
(* The doubling of the backoff is a natural number.                        *)
LEMMA PowerOfTwo == ASSUME NEW k \in Nat PROVE 2^k \in Nat
<1>1. IsFiniteSet(1..k) /\ Cardinality(1..k) = k
  <2>1. 1 \in Int /\ k \in Int
    OBVIOUS
  <2>2. /\ IsFiniteSet(1..k)
        /\ Cardinality(1..k) = IF 1 > k THEN 0 ELSE k - 1 + 1
    BY <2>1, FS_Interval
  <2> QED BY <2>2
<1>2. IsFiniteSet(SUBSET (1..k)) /\ Cardinality(SUBSET (1..k)) = 2^k
  BY <1>1, FS_SUBSET
<1> QED BY <1>2, FS_CardinalityType

(***************************************************************************)
(* The delay before the next attempt respects the cap and the jitter, or   *)
(* is the Retry-After; and it is never shorter than the Retry-After.       *)
(***************************************************************************)
LEMMA RetryDelayFacts ==
  ASSUME NEW k \in Nat \ {0}, NEW jitter \in 0..Jitter, NEW r \in RetryAfters
  PROVE  /\ r \in Nat
         /\ DelayOK(RetryDelay(k, jitter, r))
         /\ r <= RetryDelay(k, jitter, r)
<1>1. /\ r \in Nat /\ BackoffBase \in Nat /\ BackoffMax \in Nat /\ Jitter \in Nat
  BY RetryAssumption
<1>2. 2^(k - 1) \in Nat
  <2>1. k - 1 \in Nat
    OBVIOUS
  <2> QED BY <2>1, PowerOfTwo
<1>3. BackoffBase * 2^(k - 1) \in Nat
  <2> DEFINE p == 2^(k - 1)
  <2>1. p \in Nat
    BY <1>2
  <2> HIDE DEF p
  <2>2. BackoffBase * p \in Nat
    BY <1>1, <2>1, SMT
  <2> QED BY <2>2 DEF p
<1>4. compute_backoff(k, jitter) \in 0..(BackoffMax + Jitter)
  <2> DEFINE b == BackoffBase * 2^(k - 1)
  <2>1. b \in Nat
    BY <1>3
  <2> HIDE DEF b
  <2>2. Least(b, BackoffMax) \in 0..BackoffMax
    BY <1>1, <2>1 DEF Least
  <2>3. Least(b, BackoffMax) + jitter \in 0..(BackoffMax + Jitter)
    BY <1>1, <2>2
  <2> QED BY <2>3 DEF compute_backoff, b
<1> DEFINE cb == compute_backoff(k, jitter)
<1>5. cb \in 0..(BackoffMax + Jitter)
  BY <1>4
<1> HIDE DEF cb
<1>6. /\ Most(cb, r) \in Nat /\ r <= Most(cb, r)
      /\ Most(cb, r) = cb \/ Most(cb, r) = r
  BY <1>1, <1>5 DEF Most
<1>7. DelayOK(Most(cb, r))
  BY <1>1, <1>5, <1>6 DEF DelayOK
<1> QED BY <1>1, <1>6, <1>7 DEF RetryDelay, cb

(* A delay that runs down stays within its bounds.                         *)
LEMMA DelayRunsDown ==
  ASSUME NEW d \in Nat, NEW e \in Nat, DelayOK(d), e <= d
  PROVE  DelayOK(e)
<1>1. BackoffMax + Jitter \in Nat /\ RetryAfters \subseteq Nat
  BY RetryAssumption
<1> QED BY <1>1 DEF DelayOK

(* The initial state.                                                      *)
LEMMA RetryInit_Inv == RetryInit => RetryInv
<1> SUFFICES ASSUME RetryInit PROVE RetryInv
  OBVIOUS
<1>1. BucketInv /\ WaitOK
  BY BucketInit_Inv DEF RetryInit
<1>2. MaxRetries + 1 \in Nat /\ BackoffMax + Jitter \in Nat /\ RateLimitEvery \in Nat \ {0}
  BY RetryAssumption
<1>3. LocalTypes
  BY <1>2 DEF RetryInit, LocalTypes
<1>4. load = excess
  BY DEF RetryInit, BucketInit
<1>5. \A c \in Callers :
        delay[c] = 0 /\ due[c] = 0 /\ at[c] = "idle" /\ wait[c] = -1
  BY DEF RetryInit, BucketInit
<1>6. ASSUME NEW c \in Callers PROVE CallerOK(c)
  <2>1. DelayOK(delay[c])
    BY <1>2, <1>5 DEF DelayOK
  <2>2. ~(due[c] > 0) /\ due[c] <= delay[c]
    BY <1>5
  <2> QED BY <1>5, <2>1, <2>2, Zenon DEF CallerOK
<1> QED BY <1>1, <1>3, <1>4, <1>6 DEF RetryInv

-----------------------------------------------------------------------------
(* The steps.                                                              *)

(* infer_with_retry ends: nothing is owed to the provider.                 *)
LEMMA EndedKeeps ==
  ASSUME LocalTypes, NEW c \in Callers, Ended(c),
         DelayOK(delay[c]), due[c] = 0, wait'[c] = -1
  PROVE  /\ at' \in [Callers -> {"idle", "gate", "calling", "backoff"}]
         /\ tries' \in [Callers -> 0..(MaxRetries + 1)]
         /\ delay' \in [Callers -> Nat] /\ due' \in [Callers -> Nat]
         /\ CallerOK(c)'
         /\ \A d \in Callers \ {c} :
              /\ at'[d] = at[d] /\ tries'[d] = tries[d]
              /\ delay'[d] = delay[d] /\ due'[d] = due[d]
<1>1. MaxRetries \in Nat
  BY RetryAssumption
<1>2. /\ at' = [at EXCEPT ![c] = "idle"] /\ tries' = [tries EXCEPT ![c] = 0]
      /\ delay' = delay /\ due' = due
  BY DEF Ended
<1>3. at'[c] = "idle" /\ delay'[c] = delay[c] /\ due'[c] = 0
  BY <1>2 DEF LocalTypes
<1>4. CallerOK(c)'
  BY <1>3 DEF CallerOK, LocalTypes, DelayOK
<1> QED BY <1>1, <1>2, <1>4 DEF LocalTypes

(* A 429 on the k-th attempt: end, or sleep at least for the Retry-After.  *)
LEMMA ThrottledKeeps ==
  ASSUME LocalTypes, NEW c \in Callers, NEW k \in 1..(MaxRetries + 1),
         Throttled(c, k), DelayOK(delay[c]), due[c] = 0, wait'[c] = -1
  PROVE  /\ at' \in [Callers -> {"idle", "gate", "calling", "backoff"}]
         /\ tries' \in [Callers -> 0..(MaxRetries + 1)]
         /\ delay' \in [Callers -> Nat] /\ due' \in [Callers -> Nat]
         /\ CallerOK(c)'
         /\ \A d \in Callers \ {c} :
              /\ at'[d] = at[d] /\ tries'[d] = tries[d]
              /\ delay'[d] = delay[d] /\ due'[d] = due[d]
<1>1. MaxRetries \in Nat
  BY RetryAssumption
<1>2. CASE k > MaxRetries
  BY <1>2, EndedKeeps DEF Throttled
<1>3. CASE ~(k > MaxRetries)
  <2>1. PICK jitter \in 0..Jitter, r \in RetryAfters :
          /\ at' = [at EXCEPT ![c] = "backoff"]
          /\ tries' = [tries EXCEPT ![c] = k]
          /\ delay' = [delay EXCEPT ![c] = RetryDelay(k, jitter, r)]
          /\ due' = [due EXCEPT ![c] = r]
    BY <1>3 DEF Throttled
  <2>2. k \in Nat \ {0} /\ k \in 1..MaxRetries
    BY <1>1, <1>3
  <2>3. /\ r \in Nat /\ DelayOK(RetryDelay(k, jitter, r))
        /\ r <= RetryDelay(k, jitter, r)
    BY <2>2, RetryDelayFacts
  <2>4. RetryDelay(k, jitter, r) \in Nat
    BY <2>3 DEF DelayOK
  <2>5. /\ at'[c] = "backoff" /\ tries'[c] = k /\ due'[c] = r
        /\ delay'[c] = RetryDelay(k, jitter, r)
    BY <2>1 DEF LocalTypes
  <2>6. CallerOK(c)'
    BY <2>2, <2>3, <2>5 DEF CallerOK, DelayOK
  <2> QED BY <1>1, <2>1, <2>3, <2>4, <2>6 DEF LocalTypes
<1> QED BY <1>2, <1>3

(***************************************************************************)
(* _gated_infer on the k-th attempt of a caller that owes nothing: a step  *)
(* of the bucket, and the call goes upstream exactly if a token is taken.  *)
(***************************************************************************)
LEMMA GatedKeeps ==
  ASSUME RetryInv, NEW c \in Callers, NEW k \in 1..(MaxRetries + 1),
         gated_infer(c, k), due[c] = 0
  PROVE  RetryInv'
<1>1. BucketInv /\ WaitOK /\ LocalTypes /\ load = excess /\ TryAcquire(c)
  BY DEF RetryInv, gated_infer
<1>2. \A d \in Callers : CallerOK(d)
  BY DEF RetryInv
<1>3. BucketInv' /\ WaitOK'
  BY <1>1, TryAcquireKeeps, TryAcquireWaits
<1>4. wait \in [Callers -> -1..CeilDiv(Cost, Rate)] /\ MaxRetries \in Nat
      /\ RateLimitEvery \in Nat \ {0}
  BY <1>1, RetryAssumption DEF WaitOK
<1>5. \A d \in Callers \ {c} : wait'[d] = wait[d]
  BY <1>1, <1>4 DEF TryAcquire
<1> DEFINE Rest ==
     /\ at' \in [Callers -> {"idle", "gate", "calling", "backoff"}]
     /\ tries' \in [Callers -> 0..(MaxRetries + 1)]
     /\ delay' \in [Callers -> Nat] /\ due' \in [Callers -> Nat]
     /\ CallerOK(c)'
     /\ \A d \in Callers \ {c} :
          /\ at'[d] = at[d] /\ tries'[d] = tries[d]
          /\ delay'[d] = delay[d] /\ due'[d] = due[d]
<1>6. CASE Refilled >= Cost
  <2>1. wait'[c] = -1 /\ excess' = excess + Cost
    BY <1>1, <1>4, <1>6 DEF TryAcquire, Granted
  <2>2. infer(c, k)
    BY <1>6 DEF gated_infer
  <2>3. calls' \in 0..(RateLimitEvery - 1) /\ load' = excess'
    <3>1. calls' = (calls + 1) % RateLimitEvery /\ load' = load + Cost
      BY <2>2 DEF infer
    <3>2. calls + 1 \in Nat
      BY <1>1, <1>4 DEF LocalTypes
    <3>3. (calls + 1) % RateLimitEvery \in 0..(RateLimitEvery - 1)
      BY <1>4, <3>2, SMT
    <3> QED BY <1>1, <2>1, <3>1, <3>3
  <2>4. Rest
    <3>1. CASE calls' = 0
      <4>1. Throttled(c, k)
        BY <2>2, <3>1 DEF infer
      <4>2. DelayOK(delay[c])
        BY <1>2 DEF CallerOK
      <4> QED BY <1>1, <2>1, <4>1, <4>2, ThrottledKeeps
    <3>2. CASE calls' # 0
      <4>1. /\ at' = [at EXCEPT ![c] = "calling"]
            /\ tries' = [tries EXCEPT ![c] = k]
            /\ delay' = delay /\ due' = due
        BY <2>2, <3>2 DEF infer
      <4>2. at'[c] = "calling" /\ delay'[c] = delay[c] /\ due'[c] = 0
        BY <1>1, <4>1 DEF LocalTypes
      <4>3. CallerOK(c)'
        BY <1>2, <2>1, <4>2 DEF CallerOK, DelayOK
      <4> QED BY <1>1, <1>4, <4>1, <4>3 DEF LocalTypes
    <3> QED BY <3>1, <3>2
  <2>5. \A d \in Callers : CallerOK(d)'
    BY <1>2, <1>5, <2>4 DEF CallerOK, DelayOK
  <2> QED BY <1>3, <2>3, <2>4, <2>5 DEF RetryInv, LocalTypes
<1>7. CASE ~(Refilled >= Cost)
  <2>1. excess' = excess
    BY <1>1, <1>7 DEF TryAcquire
  <2>2. /\ at' = [at EXCEPT ![c] = "gate"] /\ tries' = [tries EXCEPT ![c] = k]
        /\ delay' = delay /\ calls' = calls /\ due' = due /\ load' = load
    BY <1>7 DEF gated_infer
  <2>3. at'[c] = "gate" /\ tries'[c] = k /\ delay'[c] = delay[c] /\ due'[c] = 0
    BY <1>1, <2>2 DEF LocalTypes
  <2>4. CallerOK(c)'
    BY <1>2, <2>3 DEF CallerOK, DelayOK
  <2>5. LocalTypes'
    BY <1>1, <1>4, <2>2 DEF LocalTypes
  <2>6. \A d \in Callers \ {c} : /\ at'[d] = at[d] /\ tries'[d] = tries[d]
    BY <1>1, <2>2 DEF LocalTypes
  <2>7. \A d \in Callers : CallerOK(d)'
    BY <1>2, <1>5, <2>2, <2>4, <2>6 DEF CallerOK, DelayOK
  <2> QED BY <1>1, <1>3, <2>1, <2>2, <2>5, <2>7 DEF RetryInv
<1> QED BY <1>6, <1>7

(* Time passes for the bucket, the backoffs and the Retry-Afters alike.    *)
LEMMA TimeKeeps ==
  ASSUME RetryInv, TimePasses
  PROVE  RetryInv'
<1>1. /\ BucketInv /\ WaitOK /\ LocalTypes /\ load = excess /\ Tick
      /\ \A c \in Callers : CallerOK(c)
  BY DEF RetryInv, TimePasses
<1>2. BucketInv' /\ WaitOK'
  BY <1>1, TickKeeps, TickWaits
<1>3. load' = excess'
  BY <1>1 DEF TimePasses, Tick
<1>4. /\ delay' = [c \in Callers |-> Most(0, delay[c] - 1)]
      /\ due' = [c \in Callers |-> Most(0, due[c] - 1)]
      /\ at' = at /\ tries' = tries /\ calls' = calls
  BY DEF TimePasses
<1>5. \A c \in Callers :
        /\ delay[c] \in Nat /\ due[c] \in Nat
        /\ delay'[c] = Most(0, delay[c] - 1) /\ due'[c] = Most(0, due[c] - 1)
  BY <1>1, <1>4 DEF LocalTypes
<1>6. \A c \in Callers :
        /\ delay'[c] \in Nat /\ delay'[c] <= delay[c]
        /\ due'[c] \in Nat /\ due'[c] <= due[c]
  BY <1>5 DEF Most
<1>7. LocalTypes'
  BY <1>1, <1>4, <1>5, <1>6 DEF LocalTypes
<1>8. ASSUME NEW c \in Callers PROVE CallerOK(c)'
  <2>1. CallerOK(c)
    BY <1>1
  <2>2. DelayOK(delay'[c])
    BY <1>5, <1>6, <2>1, DelayRunsDown DEF CallerOK
  <2>3. DelayOK(delay[c])'
    BY <2>2 DEF DelayOK
  <2>4. due'[c] <= delay'[c]
    BY <1>5, <2>1 DEF CallerOK, Most
  <2>5. due'[c] > 0 => at'[c] = "backoff"
    BY <1>4, <1>5, <1>6, <2>1 DEF CallerOK
  <2>6. wait[c] = -1 => wait'[c] = -1
    BY <1>1 DEF Tick
  <2> QED BY <1>4, <2>1, <2>3, <2>4, <2>5, <2>6 DEF CallerOK
<1> QED BY <1>2, <1>3, <1>7, <1>8 DEF RetryInv

(* The answer of the mock arrives.                                         *)
LEMMA CompletionKeeps ==
  ASSUME RetryInv, NEW c \in Callers, Completion(c)
  PROVE  RetryInv'
<1>1. /\ BucketInv /\ WaitOK /\ LocalTypes /\ load = excess
      /\ \A d \in Callers : CallerOK(d)
      /\ at[c] = "calling" /\ Ended(c)
      /\ UNCHANGED bucketVars /\ calls' = calls /\ load' = load
  BY DEF RetryInv, Completion
<1>2. BucketInv' /\ WaitOK' /\ wait' = wait /\ excess' = excess
  BY <1>1 DEF bucketVars, BucketInv, Refilled, WaitOK
<1>3. DelayOK(delay[c]) /\ due[c] = 0 /\ wait'[c] = -1
  BY <1>1, <1>2 DEF CallerOK, LocalTypes
<1>4. /\ at' \in [Callers -> {"idle", "gate", "calling", "backoff"}]
      /\ tries' \in [Callers -> 0..(MaxRetries + 1)]
      /\ delay' \in [Callers -> Nat] /\ due' \in [Callers -> Nat]
      /\ CallerOK(c)'
      /\ \A d \in Callers \ {c} :
           /\ at'[d] = at[d] /\ tries'[d] = tries[d]
           /\ delay'[d] = delay[d] /\ due'[d] = due[d]
  BY <1>1, <1>3, EndedKeeps
<1>5. \A d \in Callers : CallerOK(d)'
  BY <1>1, <1>2, <1>4 DEF CallerOK, DelayOK
<1> QED BY <1>1, <1>2, <1>4, <1>5 DEF RetryInv, LocalTypes

(* The invariant is inductive, and every step is one of the bucket's.      *)
LEMMA RetryStep ==
  RetryInv /\ [RetryNext]_retryVars =>
    /\ RetryInv'
    /\ [BucketNext]_bucketVars
<1> SUFFICES ASSUME RetryInv, [RetryNext]_retryVars
             PROVE  RetryInv' /\ [BucketNext]_bucketVars
  OBVIOUS
<1>0. /\ LocalTypes /\ \A c \in Callers : CallerOK(c)
      /\ MaxRetries \in Nat
  BY RetryAssumption DEF RetryInv
<1>1. CASE UNCHANGED retryVars
  BY <1>1 DEF retryVars, bucketVars, RetryInv, BucketInv, Refilled, WaitOK,
              LocalTypes, CallerOK, DelayOK
<1>2. CASE TimePasses
  BY <1>2, TimeKeeps DEF TimePasses, BucketNext
<1>3. ASSUME NEW c \in Callers, FirstAttempt(c)
      PROVE  RetryInv' /\ [BucketNext]_bucketVars
  <2>1. at[c] = "idle" /\ gated_infer(c, 1) /\ TryAcquire(c)
    BY <1>3 DEF FirstAttempt, gated_infer
  <2>2. due[c] = 0 /\ wait[c] = -1 /\ 1 \in 1..(MaxRetries + 1)
    BY <1>0, <2>1 DEF CallerOK, LocalTypes
  <2>3. RetryInv'
    BY <2>1, <2>2, GatedKeeps
  <2> QED BY <2>1, <2>2, <2>3 DEF BucketNext, Call
<1>4. ASSUME NEW c \in Callers, TokenWake(c)
      PROVE  RetryInv' /\ [BucketNext]_bucketVars
  <2>1. /\ at[c] = "gate" /\ wait[c] = 0
        /\ gated_infer(c, tries[c]) /\ TryAcquire(c)
    BY <1>4 DEF TokenWake, gated_infer
  <2>2. due[c] = 0 /\ tries[c] \in 1..(MaxRetries + 1)
    BY <1>0, <2>1 DEF CallerOK, LocalTypes
  <2>3. RetryInv'
    BY <2>1, <2>2, GatedKeeps
  <2> QED BY <2>1, <2>3 DEF BucketNext, Wake
<1>5. ASSUME NEW c \in Callers, NextAttempt(c)
      PROVE  RetryInv' /\ [BucketNext]_bucketVars
  <2>1. /\ at[c] = "backoff" /\ delay[c] = 0
        /\ gated_infer(c, tries[c] + 1) /\ TryAcquire(c)
    BY <1>5 DEF NextAttempt, gated_infer
  <2>2. due[c] = 0 /\ wait[c] = -1 /\ tries[c] + 1 \in 1..(MaxRetries + 1)
    BY <1>0, <2>1 DEF CallerOK, LocalTypes
  <2>3. RetryInv'
    BY <2>1, <2>2, GatedKeeps
  <2> QED BY <2>1, <2>2, <2>3 DEF BucketNext, Call
<1>6. ASSUME NEW c \in Callers, Completion(c)
      PROVE  RetryInv' /\ [BucketNext]_bucketVars
  BY <1>6, CompletionKeeps DEF Completion
<1> QED BY <1>1, <1>2, <1>3, <1>4, <1>5, <1>6 DEF RetryNext

-----------------------------------------------------------------------------
(***************************************************************************)
(* The retry loop is an implementation of the token bucket: first attempts *)
(* and attempts after a backoff are calls of acquire(), and a caller at    *)
(* the gate wakes in it, so every theorem about the bucket holds here.     *)
(***************************************************************************)
THEOREM RetryImplementsBucket == RetrySpec => ImplementsBucket
<1>1. RetryInit => BucketInit
  BY DEF RetryInit
<1> QED BY <1>1, RetryInit_Inv, RetryStep, PTL DEF RetrySpec, ImplementsBucket

(***************************************************************************)
(* Attempts are bounded by MAX_RETRIES + 1, delays by the cap, the jitter  *)
(* and the Retry-After, and the bucket is sound, for any settings.         *)
(***************************************************************************)
THEOREM RetryTypes == RetrySpec => []RetryTypeOK
<1>1. RetryInv => RetryTypeOK
  <2> SUFFICES ASSUME RetryInv PROVE RetryTypeOK
    OBVIOUS
  <2>1. BucketTypeOK
    BY BucketInv_Safe DEF RetryInv
  <2>2. load \in Nat
    BY DEF RetryInv, BucketInv
  <2> QED BY <2>1, <2>2 DEF RetryInv, LocalTypes, CallerOK, DelayOK, RetryTypeOK
<1> QED BY <1>1, RetryInit_Inv, RetryStep, PTL DEF RetrySpec

(***************************************************************************)
(* Every call that reaches the provider, a retry too, was paid for with a  *)
(* token: however the backoffs of the callers line up, the provider sees   *)
(* at most Capacity + t * Rate units in any t ticks.                       *)
(***************************************************************************)
THEOREM UpstreamRateIsBounded == RetrySpec => []UpstreamRateBound
<1>1. RetryInv => UpstreamRateBound
  BY BucketInv_Safe DEF RetryInv, RateBound, UpstreamRateBound
<1> QED BY <1>1, RetryInit_Inv, RetryStep, PTL DEF RetrySpec

(***************************************************************************)
(* No attempt starts before the Retry-After of the 429 before it is over.  *)
(***************************************************************************)
THEOREM RetryAfterIsHonoured == RetrySpec => []RetryAfterHonoured
<1>1. RetryInv => RetryAfterHonoured
  BY DEF RetryInv, CallerOK, RetryAfterHonoured
<1> QED BY <1>1, RetryInit_Inv, RetryStep, PTL DEF RetrySpec

=============================================================================
