----------------------------- MODULE RetryLoop -----------------------------
(***************************************************************************)
(* infer_with_retry (app/engine.py): the attempts of one prompt, each of   *)
(* them gated by the shared token bucket, against the default provider,    *)
(* the mock client that answers every Nth call with a 429 at once          *)
(* (app/mock_inference.py).  Time is counted in the bucket's ticks.        *)
(***************************************************************************)
EXTENDS TokenBucket

CONSTANTS
  MaxRetries,                        \* settings.max_retries
  BackoffBase, BackoffMax, Jitter,   \* settings.backoff_*
  RateLimitEvery,                    \* settings.mock_rate_limit_every, not 0
  RetryAfters                        \* what the mock may say in Retry-After

ASSUME RetryAssumption ==
  /\ MaxRetries \in Nat
  /\ BackoffBase \in Nat /\ BackoffMax \in Nat /\ Jitter \in Nat
  /\ RateLimitEvery \in Nat \ {0}
  /\ RetryAfters \subseteq Nat /\ RetryAfters # {}

VARIABLES
  at,       \* where each caller is suspended, "idle" between two prompts
  tries,    \* its local variable attempt
  delay,    \* what is left of its backoff
  calls,    \* the mock's counter, modulo RateLimitEvery
  due,      \* history: what is left of the Retry-After it was given
  load      \* history: excess (TokenBucket), but of the upstream calls

retryVars == <<tokens, elapsed, wait, excess, served,
               at, tries, delay, calls, due, load>>

RetryInit ==
  /\ BucketInit
  /\ at = [c \in Callers |-> "idle"]
  /\ tries = [c \in Callers |-> 0]
  /\ delay = [c \in Callers |-> 0]
  /\ calls = 0
  /\ due = [c \in Callers |-> 0]
  /\ load = 0

-----------------------------------------------------------------------------
compute_backoff(k, jitter) ==
  Least(BackoffBase * 2^(k - 1), BackoffMax) + jitter

(* Mutant: Retry-After is ignored.                                         *)
RetryDelayOwn(k, jitter, retry_after) == compute_backoff(k, jitter)

RetryDelay(k, jitter, retry_after) ==
  Most(compute_backoff(k, jitter), retry_after)

(* infer_with_retry returns or raises: the caller goes on to a new prompt. *)
Ended(c) ==
  /\ at' = [at EXCEPT ![c] = "idle"]
  /\ tries' = [tries EXCEPT ![c] = 0]
  /\ UNCHANGED <<delay, due>>

(* Mutant: one attempt too many.                                           *)
ThrottledOnceMore(c, k) ==
  IF k > MaxRetries + 1 THEN Ended(c)
  ELSE \E jitter \in 0..Jitter, r \in RetryAfters :
         /\ at' = [at EXCEPT ![c] = "backoff"]
         /\ tries' = [tries EXCEPT ![c] = k]
         /\ delay' = [delay EXCEPT ![c] = RetryDelay(k, jitter, r)]
         /\ due' = [due EXCEPT ![c] = r]

(* The handler of RateLimitError, on the k-th attempt.                     *)
Throttled(c, k) ==
  IF k > MaxRetries THEN Ended(c)
  ELSE \E jitter \in 0..Jitter, r \in RetryAfters :
         /\ at' = [at EXCEPT ![c] = "backoff"]
         /\ tries' = [tries EXCEPT ![c] = k]
         /\ delay' = [delay EXCEPT ![c] = RetryDelay(k, jitter, r)]
         /\ due' = [due EXCEPT ![c] = r]

(* MockInferenceClient.infer, up to its sleep: a 429 does not suspend.     *)
infer(c, k) ==
  /\ calls' = (calls + 1) % RateLimitEvery
  /\ load' = load + Cost
  /\ IF calls' = 0 THEN Throttled(c, k)
     ELSE /\ at' = [at EXCEPT ![c] = "calling"]
          /\ tries' = [tries EXCEPT ![c] = k]
          /\ UNCHANGED <<delay, due>>

(* Mutant: only the first attempt passes the token bucket.                 *)
gated_inferFirstOnly(c, k) ==
  IF k > 1 THEN infer(c, k) /\ UNCHANGED bucketVars
  ELSE /\ TryAcquire(c)
       /\ IF Refilled >= Cost THEN infer(c, k)
          ELSE /\ at' = [at EXCEPT ![c] = "gate"]
               /\ tries' = [tries EXCEPT ![c] = k]
               /\ UNCHANGED <<delay, calls, due, load>>

(* _gated_infer, up to its first suspension.                               *)
gated_infer(c, k) ==
  /\ TryAcquire(c)
  /\ IF Refilled >= Cost THEN infer(c, k)
     ELSE /\ at' = [at EXCEPT ![c] = "gate"]
          /\ tries' = [tries EXCEPT ![c] = k]
          /\ UNCHANGED <<delay, calls, due, load>>

FirstAttempt(c) == at[c] = "idle" /\ gated_infer(c, 1)

TokenWake(c) == at[c] = "gate" /\ wait[c] = 0 /\ gated_infer(c, tries[c])

NextAttempt(c) ==
  at[c] = "backoff" /\ delay[c] = 0 /\ gated_infer(c, tries[c] + 1)

(* The latency of the mock is over.                                        *)
Completion(c) ==
  /\ at[c] = "calling"
  /\ Ended(c)
  /\ UNCHANGED <<bucketVars, calls, load>>

TimePasses ==
  /\ Tick
  /\ delay' = [c \in Callers |-> Most(0, delay[c] - 1)]
  /\ due' = [c \in Callers |-> Most(0, due[c] - 1)]
  /\ load' = Most(0, load - Rate)
  /\ UNCHANGED <<at, tries, calls>>

RetryNext ==
  \/ TimePasses
  \/ \E c \in Callers :
       FirstAttempt(c) \/ TokenWake(c) \/ NextAttempt(c) \/ Completion(c)

(***************************************************************************)
(* Time passes, and the event loop runs the callers whose sleep is over.   *)
(* Nobody has to bring a new prompt.                                       *)
(***************************************************************************)
RetrySpec ==
  /\ RetryInit /\ [][RetryNext]_retryVars
  /\ WF_retryVars(TimePasses)
  /\ \A c \in Callers :
       WF_retryVars(TokenWake(c) \/ NextAttempt(c) \/ Completion(c))

-----------------------------------------------------------------------------
(* Type invariant; the bucket neither overflows nor goes into debt, and    *)
(* attempts and delays stay within the bounds of the settings.             *)
RetryTypeOK ==
  /\ BucketTypeOK
  /\ at \in [Callers -> {"idle", "gate", "calling", "backoff"}]
  /\ tries \in [Callers -> 0..(MaxRetries + 1)]
  /\ \A c \in Callers : \/ delay[c] \in 0..(BackoffMax + Jitter)
                        \/ \E r \in RetryAfters : delay[c] <= r
  /\ calls \in 0..(RateLimitEvery - 1)
  /\ load \in Nat

(***************************************************************************)
(* The provider's rate limit holds for the calls that reach the provider,  *)
(* retries included: callers that come back from their backoffs together   *)
(* wait for tokens like everybody else ("Proactive global RPS cap before   *)
(* every upstream call.", app/engine.py:334).                              *)
(***************************************************************************)
UpstreamRateBound == load <= Capacity

(***************************************************************************)
(* Retry-After is honoured: until the time that came with a 429 has passed *)
(* the prompt stays in its backoff, whatever the exponential backoff, its  *)
(* cap and its jitter say.                                                 *)
(***************************************************************************)
RetryAfterHonoured == \A c \in Callers : due[c] > 0 => at[c] = "backoff"

(***************************************************************************)
(* The retry loop uses the bucket as the bucket expects, so what is proved *)
(* of TokenBucket holds here.                                              *)
(***************************************************************************)
ImplementsBucket == BucketInit /\ [][BucketNext]_bucketVars

(***************************************************************************)
(* The loop drains: once no new prompt arrives, every prompt that is being *)
(* tried ends, although the callers race for the tokens and each attempt   *)
(* needs one.  (While prompts keep arriving a caller can be overtaken at   *)
(* the bucket for ever: it keeps no queue.)                                *)
(***************************************************************************)
DrainsWhenQuiet ==
  <>[][\A c \in Callers : at[c] = "idle" => at'[c] = "idle"]_at
    => <>[](\A c \in Callers : at[c] = "idle")

=============================================================================
