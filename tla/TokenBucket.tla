----------------------------- MODULE TokenBucket -----------------------------
(***************************************************************************)
(* The token bucket of app/ratelimit.py, shared by the workers that call   *)
(* the provider.                                                           *)
(*                                                                         *)
(* Time is counted in ticks and tokens in units: Rate units per tick, and  *)
(* a call costs Cost units, so fractions of a token are exact integers.    *)
(* No task suspends while it holds the bucket's lock, so the lock is       *)
(* always free and is left out.  Rate = 0, which disables the bucket, is   *)
(* what BatchEngine models.                                                *)
(***************************************************************************)
EXTENDS Integers

CONSTANTS
  Callers,    \* tasks that call acquire()
  Rate,       \* units that flow in per tick
  Capacity,   \* units that the bucket holds
  Cost        \* units in one token, the price of a call

ASSUME BucketAssumption ==
  /\ Rate \in Nat \ {0}
  /\ Capacity \in Nat \ {0}
  /\ Cost \in Nat \ {0}

VARIABLES
  tokens,    \* _tokens
  elapsed,   \* time since _last, up to what fills the bucket
  wait,      \* remaining sleep of each caller, -1 when it is not asleep
  excess,    \* history: see Tick and Granted
  served     \* history: a call was granted since the last tick

bucketVars == <<tokens, elapsed, wait, excess, served>>

Least(a, b) == IF a <= b THEN a ELSE b
Most(a, b)  == IF a >= b THEN a ELSE b
CeilDiv(a, b) == (a + b - 1) \div b

(* The time that fills an empty bucket: more makes no difference.          *)
FillTime == CeilDiv(Capacity, Rate)

(* A full bucket; until the first call _last is None and nothing flows.    *)
BucketInit ==
  /\ tokens = Capacity
  /\ elapsed = 0
  /\ wait = [c \in Callers |-> -1]
  /\ excess = 0
  /\ served = FALSE

Refilled == Least(Capacity, tokens + elapsed * Rate)

Granted ==
  /\ excess' = excess + Cost
  /\ served' = TRUE

(***************************************************************************)
(* Mutants: _last is not updated; what has flowed in is lost on a caller   *)
(* that has to sleep.                                                      *)
(***************************************************************************)
TryAcquireKeepsLast(c) ==
  /\ UNCHANGED elapsed
  /\ IF Refilled >= Cost
     THEN tokens' = Refilled - Cost /\ wait' = [wait EXCEPT ![c] = -1] /\ Granted
     ELSE /\ tokens' = Refilled
          /\ wait' = [wait EXCEPT ![c] = CeilDiv(Cost - Refilled, Rate)]
          /\ UNCHANGED <<excess, served>>

TryAcquireLosesRefill(c) ==
  /\ elapsed' = 0
  /\ IF Refilled >= Cost
     THEN tokens' = Refilled - Cost /\ wait' = [wait EXCEPT ![c] = -1] /\ Granted
     ELSE /\ wait' = [wait EXCEPT ![c] = CeilDiv(Cost - Refilled, Rate)]
          /\ UNCHANGED <<tokens, excess, served>>

(* The body of acquire()'s loop: refill, then take a token or sleep for as *)
(* long as the missing units need.                                         *)
TryAcquire(c) ==
  /\ elapsed' = 0
  /\ IF Refilled >= Cost
     THEN /\ tokens' = Refilled - Cost
          /\ wait' = [wait EXCEPT ![c] = -1]
          /\ Granted
     ELSE /\ tokens' = Refilled
          /\ wait' = [wait EXCEPT ![c] = CeilDiv(Cost - Refilled, Rate)]
          /\ UNCHANGED <<excess, served>>

Call(c) == wait[c] = -1 /\ TryAcquire(c)

Wake(c) == wait[c] = 0 /\ TryAcquire(c)

(* Time passes; a caller whose sleep is over may be late.                  *)
Tick ==
  /\ elapsed' = Least(elapsed + 1, FillTime)
  /\ wait' = [c \in Callers |-> IF wait[c] > 0 THEN wait[c] - 1 ELSE wait[c]]
  /\ excess' = Most(0, excess - Rate)
  /\ served' = FALSE
  /\ UNCHANGED tokens

BucketNext == Tick \/ \E c \in Callers : Call(c) \/ Wake(c)

(* Time passes and the event loop runs the tasks whose sleep is over.      *)
BucketSpec ==
  /\ BucketInit /\ [][BucketNext]_bucketVars
  /\ WF_bucketVars(Tick)
  /\ \A c \in Callers : WF_bucketVars(Wake(c))

-----------------------------------------------------------------------------
(* Type invariant; the bucket neither overflows nor goes into debt.        *)
BucketTypeOK ==
  /\ tokens \in 0..Capacity
  /\ elapsed \in 0..FillTime
  /\ wait \in [Callers -> -1..CeilDiv(Cost, Rate)]
  /\ excess \in Nat
  /\ served \in BOOLEAN

(***************************************************************************)
(* The rate limit: in every window of t ticks at most Capacity + t * Rate  *)
(* units are granted.  excess is the largest value, over all windows that  *)
(* end now, of the units granted minus t * Rate.  The limit holds although *)
(* callers race for the same refill and may wake late.                     *)
(***************************************************************************)
RateBound == excess <= Capacity

(***************************************************************************)
(* Somebody gets through: when callers sleep, one of them is eventually    *)
(* granted a token or nobody sleeps any more (they race, so which one is   *)
(* open).                                                                  *)
(***************************************************************************)
SomeoneIsServed ==
  (\E c \in Callers : wait[c] # -1) ~>
    (served \/ \A c \in Callers : wait[c] = -1)

=============================================================================
