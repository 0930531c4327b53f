SPECIFICATION RetrySpec
CONSTANTS
  Callers = {c1, c2, c3}
  Rate = 2
  Capacity = 8
  Cost = 4
  MaxRetries = 2
  BackoffBase = 1
  BackoffMax = 2
  Jitter = 1
  RateLimitEvery = 3
  RetryAfters = {1, 4}
INVARIANTS
  RetryTypeOK
  RateBound
  UpstreamRateBound
  RetryAfterHonoured
PROPERTY
  DrainsWhenQuiet
