SPECIFICATION MetricsSpec
CONSTANTS
  Jobs = {j1, j2}
  MaxBatch = 2
  Priorities = {"normal"}
  Workers = {w1, w2, w3}
  Initial = 3
  Minimum = 1
  Maximum = 3
  DecNum = 2
  DecDen = 3
  IncreaseAfter = 1
  Keys = {}
  None = None
  PoolSize = 3
  MaxActiveJobs = 2
  MaxQueue = 4
  MaxRetries = 1
SYMMETRY EngineSymmetry
INVARIANT
  EveryThrottleCounted
