SPECIFICATION SelfTestSpec
CONSTANTS
  Jobs = {jp, jf, j1}
  MaxBatch = 1
  Priorities = {"low", "normal"}
  Workers = {w1, w2}
  Initial = 3
  Minimum = 1
  Maximum = 2
  DecNum = 1
  DecDen = 2
  IncreaseAfter = 2
  Keys = {kp, kf}
  None = None
  PoolSize = 2
  MaxActiveJobs = 2
  MaxQueue = 2
  MaxRetries = 1
  Primary = jp
  Fair = jf
  PrimaryKey = kp
  FairKey = kf
  TestSize = 1
  FairSize = 1
INVARIANTS
  CalmTestPasses
  PassedMeansDone
  Backpressure
PROPERTY
  TestEnds
