SPECIFICATION LiveSpec
CONSTANTS
  Jobs = {j1, j2}
  MaxBatch = 2
  Priorities = {"normal"}
  Workers = {w1, w2}
  Initial = 2
  Minimum = 1
  Maximum = 2
  DecNum = 1
  DecDen = 2
  IncreaseAfter = 1
  Keys = {}
  None = None
  PoolSize = 2
  MaxActiveJobs = 2
  MaxQueue = 3
  MaxRetries = 1
PROPERTY
  FinalStatesAreFinal
  ImplementsLifecycle
  JobsFinish
  ReadyAgain
  ShutdownEnds
