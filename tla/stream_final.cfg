SPECIFICATION StreamSpec
CONSTANTS
  Jobs = {j1}
  MaxBatch = 3
  Watched = j1
CHECK_DEADLOCK FALSE
INVARIANT
  FinalEventIsFinal
