SPECIFICATION FairSpec
CONSTANTS
  Jobs = {j1, j2, j3}
  MaxBatch = 5
  Priorities = {"high", "normal", "low"}
SYMMETRY JobSymmetry
INVARIANTS
  SchedTypeOK
  PendingIsExact
  BoundedBypass
  SomeoneInCredit
