SPECIFICATION SchedSpec
CONSTANTS
  Jobs = {j1, j2, j3}
  MaxBatch = 2
  Priorities = {"normal", "low"}
PROPERTY
  NoJobStarves
