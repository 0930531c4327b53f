SPECIFICATION ReaderSpec
CONSTANTS
  Jobs = {j1}
  MaxBatch = 4
  Watched = j1
  PageSize = 2
CHECK_DEADLOCK FALSE
INVARIANTS
  StreamTypeOK
  FinalNameIsTrue
  NothingPresentIsMissed
  CompletedExportIsExact
  ExportIsBounded
PROPERTY
  EndIsTold
