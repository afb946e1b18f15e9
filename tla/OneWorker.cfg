SPECIFICATION FairSpec
CONSTANTS
  a1 = a1
  a2 = a2
  d1 = d1
  c1 = c1
  c2 = c2
  AsrWorkers <- OneAsr
  DiarWorkers <- OneDiar
  Clients <- TwoCalls
  Diarization <- On
  ParallelChunks = FALSE
  Budgets <- HandlerBudgets
INVARIANTS
  RunningHasWriter
  ActiveIsSuccess
  DerivedFromSuccess
PROPERTIES
  FailureMarksOwnRow
  Settles
  SnapshotsHideNothing
CHECK_DEADLOCK FALSE
