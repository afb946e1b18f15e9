SPECIFICATION Spec
CONSTANTS
  a1 = a1
  a2 = a2
  d1 = d1
  c1 = c1
  c2 = c2
  AsrWorkers <- TwoAsr
  DiarWorkers <- OneDiar
  Clients <- OneCall
  Diarization <- On
  ParallelChunks = FALSE
  Budgets <- WrongRowBudgets
PROPERTIES
  FailureMarksOwnRow
CHECK_DEADLOCK FALSE
