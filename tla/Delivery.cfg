SPECIFICATION FairSpec
CONSTANTS
  a1 = a1
  a2 = a2
  d1 = d1
  c1 = c1
  c2 = c2
  AsrWorkers <- TwoAsr
  DiarWorkers <- OneDiar
  Clients <- OneCall
  Diarization <- Mixed
  ParallelChunks = TRUE
  Budgets <- DeliveryBudgets
PROPERTIES
  UploadIsTranscribed
  FinalIsPosted
CHECK_DEADLOCK FALSE
