SPECIFICATION FairSpec
CONSTANTS
  MaxChunks = 3
  MaxConns = 2
  PipeChunks = 1
  Limit = 2
  Pipelines <- Both
  Autoprolong = TRUE
  RedisUp <- Working
  Events <- EventKinds
  MaxEvents = 2
  Requests <- Asked
  NoChunk = none
  Limits <- TwoLimits
  ByteFloor = 1
  TimeFloor = 2
  FrameSizes <- ShortFrames
  MaxFrames = 3
  MaxLength = 22
INVARIANTS
  TypeOK
  AudioKept
  OneFinalPerId
  AckedIsQueued
  AllHeard
  TextKept
PROPERTIES
  DraftGrows
  StopEnds
CHECK_DEADLOCK FALSE
