SPECIFICATION FairSpec
CONSTANTS
  p1 = p1
  p2 = p2
  Panels <- Windows
  Sources <- Both
  MaxStarts = 2
  MaxStops = 2
  Events <- EventKinds
  MaxEvents = 1
INVARIANTS
  TypeOK
  MicVisible
  AudioDelivered
PROPERTIES
  StartEnds
  StopEnds
CHECK_DEADLOCK FALSE
