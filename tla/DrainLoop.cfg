CONSTANTS
  DataShards = 2
  ParityShards = 1
  Frames = 1
  MaxLost = 1
SPECIFICATION FairSpec
PROPERTIES DrainEnds
CHECK_DEADLOCK FALSE
