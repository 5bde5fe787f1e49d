CONSTANTS
  MaxTurns = 2
SPECIFICATION FairSpec
INVARIANTS TypeOK
PROPERTIES SilentIsClosed CloseEndsHearts
CHECK_DEADLOCK FALSE
