CONSTANT MaxConns = 2
SPECIFICATION FairSpec
INVARIANTS TypeOK NeverStranded
PROPERTIES CloseEndsReconnecting
CHECK_DEADLOCK FALSE
