CONSTANTS
  Ids = {x}
  Indexes = {0}
  Streams = {t1, t2, t3}
  MaxSockets = 3
  Closers = {k}
  Main = main
  NoOne = NoOne
  Datagrams = TRUE
SYMMETRY StreamSymmetry
SPECIFICATION Spec
INVARIANTS TypeOK AcceptedThenEnded TableFindsSockets ServerCloseEndsSockets NoDeadlock
CHECK_DEADLOCK FALSE
