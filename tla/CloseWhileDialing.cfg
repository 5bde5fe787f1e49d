CONSTANTS
  MaxManagers = 1
  MaxConns = 2
  Idxs = {1}
  Attempts = 2
SPECIFICATION Spec
INVARIANTS CloseEndsLoop
CHECK_DEADLOCK FALSE
