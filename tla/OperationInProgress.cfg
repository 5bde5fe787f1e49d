CONSTANTS
  Channels = {0}
  Consumers = {0}
  Senders = {0}
  MaxMessages = 1
  MaxParts = 1
  Closers = {k}
  Droppers = {}
  NoOne = NoOne
SPECIFICATION Spec
INVARIANTS OperationsSurviveClose
CHECK_DEADLOCK FALSE
