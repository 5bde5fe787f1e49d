CONSTANTS
  Channels = {0, 1}
  Consumers = {}
  Senders = {}
  MaxMessages = 1
  MaxParts = 2
  Closers = {k}
  Droppers = {d}
  NoOne = NoOne
SPECIFICATION Spec
INVARIANTS TypeOK TableMatchesChannels OneCloserPerChannel NotifiedOnce AllGoneNotified
PROPERTIES ImplementsProtocol
CHECK_DEADLOCK FALSE
