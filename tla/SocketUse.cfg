CONSTANTS
  Channels = {0}
  Consumers = {0}
  Senders = {0}
  MaxMessages = 2
  MaxParts = 2
  Closers = {k}
  Droppers = {}
  NoOne = NoOne
SPECIFICATION FairSpec
INVARIANTS NothingLost
PROPERTIES ImplementsOrderedDelivery CloseReturns ReaderReleased ReceiverReleased
CHECK_DEADLOCK FALSE
