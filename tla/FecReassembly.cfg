CONSTANTS
  DataShards = 2
  ParityShards = 1
  Frames = 3
  MaxLost = 2
SPECIFICATION FairSpec
INVARIANTS TypeOK ReleasedIsDecodable ShardsKept
PROPERTIES ImplementsOrderedDelivery AllDelivered
CHECK_DEADLOCK FALSE
