CONSTANTS
  Sockets = {a, b}
  Indexes = {0}
  PerSocket = 1
  Base = 4
  Info <- InfoBytes
  MaxInfo = 2
  Payloads <- Messages
  Sizes = {8}
  MaxWrites = 1
  MaxLost = 1
SPECIFICATION FairSpec
INVARIANTS ReceiveTypeOK BytesIntact
PROPERTIES BlockedIsWoken
CHECK_DEADLOCK FALSE
