CONSTANTS
  Callers = {m, k, d}
  Main = m
  Droppers = {d}
  ChannelCount = 2
  NoOne = NoOne
SPECIFICATION ClientSpec
INVARIANTS ClientTypeOK  LastChannelCloses HoldersRun ClosedOnce
CHECK_DEADLOCK FALSE
