SPECIFICATION FairSpec
CONSTANTS
  w1 = w1
  w2 = w2
  main = main
  x1 = x1
  x2 = x2
  NoContext = NoContext
  Contexts = {x1, x2}
  Workers = {w1, w2}
  Main = main
  Operations = 3
  QueueSize = 1
  MaxMessages = 3
INVARIANTS NothingLost ClosedAfterUse
PROPERTIES DisconnectReturns
CHECK_DEADLOCK FALSE
