SPECIFICATION RingFairSpec
CONSTANTS
  p1 = p1
  p2 = p2
  NoEvent = NoEvent
  Writers = {p1, p2}
  RingSize = 16
  HdrSize = 1
  EventStrides = {3}
  MaxEvents = 3
  MaxHead = 24
CONSTRAINT UntilGivenUp
PROPERTIES EverySlotPassed
CHECK_DEADLOCK FALSE
