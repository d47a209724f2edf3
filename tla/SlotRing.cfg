SPECIFICATION RingSpec
CONSTANTS
  p1 = p1
  p2 = p2
  NoEvent = NoEvent
  Writers = {p1, p2}
  RingSize = 16
  HdrSize = 2
  EventStrides = {3, 4, 5}
  MaxEvents = 3
  MaxHead = 24
SYMMETRY ProducerSymmetry
CONSTRAINT UntilFault
INVARIANTS LayoutSound EveryCallCounted
PROPERTIES RingIsQueue DropNeedsFullOrLapped
CHECK_DEADLOCK FALSE
