SPECIFICATION Spec
CONSTANTS
  w1 = w1
  w2 = w2
  l1 = l1
  l2 = l2
  Nothing = Nothing
  EventSize = 66
  HeaderSize = 16
  BufferMax = 32768
  ReceiveMax = 4096
  PathMax = 1022
  Workers = {w1, w2}
  Loops = {l1, l2}
  QueueCapacity = 2
  MaxEvents = 3
  Happenings <- MCHappenings
INVARIANTS EventsAccounted PublishedIsTrue OvertakesOnlyTogether
CHECK_DEADLOCK FALSE
