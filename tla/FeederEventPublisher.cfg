SPECIFICATION FairSpec
CONSTANTS
  s1 = s1
  s2 = s2
  e1 = e1
  e2 = e2
  Nobody = Nobody
  Streams = {s1, s2}
  Publishers = {e1, e2}
  MaxEvents = 2
INVARIANT StreamsSound
PROPERTIES ActiveAreReached GoneStreamsEnd
CHECK_DEADLOCK FALSE
