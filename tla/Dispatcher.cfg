SPECIFICATION FairSpec
CONSTANTS
  p1 = p1
  p2 = p2
  c1 = c1
  NoPort = NoPort
  NoTicket = NoTicket
  Producers = {p1, p2}
  Ports = {c1}
  Capacity = 2
  MaxCalls = 3
  MaxTakes = 2
CONSTRAINT BrokenBound
INVARIANTS TypeOK OneFateEach CountersExact RingOutlivesWorker DrainKeepsPromise
PROPERTIES CommittedIsTaken UnloadCompletes
CHECK_DEADLOCK FALSE
