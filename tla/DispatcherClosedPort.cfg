SPECIFICATION Spec
CONSTANTS
  p1 = p1
  c1 = c1
  c2 = c2
  NoPort = NoPort
  NoTicket = NoTicket
  Producers = {p1}
  Ports = {c1, c2}
  Capacity = 2
  MaxCalls = 2
  MaxTakes = 3
SYMMETRY Symmetry
PROPERTIES NoSendOnClosedPort
CHECK_DEADLOCK FALSE
