SPECIFICATION Spec
CONSTANTS
  Texts = {"truncated", "auto", "no section"}
  MaxEdits = 2
  Hardware = 2
  Configured = 1
  MaxThreads = 2
  Clients = {c1}
INVARIANTS NothingSkipped StopIsOrderly
PROPERTIES ChangesDelivered SignalStops
