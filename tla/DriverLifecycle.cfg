SPECIFICATION FairSpec
CONSTANTS
  t1 = t1
  t2 = t2
  v1 = v1
  p1 = p1
  p2 = p2
  b1 = b1
  b2 = b2
  None = None
  Requesters = {t1, t2}
  Volumes = {v1}
  Paths = {p1, p2}
  Blocks = {b1, b2}
  NumBuckets = 2
  HashIndex <- MCHashIndex
  MaxRequests = 3
INVARIANTS LifecycleClean RulesConsistent
PROPERTY RequestsReturn
CHECK_DEADLOCK FALSE
