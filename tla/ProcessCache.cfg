SPECIFICATION Spec
CONSTANTS
  a = a
  b = b
  c = c
  b1 = b1
  b2 = b2
  NoBlock = NoBlock
  Pids = {a, b, c}
  Blocks = {b1, b2}
  MaxStarts = 2
SYMMETRY BlockSymmetry
INVARIANTS TableExact EntriesAccounted CacheTellsTruth
CHECK_DEADLOCK FALSE
