SPECIFICATION Spec
CONSTANTS
  f1 = f1
  t1 = t1
  t2 = t2
  t3 = t3
  None = None
  Files = {f1}
  Threads = {t1, t2, t3}
  MaxOps = 3
SYMMETRY ThreadSymmetry
INVARIANTS ContextsSound ReportsFaithful OneStory
CHECK_DEADLOCK FALSE
