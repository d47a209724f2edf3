SPECIFICATION QueueFairSpec
CONSTANTS
  t1 = t1
  t2 = t2
  t3 = t3
  Threads = {t1, t2, t3}
  MaxSize = 2
INVARIANTS WakeupsSuffice NobodySleepsClosed
PROPERTIES CloseReleases TimedCallsReturn
