CONSTANTS
  t1 = t1
  t2 = t2
  t3 = t3
  k1 = k1
  k2 = k2
  NoTask = NoTask
  Threads <- MCThreads
  Owners <- MCOneOwner
  Tasks <- MCTasks
  Runnable <- MCRunnable
  RacyFree = TRUE
SPECIFICATION Spec
INVARIANT FreeWaitsForSubmitters
CHECK_DEADLOCK FALSE
