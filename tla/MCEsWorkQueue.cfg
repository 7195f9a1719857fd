CONSTANTS
  t1 = t1
  t2 = t2
  t3 = t3
  k1 = k1
  k2 = k2
  NoTask = NoTask
  Threads <- MCThreads
  Owners <- MCTwoOwners
  Tasks <- MCTasks
  Runnable <- MCRunnable
  RacyFree = FALSE
SPECIFICATION FairSpec
INVARIANTS
  TypeOK
  OneHolder
  NumTasksExact
  NoTaskTouchesFreedQueue
PROPERTIES
  SizeCountsWaiting
  NothingRunsAfterShutdown
  ReturnsUnlessOvertaken
  ImplementsTaskQueue
CHECK_DEADLOCK FALSE
