SPECIFICATION Spec
CONSTANTS
  Threads = {1, 2}
  ThreadLists <- MCShortThreadLists
  MaxThreads = 3
  MaxDuration = 2
  TimeMax = 3
  AtomicCalls = TRUE
  MaxGeneration = 1
  MaxForeign = 0
  MaxRollbacks = 1
PROPERTIES
  RollbackIsExpiry
