SPECIFICATION Spec
CONSTANTS
  Threads = {1, 2}
  ThreadLists <- MCShortThreadLists
  MaxThreads = 3
  MaxDuration = 2
  TimeMax = 3
  AtomicCalls = FALSE
  MaxGeneration = 2
  MaxForeign = 0
  MaxRollbacks = 0
PROPERTIES
  NoOperationOnRecycledThread
