SPECIFICATION Spec
CONSTANTS
  Threads = {1, 2, 3}
  ThreadLists <- MCLedgerLists
  MaxThreads = 3
  MaxDuration = 1
  TimeMax = 2
  AtomicCalls = TRUE
  MaxGeneration = 3
  MaxForeign = 1
  MaxRollbacks = 0
PROPERTIES
  ImplementsLedger
