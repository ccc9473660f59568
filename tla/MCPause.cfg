SPECIFICATION Spec
CONSTANTS
  Threads = {1, 2, 3}
  ThreadLists <- MCThreadLists
  MaxThreads = 3
  MaxDuration = 2
  TimeMax = 3
  AtomicCalls = TRUE
  MaxGeneration = 2
  MaxForeign = 1
  MaxRollbacks = 1
INVARIANTS
  TypeOK
  LedgerMatchesKernel
  ActiveIffOwning
  StatusTellsTheTruth
  PartialOwnershipReported
  DeadlineSound
  IInv
PROPERTIES
  TransactionPinned
  EveryOwnedResumeTried
  NoOperationOnRecycledThread
