CONSTANTS
  AddressMax = 17
  ByteBase = 4
  OffsetBytes = 2
  Calls <- LayoutCalls
  Memories <- LayoutMemories
SPECIFICATION FairSpec
CHECK_DEADLOCK FALSE
INVARIANTS
  TypeOK
  OutputIsFirstMatches
  UnreadCandidatesIntact
  OnlyOutputsWritten
  RunsExactlyWhenLegal
PROPERTY
  Terminates
