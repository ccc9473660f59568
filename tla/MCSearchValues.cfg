CONSTANTS
  AddressMax = 40
  ByteBase = 2
  OffsetBytes = 2
  Calls <- ValuesCalls
  Memories <- ValuesMemories
SPECIFICATION Spec
CHECK_DEADLOCK FALSE
INVARIANTS
  OutputIsFirstMatches
  RunsExactlyWhenLegal
