CONSTANTS
  AddressMax = 1000000
  ByteBase = 128
  OffsetBytes = 4
  Calls <- FirstCall
  Memories <- FirstMemory
SPECIFICATION TestSpec
INVARIANTS
  EveryRunPasses
