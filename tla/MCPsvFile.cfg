CONSTANTS
  Capacities <- MCCapacities
  LegacyMaxCheats = 50
  LegacyMaxCodes = 200
  MaxSourceLines = 20
  Texts <- MCTexts
  Arguments <- MCArguments
  AddressMax = 37
  RecordBytes = 2
  MaxSourceBytes = 13
  MaxDescription = 2
  CodeDigits = 1
  WordDigits = 2
  WriteCodes = {0}
  SelectorCode = 11
  MaxSerial = 16
SPECIFICATION FileSpec
CHECK_DEADLOCK FALSE
INVARIANTS
  SpansReconstructSource
  LinesReadAsWritten
  DescriptionsExact
  RefusedExactlyWhenOverlapping
