SPECIFICATION Spec
CONSTANTS
  Capacities <- MCCapacities
  LegacyMaxCheats = 1
  LegacyMaxCodes = 1
  MaxSourceLines = 5
INVARIANTS
  TypeOK
  TranslationMatchesSource
  CrossIndexesClosed
  AllOrNothing
  ReportMatchesSource
  AddressModeMatchesSelector
CHECK_DEADLOCK FALSE
