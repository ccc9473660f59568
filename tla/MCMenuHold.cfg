SPECIFICATION Spec
CONSTANTS
  HoldMs = 2
  TimeMax = 3
  MaxSamples = 6
INVARIANTS
  TypeOK
  EventMatchesHistory
  HoldDoesNotUnderflow
  HistoryInv
