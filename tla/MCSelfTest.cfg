SPECIFICATION Spec
CONSTANTS
  HoldMs = 4
  TimeMax = 12
  BucketMs = 2
INVARIANTS
  TypeOK
  HomeHoldOpensMenu
  DisplayIsCurrent
PROPERTIES
  OnePressOneEffect
  MenuNeedsHomeHold
CHECK_DEADLOCK FALSE
