\* Three callers, a disturbance at any point of each.
SPECIFICATION FairSpec
CONSTANTS
  Caller = {c1, c2, c3}
  Threshold = 2
  MaxDisturbances = 2
INVARIANTS
  TypeOK
  ThresholdEnforced
  HalfOpenIsDecided
PROPERTIES
  Recovers
  Protects
CHECK_DEADLOCK FALSE
