\* The summary job's lock may lapse: two deliveries of it overlap.
SPECIFICATION Spec
CONSTANTS
  Slot = {s1, s2}
  MaxAttempts = 1
  MaxStalls = 1
  LocksLapse = {"summary"}
  KeysExpire = FALSE
  Degrading = {"summary"}
  FirstStatus = "PROCESSING"
SYMMETRY Symmetry
INVARIANTS
  NoEarlyConsolidation
  CompletedIsEarned
CHECK_DEADLOCK FALSE
