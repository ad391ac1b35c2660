\* The keys may expire between any two steps; a job is retried.
SPECIFICATION Spec
CONSTANTS
  Slot = {s1}
  MaxAttempts = 1
  MaxStalls = 1
  LocksLapse = {}
  KeysExpire = TRUE
  Degrading = {}
  FirstStatus = "PROCESSING"
INVARIANT NoEarlyConsolidation
CHECK_DEADLOCK FALSE
