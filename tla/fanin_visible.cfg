\* A COMPLETED meeting shows both results.
SPECIFICATION Spec
CONSTANTS
  Slot = {s1}
  MaxAttempts = 1
  MaxStalls = 1
  LocksLapse = {}
  KeysExpire = FALSE
  Degrading = {}
  FirstStatus = "PROCESSING"
INVARIANT ResultsVisible
CHECK_DEADLOCK FALSE
