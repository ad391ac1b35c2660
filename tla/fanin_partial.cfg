\* A meeting reported COMPLETED used no fallback.
SPECIFICATION Spec
CONSTANTS
  Slot = {s1}
  MaxAttempts = 1
  MaxStalls = 1
  LocksLapse = {}
  KeysExpire = FALSE
  Degrading = {"summary", "deadlines"}
  FirstStatus = "PROCESSING"
INVARIANT FallbackReported
CHECK_DEADLOCK FALSE
