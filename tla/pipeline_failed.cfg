\* A FAILED meeting has a job in the failed set.
SPECIFICATION Spec
CONSTANTS
  Request = {r1}
  Concurrent = FALSE
  MaxAttempts = 2
  MaxStalls = 1
  MaxFaults = 1
  Removing = {}
INVARIANT FailedMeansExhausted
CHECK_DEADLOCK FALSE
