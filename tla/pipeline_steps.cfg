\* Two requests, one after the other; a command, a call or a worker fails.
SPECIFICATION FairSpec
CONSTANTS
  Request = {r1, r2}
  Concurrent = FALSE
  MaxAttempts = 2
  MaxStalls = 0
  MaxFaults = 1
  Removing = {"transcription", "cleaning", "summary", "deadlines"}
PROPERTIES
  CacheShields
  FinalOnlyFails
  ImplementsChain
  AcceptedIsDecided
CHECK_DEADLOCK FALSE
