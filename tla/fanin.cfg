\* One delivery of a job at a time, keys that live: what the join promises.
SPECIFICATION FairSpec
CONSTANTS
  Slot = {s1}
  MaxAttempts = 2
  MaxStalls = 1
  LocksLapse = {}
  KeysExpire = FALSE
  Degrading = {"summary", "deadlines"}
  FirstStatus = "PROCESSING"
INVARIANTS
  TypeOK
  JoinComplete
  StatusHonest
  ResultsAgree
  JoinInvariant
PROPERTIES
  FinalIsStable
  CacheShields
  EventuallySettled
  ImplementsJoin
CHECK_DEADLOCK FALSE
