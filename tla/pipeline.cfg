\* One request; two commands, calls or workers fail, anywhere.
SPECIFICATION Spec
CONSTANTS
  Request = {r1}
  Concurrent = FALSE
  MaxAttempts = 2
  MaxStalls = 1
  MaxFaults = 2
  Removing = {"cleaning", "summary"}
INVARIANTS
  TypeOK
  HandedOver
  DeadStageReported
  ResultsAgree
  LostResultHasFailure
  QuietIsDecided
CHECK_DEADLOCK FALSE
