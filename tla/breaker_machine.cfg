\* One caller, undisturbed: the documented state machine, and the race of each
\* call with its timeout.
SPECIFICATION FairCallSpec
CONSTANTS
  Caller = {c1}
  Threshold = 5
  MaxDisturbances = 0
  ForeignAbort = TRUE
INVARIANTS
  CallTypeOK
  TimerMatchesCall
PROPERTIES
  ImplementsMachine
  CallEnds
CHECK_DEADLOCK FALSE
