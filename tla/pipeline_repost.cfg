\* Two requests with the same meetingId at the same time; nothing fails.
SPECIFICATION FairSpec
CONSTANTS
  Request = {r1, r2}
  Concurrent = TRUE
  MaxAttempts = 1
  MaxStalls = 0
  MaxFaults = 0
  Removing = {}
PROPERTY ProgressKept
CHECK_DEADLOCK FALSE
