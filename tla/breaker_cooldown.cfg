\* Two callers, a disturbance at any point of either.
SPECIFICATION FairSpec
CONSTANTS
  Caller = {c1, c2}
  Threshold = 2
  MaxDisturbances = 0
PROPERTY CooldownRespected
