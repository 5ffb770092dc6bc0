CONSTANTS
  Actors = {a1, a2}
  Priorities = {0}
  MaxCalls = 1
  InitMay = {}
SPECIFICATION FairSpec
CHECK_DEADLOCK FALSE
PROPERTY ReleasedIsRetired
