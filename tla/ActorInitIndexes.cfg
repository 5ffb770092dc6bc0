CONSTANTS
  Actors = {a1, a2}
  Priorities = {0}
  MaxCalls = 1
  InitMay = {"index"}
SPECIFICATION UnclearedSpec
CHECK_DEADLOCK FALSE
INVARIANT MovedAreCurrent
