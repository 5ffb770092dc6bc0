CONSTANTS
  Actors = {a1, a2}
  Priorities <- EachLayer
  MaxCalls = 2
  InitMay = {}
SPECIFICATION Spec
CHECK_DEADLOCK FALSE
INVARIANT TypeOK
INVARIANT IndexedOnce
INVARIANT IteratedLive
INVARIANT DrawnInItsLayer
INVARIANT MovedAreCurrent
INVARIANT NothingLeft
SYMMETRY AnySlot
