CONSTANTS
  MaxSlots = 2
  Delays = {0, 1}
  Margins = {0}
  FadeDurations = {1}
  ReplaceFade = 1
  StartOutcomes = {"started", "no_update", "no_loader", "failed"}
  MayShutDown = TRUE
SPECIFICATION LiveSpec
PROPERTY FinishedIsFreed
PROPERTY ShutdownEnds
