CONSTANTS
  MaxSlots = 2
  Delays = {1}
  Margins = {0}
  FadeDurations = {1}
  ReplaceFade = 1
  StartOutcomes = {"started"}
  MayShutDown = FALSE
SPECIFICATION FairSpec
PROPERTY EveryReplacedIsFreed
