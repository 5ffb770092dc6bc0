CONSTANTS
  MaxSlots = 3
  MaxGeneration = 4
  Documents = {d1, d2}
  Source = Source
  NoDocument = NoDocument
  SourceLayers = 2
  MaxLayers = 3
  MaxCalls = 4
SPECIFICATION CallbacksSpec
INVARIANT CallbacksTypeOK
INVARIANT SlotsAccounted
INVARIANT StaleNeverResolves
INVARIANT StageIsWhole
INVARIANT TexturesBalanced
