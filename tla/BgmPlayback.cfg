CONSTANTS
  MaxSlots = 2
  Delays = {0, 1}
  Margins = {0, 1}
  FadeDurations = {0, 1}
  ReplaceFade = 1
  StartOutcomes = {"started", "no_update", "no_loader", "failed"}
  MayShutDown = TRUE
SPECIFICATION Spec
INVARIANT TypeOK
INVARIANT Accounted
INVARIANT OneStreamStays
INVARIANT RetirementSignalled
INVARIANT JoinedBeforeRelease
PROPERTY NeverTakenBack
PROPERTY ImplementsLifecycle
