CONSTANT MaxAttempts = 8
SPECIFICATION FairSpec
CHECK_DEADLOCK FALSE
INVARIANT TypeOK
INVARIANT NoFrameForgotten
INVARIANT ReleasedLast
PROPERTY NeverTorn
PROPERTY ShutdownEnds
PROPERTY DeviceRecovers
