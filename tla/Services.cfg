CONSTANTS
  Tables = {t1, t2}
  Blocks = 2
  Paths = {p1, p2, p3}
  Normalized = {p1, p2}
  Colliding = {p1, p2}
  MaxMounts = 2
  MaxListed = 2
  MaxRead = 3
  Word = 32
  c1 = c1
  c2 = c2
  c3 = c3
  Containers = {c1, c2, c3}
  Root = c1
  MaxSlots = 2
  Room <- Rooms
  MaxNesting = 2
  Capacity = 6
  MaxArray = 1
  Scenes = {s1, s2, s3}
  NoScene = NoScene
SPECIFICATION Spec
INVARIANT ServicesTypeOK
INVARIANT LoadIsWhole
INVARIANT SavedReadable
INVARIANT OpensLatest
INVARIANT ReadsItsEntry
INVARIANT ReadsBack
INVARIANT ScenesAccounted
PROPERTY ImplementsSceneLife
PROPERTY ScenesAreDestroyed
CHECK_DEADLOCK FALSE
