CONSTANTS
  Runtimes = {r1, r2}
  Layers = {ground, wall}
  Nodes = {n1, n2}
  Proxies = {p1, p2}
  Movers = {m1}
  MaxHits = 2
  WorldMovers = FALSE
  None = None
SPECIFICATION Spec
INVARIANT TypeOK
INVARIANT DrawnAreAlive
INVARIANT CollisionReadsLiving
INVARIANT StandsOnItsLayer
SYMMETRY Addresses
