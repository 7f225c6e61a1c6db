SPECIFICATION ServicesSpec
CONSTANTS
  w1 = w1
  w2 = w2
  w3 = w3
  x1 = x1
  x2 = x2
  Writers = {w1, w2, w3}
  Closers = {x1, x2}
  Nobody = Nobody
  c1 = c1
  c2 = c2
  Clients = {c1, c2}
  Depth = 2
  MaxFrames = 3
  q1 = q1
  q2 = q2
  q3 = q3
  Callers = {q1, q2, q3}
  MaxBoot = 3
  d1 = d1
  d2 = d2
  z1 = z1
  z2 = z2
  Docs = {d1, d2}
  Zlibs = {z1, z2}
  None = None
  Length = 4
  Buffer = 2
  PoolMax = 1
  k1 = k1
  k2 = k2
  k3 = k3
  exact = exact
  star = star
  Keys = {k1, k2, k3}
  Tags = {news, team}
  Absent = Absent
  NoKey = NoKey
  MaxCachedPages = 2
  Paths = {exact, star}
  Names <- MCNames
  MaxBody = 0
CHECK_DEADLOCK FALSE
INVARIANTS
  CacheIsExact
  ClosedIsSilent
  SubscribersAreTold
  PumpsAreSafe
PROPERTIES
  OneFetchCatchesUp
  NobodyIsLeftWaiting
