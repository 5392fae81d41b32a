SPECIFICATION PartsSpec
SYMMETRY Symmetry
CONSTANTS
  n1 = n1
  n2 = n2
  n3 = n3
  x = x
  y = y
  a = a
  b = b
  f1 = f1
  f2 = f2
  k1 = k1
  k2 = k2
  k3 = k3
  k4 = k4
  k5 = k5
  Node = {n1, n2, n3}
  Var = {x, y}
  Fields = 2
  Null = Null
  Delays = {0, 1}
  FirstCapacity = 1
  MaxTimers = 3
  MaxClock = 2
  Sizes = {0, 1, 3}
  Limit = 2
  MaxFrames = 4
  Burst = 2
  Origin = {a, b}
  Fd = {f1, f2}
  Slots = 1
  MaxRequests = 3
  None = None
  Key = {k1, k2, k3, k4, k5}
  Value = {1, 2}
  Empty = Empty
  Tombstone = Tombstone
  FirstBuckets = 4
  Hash <- Hashes
  MaxBuckets = 16
  MaxValues = 4
  MaxScopes = 4
INVARIANTS HeapExact FramesExact MapExact CleanupExact PoolSound
PROPERTIES TimersKept
CHECK_DEADLOCK FALSE
