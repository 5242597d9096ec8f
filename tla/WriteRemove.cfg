SPECIFICATION Spec
CONSTANTS
  f1 = f1
  f2 = f2
  p1 = p1
  p2 = p2
  t1 = t1
  t2 = t2
  None = None
  NoSize = NoSize
  Monitor = monitor
  Files = {f1, f2}
  Paths = {p1}
  PackPaths = {}
  GitPaths = {}
  InitPath <- OneOfTwo
  Tasks = {t1, t2}
  Permits = 1
  MaxChannels = 2
  Offsets = {0, 1}
  Lens = {1}
  AttrCounts = {1}
  Grain = 1
  AtomicHset = FALSE
  Limit <- RemoveBounds
SYMMETRY Symm
INVARIANTS
  Invariant
PROPERTIES
  BatchesImplemented
  MonitorTakesOnlyComplete
CHECK_DEADLOCK FALSE
