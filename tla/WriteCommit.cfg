SPECIFICATION Spec
CONSTANTS
  f1 = f1
  f2 = f2
  p1 = p1
  p2 = p2
  t1 = t1
  t2 = t2
  None = None
  NoSize = NoSize
  Monitor = monitor
  Files = {f1, f2}
  Paths = {p1, p2}
  PackPaths = {p2}
  GitPaths = {p1}
  InitPath <- TwoFiles
  Tasks = {t1, t2}
  Permits = 2
  MaxChannels = 3
  Offsets = {0}
  Lens = {1}
  AttrCounts = {0}
  Grain = 2
  AtomicHset = FALSE
  Limit <- CommitBounds
SYMMETRY Symm
INVARIANTS
  PackNeverStored
  OneCommitter
  OpenIsReachable
  PermitsAccounted
  Invariant
CHECK_DEADLOCK FALSE
