SPECIFICATION FairSpec
CONSTANTS
  f1 = f1
  f2 = f2
  p1 = p1
  p2 = p2
  t1 = t1
  t2 = t2
  None = None
  NoSize = NoSize
  Monitor = monitor
  Files = {f1}
  Paths = {p1}
  PackPaths = {}
  GitPaths = {}
  InitPath <- OneFile
  Tasks = {t1}
  Permits = 1
  MaxChannels = 4
  Offsets = {0, 1, 2}
  Lens = {1}
  AttrCounts = {1}
  Grain = 1
  AtomicHset = TRUE
  Limit <- ClientBounds
PROPERTIES
  ExtendKeepsBytes
CHECK_DEADLOCK FALSE
