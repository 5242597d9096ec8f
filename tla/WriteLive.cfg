SPECIFICATION FairSpec
CONSTANTS
  f1 = f1
  f2 = f2
  p1 = p1
  p2 = p2
  t1 = t1
  t2 = t2
  None = None
  NoSize = NoSize
  Monitor = monitor
  Files = {f1, f2}
  Paths = {p1, p2}
  PackPaths = {}
  GitPaths = {p1}
  InitPath <- TwoFiles
  Tasks = {t1}
  Permits = 1
  MaxChannels = 3
  Offsets = {0, 2}
  Lens = {1}
  AttrCounts = {0}
  Grain = 1
  AtomicHset = TRUE
  Limit <- LiveBounds
PROPERTIES
  EveryRequestAnswered
  CompleteIsTaken
  SequentialWritesAreCommitted
  SequentialSizeCovers
CHECK_DEADLOCK FALSE
