SPECIFICATION Spec
CONSTANTS
  a = a
  b = b
  x = x
  t1 = t1
  t2 = t2
  None = None
  Names = {a, b, x}
  Paths <- SmallPaths
  Tasks = {t1, t2}
  MaxId = 4
  Redis = FALSE
  Mounted = TRUE
  WildRenames = FALSE
  CleanMount = FALSE
  Requests <- Ops
  Limit <- TwoRequests
  Total = 2
INVARIANTS
  IdsAreUnique
CHECK_DEADLOCK FALSE
