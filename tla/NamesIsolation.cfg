SPECIFICATION Spec
CONSTANTS
  a = a
  b = b
  x = x
  t1 = t1
  t2 = t2
  None = None
  Names = {a, b, x}
  Paths <- SmallPaths
  Tasks = {t1, t2}
  MaxId = 4
  Redis = TRUE
  Mounted = FALSE
  WildRenames = FALSE
  CleanMount = TRUE
  Requests = {"create", "mkdir", "symlink", "remove", "rename", "commit", "mount"}
  Limit <- OneFault
  Total = 5
SYMMETRY Symmetry
INVARIANTS
  NamesAreIsolated
  ContentIsIsolated
  DirectoriesAreIsolated
  IdsAreUnique
CHECK_DEADLOCK FALSE
