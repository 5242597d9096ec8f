SPECIFICATION Spec
CONSTANTS
  a = a
  b = b
  x = x
  t1 = t1
  t2 = t2
  None = None
  Names = {a, b, x}
  Paths <- SmallPaths
  Tasks = {t1}
  MaxId = 4
  Redis = FALSE
  Mounted = FALSE
  WildRenames = FALSE
  CleanMount = FALSE
  Requests = {"create", "exclusive", "mkdir", "symlink", "remove", "rename", "commit", "mount"}
  Limit <- OneOfEach
  Total = 6
SYMMETRY Symmetry
INVARIANTS
  ControlOK
  NamesAreIsolated
  IdsAreUnique
CHECK_DEADLOCK FALSE
