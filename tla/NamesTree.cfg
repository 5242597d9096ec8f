SPECIFICATION TreeSpec
CONSTANTS
  a = a
  b = b
  x = x
  t1 = t1
  t2 = t2
  None = None
  Names = {a, b, x}
  Paths <- SmallPaths
  Tasks = {t1, t2}
  MaxId = 4
  Redis = TRUE
  Mounted = FALSE
  WildRenames = FALSE
  CleanMount = TRUE
  Requests = {"create", "mkdir", "symlink", "remove", "rename", "commit", "mount"}
  Limit <- FourAndFault
  Total = 6
  PageSizes = {1}
  ListingCost = 3
  ReadsFail = TRUE
SYMMETRY Symmetry
INVARIANTS
  ListingOK
  LoneListingIsTheTree
  CreatesHideNothing
  EntriesAreTrue
  FailsOnlyOverDisturbed
PROPERTIES
  RequestsAreWhole
CHECK_DEADLOCK FALSE
