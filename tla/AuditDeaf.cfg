SPECIFICATION AdaptersSpec
CONSTANTS
  Tasks = {t1, t2}
  QueueCap = 1
  Window = 1
  MaxEvents = 4
  MaxTime = 2
  Limit <- OneOfEach
  None = None
  Fitting = {1, 2, 3, 4}
PROPERTY
  NothingIsDropped
CHECK_DEADLOCK FALSE
