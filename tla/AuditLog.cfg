SPECIFICATION FairAdapters
CONSTANTS
  Tasks = {t1, t2}
  QueueCap = 1
  Window = 1
  MaxEvents = 5
  MaxTime = 2
  Limit <- OneOfEach
  None = None
  Fitting = {1, 2, 4}
INVARIANTS
  HandlerOK
  WindowsInOrder
  SubmittedInOrder
  EveryEventIsAccounted
PROPERTIES
  RecordedStays
  DropsOnlyWhenFresh
  SendersGoOn
CHECK_DEADLOCK FALSE
