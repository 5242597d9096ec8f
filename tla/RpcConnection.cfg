SPECIFICATION FairSpec
CONSTANTS
  OverflowChecks = TRUE
  Calls <- SixCalls
  MaxCalls = 2
  Size = 2
  Cuts <- ThreeCuts
  ChunkCap = 4
  PipeCap = 3
  OutCap = 1
  None = None
INVARIANTS
  RecordsAreWhole
  AnsweredOnce
  NoReplyIsLost
  AnswersFit
PROPERTIES
  EveryCallIsAnswered
  AcceptedAreRun
CHECK_DEADLOCK FALSE
