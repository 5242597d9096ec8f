SPECIFICATION Spec
CONSTANTS
  Offsets = {0, 1, 2, 3}
  Lens = {0, 1, 2}
  MaxWrites = 3
INVARIANTS
  LoopIsReadAll
  InOrderReadsBack
CHECK_DEADLOCK FALSE
