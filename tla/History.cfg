SPECIFICATION Spec
CONSTANTS
  Files <- MCFiles
  DayLength = 3
  MaxTime = 8
  None = None
CHECK_DEADLOCK FALSE
INVARIANTS
  TypeOK
  ReplyHoldsRange
  OverlapIsListed
