SPECIFICATION FairSpec
CONSTANTS
  k1 = k1
  k2 = k2
  None = None
  Keys <- MCOneKey
  MaxRows = 2
  MaxFrames = 5
  TsOf <- MCTsOf
CHECK_DEADLOCK FALSE
INVARIANTS
  TypeOK
  SentInOrder
  NoRowLost
  SentBeforeClose
PROPERTIES
  KeptIsSent
