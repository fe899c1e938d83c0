SPECIFICATION Spec
CONSTANTS
  c1 = c1
  c2 = c2
  c3 = c3
  None = None
  Clients <- MCClients
  MaxIdle = 2
  MaxActive = 4
  MaxConcurrentStreams = 1
  MaxGets = 3
SYMMETRY MCSymmetry
INVARIANTS
  TypeOK
  HeldIsOpen
  RefBalance
  SlotsMatch
  IdleIsShrunk
  LockIsReleased
CHECK_DEADLOCK FALSE
