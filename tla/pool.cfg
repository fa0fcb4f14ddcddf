SPECIFICATION FairSpec
CONSTANTS
  Clients = {c1, c2, c3}
  InitialSize = 1
  MaxSize = 2
  Pings = TRUE
  NoNode = NoNode
INVARIANTS
  PoolInv
  ExclusiveUse
  NoLostWakeup
PROPERTIES
  WaitersAreWoken
  CancelDrains
CHECK_DEADLOCK FALSE
