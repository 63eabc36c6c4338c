SPECIFICATION FairSpec
CONSTANTS
  None = None
  b0 = b0
  b1 = b1
  b2 = b2
  Bodies <- MCBodies
  Size <- MCSize
  FrameIds = {f1}
  MaxId = 4
  Lengths = {0, 3}
  Timeout = 1
  MaxPackets = 7
INVARIANT TypeOK
INVARIANT DeliveredInOrder
INVARIANT DeliveredInFull
INVARIANT Reconciled
INVARIANT HoldsWhatArrived
INVARIANT MemoryBounded
INVARIANT Accounted
PROPERTY OnlyGrows
PROPERTY GapsTimeOut
CHECK_DEADLOCK FALSE
