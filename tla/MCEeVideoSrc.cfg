SPECIFICATION FairSpec
CONSTANTS
  None = None
  Formats = {"a", "b"}
  Frames = {"f1"}
  Expectations = {None, "a"}
  Capacity = 2
  Poll = 1
  Timeout = 2
  DropIncomplete = TRUE
  MaxPackets = 6
  MaxStarts = 2
INVARIANT InOrder
INVARIANT FramesCounted
INVARIANT OneFormat
INVARIANT ErrorIsLast
INVARIANT ReapedNearTimeout
PROPERTY EndIsNoticed
PROPERTY UnlockReturns
PROPERTY StopReturns
PROPERTY GapsReaped
CHECK_DEADLOCK FALSE
