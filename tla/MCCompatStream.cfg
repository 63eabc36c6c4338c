SPECIFICATION StreamSpec
CONSTANTS
  None = None
  NFrames = 2
  Formats = {"a", "b"}
  FrameLength <- MCFrameLength
  ChunkLen = 2
  MaxStarts = 2
  MaxCopies = 2
  Networks <- MCNetworks
  MaxId = 4
  Timeout = 1
  MaxPackets = 10
PROPERTY ImplementsDelivery
INVARIANT MixNeedsReuse
INVARIANT ReorderingIsFree
INVARIANT OrderedReuseIsFree
CHECK_DEADLOCK FALSE
