SPECIFICATION FairSpec
CONSTANTS
  None = None
  Formats = {"a", "b"}
  Frames = {"f1"}
  Expectations = {None}
  Capacity = 1
  Poll = 1
  Timeout = 2
  DropIncomplete = TRUE
  MaxPackets = 4
  MaxStarts = 1
PROPERTY GapsAlwaysReaped
CHECK_DEADLOCK FALSE
