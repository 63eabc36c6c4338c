SPECIFICATION Spec
CONSTANTS
  None = None
  Formats = {"a", "b"}
  Frames = {"f1"}
  Expectations = {None}
  Capacity = 1
  Poll = 1
  Timeout = 1
  DropIncomplete = TRUE
  MaxPackets = 6
  MaxStarts = 1
INVARIANT FormatChangeIsError
CHECK_DEADLOCK FALSE
