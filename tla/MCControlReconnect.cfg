SPECIFICATION SourceSpec
CONSTANTS
  None = None
  Configs <- MCConfigs
  Users = {"any"}
  Channels <- MCReliable
  MaxAttempts = 1
  MaxStarts = 0
  CanConnectFail = FALSE
INVARIANT StartAfterConfigure
CHECK_DEADLOCK FALSE
