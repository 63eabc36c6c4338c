SPECIFICATION SourceSpec
CONSTANTS
  None = None
  Configs <- MCConfigs
  Users = {"any", "element"}
  Channels <- MCChannels
  MaxAttempts = 2
  MaxStarts = 2
  CanConnectFail = TRUE
INVARIANT SessionMatchesConnection
INVARIANT ViewIsCurrent
INVARIANT WritesHappened
INVARIANT NoSilentRunaway
INVARIANT DestinationWhole
PROPERTY CallsReturn
CHECK_DEADLOCK FALSE
