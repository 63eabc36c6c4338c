SPECIFICATION FairSpec
CONSTANTS
  None = None
  Interfaces = {"eth0", "eth1"}
  Devices = {"a", "b"}
  MaxRepeats = 1
  Clients = {"eeview", "eevid"}
  Viewers = {"eeview"}
  MaxLayouts = 2
  MaxCrashes = 1
  MaxMessages = 2
INVARIANT RightDevice
INVARIANT SuccessIsComplete
PROPERTY InterruptEnds
CHECK_DEADLOCK FALSE
