SPECIFICATION DaemonSpec
CONSTANTS
  None = None
  Ips = {1}
  Ports = {5000}
  Mtus = {100, 1200}
  MinMtu = 256
  Native = "uyvy"
  Formats = {"uyvy", "mono8", "odd", "zero"}
  Known = {"uyvy", "mono8", "odd"}
  Capturable = {"uyvy", "mono8"}
  ArgusFormats = {"uyvy", "odd"}
  NPackets = 2
  MaxWrites = 3
  MaxFailures = 2
INVARIANT FrameAsConfigured
INVARIANT StopsWithinAFrame
INVARIANT CaptureReleased
PROPERTY StopsOnInterrupt
PROPERTY SettingsTakeEffect
PROPERTY KeepsStreaming
CHECK_DEADLOCK FALSE
