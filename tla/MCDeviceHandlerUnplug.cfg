SPECIFICATION Spec
CONSTANTS
  h1 = h1
  h2 = h2
  r1 = r1
  r2 = r2
  markers = markers
  battery = battery
  n1 = n1
  n2 = n2
  none = none
  wired = wired
  noarg = noarg
  Hubs <- TwoHubs
  Requests <- NoRequests
  BasicStreams <- Basic
  Battery = battery
  MaxVersion = 0
  BatteryVersion = 1
  Firmwares <- OneFw
  Names <- OneName
  NoDevice = none
  WiredVm = wired
  NoArg = noarg
  QueueCap = 2
  MaxLinks = 4
PROPERTIES
  BleSurvivesUnplug
CHECK_DEADLOCK FALSE
