SPECIFICATION FewStarts
CONSTANTS
  h1 = h1
  h2 = h2
  r1 = r1
  r2 = r2
  markers = markers
  battery = battery
  n1 = n1
  n2 = n2
  none = none
  wired = wired
  noarg = noarg
  Hubs <- OneHub
  Requests <- OneCall
  BasicStreams <- Basic
  Battery = battery
  MaxVersion = 1
  BatteryVersion = 1
  Firmwares <- TwoFws
  Names <- OneName
  NoDevice = none
  WiredVm = wired
  NoArg = noarg
  QueueCap = 2
  MaxLinks = 3
INVARIANTS
  TypeOK
  PausedIsArmed
  StreamsHaveDevice
  ControlIsAdvertised
  EventsAreAdvertised
  PublishedIsCurrent
  NoIdleHandler
  WaitingIsQueued
PROPERTIES
  ImplementsLinkHandler
  MarkGoesWithControl
  PausedStreamsResume
  EveryCallReturns
  UselessHandlerEnds
CHECK_DEADLOCK FALSE
