SPECIFICATION FairSpec
CONSTANTS
  h1 = h1
  h2 = h2
  u1 = u1
  u2 = u2
  none = none
  dfu = dfu
  scantask = scantask
  Hubs <- OneHub
  UsbIds <- NoIds
  DfuCapable = FALSE
  None = none
  Dfu = dfu
  Scan = scantask
  ChannelCap = 2
  QueueCap = 2
  MaxSpawns = 3
  MaxChanges = 6
INVARIANTS
  ListIsCurrent
  ConnectBeforeUpdate
PROPERTIES
  ScanPassesEnd
CHECK_DEADLOCK FALSE
