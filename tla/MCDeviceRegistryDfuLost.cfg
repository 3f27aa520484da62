SPECIFICATION Spec
CONSTANTS
  h1 = h1
  h2 = h2
  u1 = u1
  u2 = u2
  none = none
  dfu = dfu
  scantask = scantask
  Hubs <- NoHubs
  UsbIds <- OneId
  DfuCapable = TRUE
  None = none
  Dfu = dfu
  Scan = scantask
  ChannelCap = 2
  QueueCap = 2
  MaxSpawns = 2
  MaxChanges = 3
INVARIANTS
  LiveHandlerIsListed
CHECK_DEADLOCK FALSE
