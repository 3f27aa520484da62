SPECIFICATION Spec
CONSTANTS
  h1 = h1
  h2 = h2
  u1 = u1
  u2 = u2
  none = none
  dfu = dfu
  scantask = scantask
  Hubs <- OneHub
  UsbIds <- OneId
  DfuCapable = FALSE
  None = none
  Dfu = dfu
  Scan = scantask
  ChannelCap = 2
  QueueCap = 2
  MaxSpawns = 2
  MaxChanges = 4
INVARIANTS
  OneHandlerPerUuid
CHECK_DEADLOCK FALSE
