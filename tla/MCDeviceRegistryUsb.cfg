SPECIFICATION FairSpec
CONSTANTS
  h1 = h1
  h2 = h2
  u1 = u1
  u2 = u2
  none = none
  dfu = dfu
  scantask = scantask
  Hubs <- NoHubs
  UsbIds <- TwoIds
  DfuCapable = FALSE
  None = none
  Dfu = dfu
  Scan = scantask
  ChannelCap = 2
  QueueCap = 1
  MaxSpawns = 3
  MaxChanges = 4
INVARIANTS
  LiveHandlerIsListed
PROPERTIES
  PluggedIsListed
CHECK_DEADLOCK FALSE
