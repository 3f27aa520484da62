SPECIFICATION FairSpec
CONSTANTS
  h1 = h1
  h2 = h2
  u1 = u1
  u2 = u2
  none = none
  dfu = dfu
  scantask = scantask
  Hubs <- NoHubs
  UsbIds <- TwoIds
  DfuCapable = TRUE
  None = none
  Dfu = dfu
  Scan = scantask
  ChannelCap = 1
  QueueCap = 1
  MaxSpawns = 3
  MaxChanges = 4
PROPERTIES
  UnpluggedIsDelisted
CHECK_DEADLOCK FALSE
