SPECIFICATION FairSpec
CONSTANTS
  d1 = d1
  d2 = d2
  Nothing = nothing
  Unreadable = unreadable
  Bad = bad
  Firmwares <- Patch
  Devices <- TwoDevices
  Rows <- OneDevice
  Installed <- OldOnly
  MaxUpdates = 2
  MaxChanges = 1
INVARIANTS
  TypeOK
  StageHasUpdate
PROPERTIES
  UndisturbedUpdateWorks
  EveryUpdateEnds
CHECK_DEADLOCK FALSE
