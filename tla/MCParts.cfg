SPECIFICATION PartsSpec
CONSTANTS
  none = none
  NoNumber = none
  Sessions <- SomeSessions
  Texts <- SomeTexts
  OldRegs <- FactoryRegs
  OldGeneral <- FactoryGeneral
  d1 = d1
  d2 = d2
  Devices = {d1, d2}
  Unset = Unset
  Torn = Torn
  InboxCap = 1
  Loads <- SomeLoads
  Lists = {"devices", "dongles"}
  NoticeCap = 1
  StreamCap = 1
  FeedLoads <- SomeFeeds
  a1 = a1
  Ids = {a1}
  Unassigned = free
  Owners = {d1, free}
  BadFile = Torn
  MapCap = 1
  EditLoads <- SomeEdits
INVARIANTS
  SettingsTypeOK
  LoadingHasTask
  DelayTypeOK
  AckedSaveIsKept
  AckedEditIsInForce
  
  NoChangeMissed
PROPERTIES
  DoneIsDone
  LoadedIsRead
  LoadingEnds
  DelaysSettle
  FeedCatchesUp
  PageSettles
CHECK_DEADLOCK FALSE
