SPECIFICATION Spec
CONSTANTS
  d1 = d1
  d2 = d2
  Nothing = nothing
  Unreadable = unreadable
  Bad = bad
  Firmwares <- Manifest
  Devices <- OneDevice
  Rows <- OneDevice
  Installed <- OldOnly
  MaxUpdates = 1
  MaxChanges = 1
INVARIANTS
  OfferIsInstalled
CHECK_DEADLOCK FALSE
