SPECIFICATION DelaySpec
CONSTANTS
  d1 = d1
  d2 = d2
  Devices = {d1}
  Unset = Unset
  Torn = Torn
  InboxCap = 2
  Loads <- OneByOne
INVARIANT SetIsInForce
CHECK_DEADLOCK FALSE
