SPECIFICATION Spec
CONSTANTS
  Conv = {a, b}
  Page = {x}
  MaxPages = 2
  Capacity = 3
  HostCap = 1
  NoConv = NoConv
  Slots = 1
  SlotPages = 0
  Explicit = TRUE
  Retained = 1
  Fallible = {"commit"}
  Replay = FALSE
  MaxRequests = 4
  MaxCold = 1
INVARIANTS
  HandlesAlwaysOwned
CHECK_DEADLOCK FALSE
