SPECIFICATION Spec
CONSTANTS
  Conv = {a, b, d}
  Page = {x, y}
  MaxPages = 1
  Capacity = 4
  HostCap = 1
  NoConv = NoConv
  Slots = 2
  SlotPages = 0
  Explicit = TRUE
  Retained = 4
  Fallible = {"demote"}
  Replay = FALSE
  MaxRequests = 3
  MaxCold = 0
SYMMETRY Interchangeable
INVARIANTS
  OwnedOnce
CHECK_DEADLOCK FALSE
