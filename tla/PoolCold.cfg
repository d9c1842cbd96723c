SPECIFICATION Spec
CONSTANTS
  Conv = {a, b}
  Page = {x, y}
  MaxPages = 2
  Capacity = 5
  HostCap = 0
  NoConv = NoConv
  Slots = 1
  SlotPages = 0
  Explicit = FALSE
  Retained = 3
  Fallible = {"commit"}
  Replay = FALSE
  MaxRequests = 3
  MaxCold = 1
SYMMETRY Interchangeable
INVARIANTS
  SealedRowsAlwaysTrue
CHECK_DEADLOCK FALSE
