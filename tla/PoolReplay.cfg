SPECIFICATION Spec
CONSTANTS
  Conv = {a}
  Page = {x}
  MaxPages = 3
  Capacity = 5
  HostCap = 0
  NoConv = NoConv
  Slots = 1
  SlotPages = 0
  Explicit = FALSE
  Retained = 4
  Fallible = {}
  Replay = TRUE
  MaxRequests = 3
  MaxCold = 0
SYMMETRY Interchangeable
INVARIANTS
  SealedRowsTrue
CHECK_DEADLOCK FALSE
