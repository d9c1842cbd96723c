SPECIFICATION Spec
CONSTANTS
  Conv = {a, b}
  Page = {x, y}
  MaxPages = 2
  Capacity = 5
  HostCap = 0
  NoConv = NoConv
  Slots = 2
  SlotPages = 2
  Explicit = FALSE
  Retained = 2
  Fallible = {"commit", "restore"}
  Replay = FALSE
  MaxRequests = 3
  MaxCold = 0
SYMMETRY Interchangeable
INVARIANTS
  TypeOK
  IndexExact
  OwnedOnce
  SealedRowsTrue
  SlotsStand
  AdmittedFits
CHECK_DEADLOCK FALSE
