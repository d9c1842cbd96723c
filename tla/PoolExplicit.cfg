SPECIFICATION FairSpec
CONSTANTS
  Conv = {a, b, d}
  Page = {x}
  MaxPages = 1
  Capacity = 3
  HostCap = 1
  NoConv = NoConv
  Slots = 2
  SlotPages = 1
  Explicit = TRUE
  Retained = 1
  Fallible = {"write", "spill", "demote", "promote"}
  Replay = FALSE
  MaxRequests = 4
  MaxCold = 1
INVARIANTS
  HandlesOwned
  RowsStand
PROPERTIES
  SpilledIsStored
  EngineIsAnswered
CHECK_DEADLOCK FALSE
