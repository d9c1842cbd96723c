SPECIFICATION Spec
CONSTANTS
  c1 = c1
  c2 = c2
  a = a
  b = b
  x = x
  NoConv = NoConv
  Conv <- MCConv
  Extent <- MCExtent
  Stream <- MCStream
  Keyless <- MCConv
  Cap = 3
  MayFail = {}
  Window = 2
  Evicting = TRUE
  MaxOps = 4
  MaxCrashes = 0
INVARIANTS
  ManifestComplete
