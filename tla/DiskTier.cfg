SPECIFICATION Spec
CONSTANTS
  c1 = c1
  c2 = c2
  a = a
  b = b
  x = x
  NoConv = NoConv
  Conv <- MCConv
  Extent <- MCExtent
  Stream <- MCStream
  Keyless <- MCConv
  Cap = 100
  MayFail = {"manifest", "sweep"}
  Window = 2
  Evicting = FALSE
  MaxOps = 4
  MaxCrashes = 1
INVARIANTS
  TypeOK
  ManifestComplete
  EraseIsFinal
  BarrierMeansDurable
  ReturnFindsItsCommit
PROPERTIES
  ReplacementFirst
