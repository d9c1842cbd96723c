SPECIFICATION Spec
CONSTANTS
  x = x
  y = y
  c = c
  p = p
  q = q
  None = None
  Pack <- MCPack
  Content <- MCContent
  ContentOf <- MCContentOf
  Proc <- MCProc
  MaxGen = 3
INVARIANTS
  TypeOK
  PairWhole
  InstalledStays
PROPERTIES
  MovesAsOne
CHECK_DEADLOCK FALSE
SYMMETRY Symmetric
