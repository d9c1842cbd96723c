\* In the place of ToldIsDurable, as a PROPERTY: AnswersForward.
SPECIFICATION Spec
CONSTANTS
  x = x
  y = y
  c = c
  p = p
  q = q
  None = None
  Pack <- MCPack
  Content <- MCContent
  ContentOf <- MCContentOf
  Proc <- MCProc
  MaxGen = 3
CHECK_DEADLOCK FALSE
SYMMETRY Symmetric
INVARIANT ToldIsDurable
