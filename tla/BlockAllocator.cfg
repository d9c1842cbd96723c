SPECIFICATION Spec
CONSTANTS
  Capacity = 5
  NoBlock = NoBlock
INVARIANTS
  TypeOK
  BooksTight
PROPERTIES
  ImplementsLowestFree
