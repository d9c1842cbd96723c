SPECIFICATION Spec
CONSTANTS
  name1 = name1
  name2 = name2
  None = None
  Name <- MCName
  Stream <- MCStream
  CompactMin = 3
  Fallible = {"append", "sweep"}
  MaxCommits = 2
  MaxRemoves = 1
  MaxKills = 1
  MaxLookups = 2
INVARIANTS
  TypeOK
  IndexTrue
  QuietLookupsAreExact
CHECK_DEADLOCK FALSE
SYMMETRY Symmetric
