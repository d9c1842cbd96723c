SPECIFICATION Spec
CONSTANTS
  name1 = name1
  name2 = name2
  None = None
  Name <- MCName
  Stream <- MCStream
  CompactMin = 3
  Fallible = {}
  MaxCommits = 2
  MaxRemoves = 0
  MaxKills = 0
  MaxLookups = 1
INVARIANT AgreementIsTheManifests
CHECK_DEADLOCK FALSE
