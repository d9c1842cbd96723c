CONSTANTS
  Wrong = Wrong
  Odd = Odd
  None = None
  Capacity = 14
  Cell = 6
  Grid = 2
  History = 2
  Interleaved = TRUE
  Mega = TRUE
  Token = {"a", "b", "z"}
  Stops = {"z"}
  Prompts <- MCShortPrompts
  Answers <- MCAnswers
  Limits = {1, 5}
  Block = 2
  MinRemaining = 2
  Shapes <- MCShapes
  Configs <- MCConfigs
  StopsInCompany = FALSE
  MaxTurns = 2
SPECIFICATION Spec
INVARIANT StateIsTheStreams
CHECK_DEADLOCK FALSE
