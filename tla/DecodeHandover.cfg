CONSTANTS
  Wrong = Wrong
  Odd = Odd
  None = None
  Capacity = 14
  Cell = 6
  Grid = 2
  History = 2
  Interleaved = TRUE
  Mega = TRUE
  Token = {"a", "b", "z"}
  Stops = {"z"}
  Prompts <- MCPrompts
  Answers <- MCAnswers
  Limits = {1, 5}
  Block = 2
  MinRemaining = 2
  Shapes <- MCShapes
  Configs <- MCConfigs
  StopsInCompany = TRUE
  MaxTurns = 1
SPECIFICATION Spec
INVARIANT RowFeedsTheAnchor
CHECK_DEADLOCK FALSE
