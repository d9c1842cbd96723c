\* In the place of NamesThisStream: NewestServes, WindowIsThePrompts.
SPECIFICATION Spec
CONSTANTS
  step1 = step1
  step2 = step2
  conv1 = conv1
  None = None
  Conv <- MCConv
  Step <- MCStep
  Window = 2
  CkptCap = 2
  DiskCap = 2
  MaxSteps = 3
  Slack = 2
  MaxEvents = 4
INVARIANTS
  NamesThisStream
CHECK_DEADLOCK FALSE
SYMMETRY Symmetric
