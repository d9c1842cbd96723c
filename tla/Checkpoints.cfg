SPECIFICATION Spec
CONSTANTS
  step1 = step1
  step2 = step2
  conv1 = conv1
  None = None
  Conv <- MCConv
  Step <- MCStep
  Window = 2
  CkptCap = 2
  DiskCap = 1
  MaxSteps = 3
  Slack = 3
  MaxEvents = 3
INVARIANTS
  TypeOK
  AcceptedAssembles
PROPERTIES
  TurnsKept
CHECK_DEADLOCK FALSE
SYMMETRY Symmetric
