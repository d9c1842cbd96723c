SPECIFICATION Spec
CONSTANTS
  step1 = step1
  step2 = step2
  conv1 = conv1
  None = None
  Conv <- MCConv
  Step = {step1}
  Window = 2
  CkptCap = 2
  DiskCap = 2
  MaxSteps = 3
  Slack = 2
  MaxEvents = 4
PROPERTIES
  MarksAreNamed
CHECK_DEADLOCK FALSE
