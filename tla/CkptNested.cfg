SPECIFICATION Spec
CONSTANTS
  step1 = step1
  step2 = step2
  conv1 = conv1
  None = None
  Conv <- MCConv
  Step = {step1}
  Window = 5
  CkptCap = 1
  DiskCap = 3
  MaxSteps = 6
  Slack = 2
  MaxEvents = 4
INVARIANTS
  NoRestoreFails
CHECK_DEADLOCK FALSE
