SPECIFICATION Scripted
CONSTANTS
  step1 = step1
  step2 = step2
  conv1 = conv1
  None = None
  Conv = {conv1, conv2}
  Step = {step1}
  Window = 3
  CkptCap = 2
  DiskCap = 2
  MaxSteps = 6
  Slack = 3
  MaxEvents = 8
PROPERTIES
  TurnsAlwaysStay
CHECK_DEADLOCK FALSE
