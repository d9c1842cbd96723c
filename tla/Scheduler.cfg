SPECIFICATION FairSpec
CONSTANTS
  a = a
  b = b
  j1 = j1
  j2 = j2
  j3 = j3
  NoConv = NoConv
  NoJob = NoJob
  Conv <- MCConv
  Job <- MCJob
  ConvOf <- MCConvOf
  Prompt <- MCPrompt
  Reply <- MCReply
  Slots = 2
  SlotPages = 6
  Capacity = 12
  Fallible = {"begin", "headers", "chunk", "step", "park", "resume"}
  Outsider = {"erase", "trim"}
  MaxOutside = 1
INVARIANTS
  TypeOK
  SeatedOnce
PROPERTIES
  NeverShortOfRoom
  EveryoneAnswered
CHECK_DEADLOCK FALSE
