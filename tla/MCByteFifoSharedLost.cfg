CONSTANTS
  NULL = NULL
  Byte = {0, 1}
  Block <- Block2
  MaxPushes = 4
SPECIFICATION Spec
INVARIANTS PullRemovesOne
CHECK_DEADLOCK FALSE
