CONSTANTS
  NULL = NULL
  Byte = {0, 1}
  Block <- Block3
  MaxPushes = 6
SPECIFICATION Spec
INVARIANTS InBounds LossOnlyWhenFilled
CHECK_DEADLOCK FALSE
