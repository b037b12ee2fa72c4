CONSTANTS
  Byte = {1, 2}
  NULL = NULL
  Blocks <- MCBlocks
SPECIFICATION Spec
INVARIANT TypeOK
PROPERTY ImplementsQueue
