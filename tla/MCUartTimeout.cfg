CONSTANTS
  NULL = NULL
  Byte = {0, 1, 2}
  Nul = 0
  Word = 4
  HwDepth = 2
  Configs <- OnlyTx
  Payloads = {}
  Chained = {}
  SyncBytes = {1}
  WriteLimits = {1}
  ReadLimits = {}
  RxBlock <- Block2
  RxHandlers = {}
  Refills = {}
  LineBytes = {}
  LineErrors = {}
  MaxCalls = 4
  MaxFrames = 0
SPECIFICATION Spec
INVARIANTS FailureReported
CHECK_DEADLOCK FALSE
