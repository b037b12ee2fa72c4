CONSTANTS
  NULL = NULL
  Byte = {0, 1, 2}
  Nul = 0
  Word = 4
  HwDepth = 2
  Configs <- OnlyTx
  Payloads <- OneByte
  Chained = {}
  SyncBytes = {}
  WriteLimits = {}
  ReadLimits = {}
  RxBlock <- Block2
  RxHandlers = {}
  Refills = {}
  LineBytes = {}
  LineErrors = {}
  MaxCalls = 3
  MaxFrames = 0
SPECIFICATION FairSpec
PROPERTIES EndAlwaysAnnounced
CHECK_DEADLOCK FALSE
