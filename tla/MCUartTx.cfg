CONSTANTS
  NULL = NULL
  Byte = {0, 1, 2}
  Nul = 0
  Word = 4
  HwDepth = 2
  Configs <- OnlyTx
  Payloads <- MCPayloads
  Chained <- TwoBytes
  SyncBytes = {}
  WriteLimits = {}
  ReadLimits = {}
  RxBlock <- Block2
  RxHandlers = {}
  Refills = {}
  LineBytes = {}
  LineErrors = {}
  MaxCalls = 7
  MaxFrames = 0
SPECIFICATION FairSpec
INVARIANTS TxConservation TxNeverStalls EndCallbackOnce
PROPERTIES TxDrains EndCallbackEventually
CHECK_DEADLOCK FALSE
