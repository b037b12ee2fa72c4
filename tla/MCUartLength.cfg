CONSTANTS
  NULL = NULL
  Byte = {0, 1, 2}
  Nul = 0
  Word = 4
  HwDepth = 2
  Configs <- OnlyRx
  Payloads = {}
  Chained = {}
  SyncBytes = {}
  WriteLimits = {}
  ReadLimits = {}
  RxBlock <- Block2
  RxHandlers <- MCRxHandlers
  Refills = {}
  LineBytes = {1, 2}
  LineErrors = {}
  MaxCalls = 4
  MaxFrames = 3
SPECIFICATION FairSpec
PROPERTIES LengthCallbackWhenQueued
CHECK_DEADLOCK FALSE
