CONSTANTS
  NULL = NULL
  Byte = {0, 1, 2}
  Nul = 0
  Word = 4
  HwDepth = 2
  Configs <- OnlyRx
  Payloads = {}
  Chained = {}
  SyncBytes = {}
  WriteLimits = {}
  ReadLimits = {}
  RxBlock <- Block2
  RxHandlers <- MCRxHandlers
  Refills <- OneHandler
  LineBytes = {1, 2}
  LineErrors = {"PE"}
  MaxCalls = 5
  MaxFrames = 3
SPECIFICATION FairSpec
INVARIANTS RxConservation RxBacklogExplained  LengthCallbackWhenReached
PROPERTIES RxDelivered ErrorReported
CHECK_DEADLOCK FALSE
