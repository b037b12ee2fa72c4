CONSTANTS
  NULL = NULL
  Byte = {0, 1, 2}
  Nul = 0
  Word = 4
  HwDepth = 2
  Configs <- Loopback
  Payloads <- TwoBytes
  Chained <- TwoBytes
  SyncBytes = {2}
  WriteLimits = {0, 1}
  ReadLimits = {0, 1}
  RxBlock <- Block2
  RxHandlers <- OneHandler
  Refills <- OneHandler
  LineBytes = {}
  LineErrors = {}
  MaxCalls = 6
  MaxFrames = 0
SPECIFICATION FairSpec
INVARIANTS TypeOK TxConservation RxConservation MaskedOnlyByWrite
PROPERTIES QueriesExact WriteReturns ReadReturns ImplementsLink
CHECK_DEADLOCK FALSE
