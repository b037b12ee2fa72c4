CONSTANTS
  Group = 1
  Timers = {1, 2}
  Word = 3
  BootScaler = 1
  Scalers = {0}
  Configs <- MCConfigs
  FromCallbacks = {"start", "stop"}
  MaxCalls = 5
SPECIFICATION FairSpec
INVARIANTS TypeOK CalledForUnderflow CallbackExcluded AutoReloadKeepsRunning FinishedReported ConfigReadsBack CounterTellsTime
PROPERTIES StopIsQuiet UnderflowCalledBack
CHECK_DEADLOCK FALSE
