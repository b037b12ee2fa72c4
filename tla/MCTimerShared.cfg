CONSTANTS
  Group = 2
  Timers = {1, 2}
  Word = 4
  BootScaler = 0
  Scalers = {}
  Configs <- OneShot
  FromCallbacks = {}
  MaxCalls = 7
SPECIFICATION FairSpec
PROPERTIES UnderflowCalledBack
CHECK_DEADLOCK FALSE
