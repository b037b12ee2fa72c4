CONSTANTS
  TicksPerSecond = 1000
  BaudRates <- AllBaudRates
  Configs <- MCConfigs
  Scalers <- MCScalers
SPECIFICATION Spec
INVARIANTS TypeOK DivisorNeverZero LastReadsBack
