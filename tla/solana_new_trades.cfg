CONSTANTS
  MaxTrades = 3
  MaxExits = 1
  MaxEvents = 2
  Threshold = 2
  Redis = FALSE
  MaxSignals = 1
  MaxFailedWrites = 1
  MaxToken = 3
  MaxSize = 3
  MaxIngests = 4
  BusMaxEvents = 2
  BusReplayers = {"r1", "r2"}
  MaxRetries = 2
  MaxItem = 2
  BatchSize = 2
  MaxRuns = 2
  Focus = {"SolanaIngest"}
SPECIFICATION SuiteSpec
INVARIANT NewTradeIsReturned
CHECK_DEADLOCK FALSE
