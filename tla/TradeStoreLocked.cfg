SPECIFICATION StoreSpec

CONSTANTS
  Engines = {e1, e2}
  Symbols = 2
  Batch = 2
  MaxRuns = 2
  MaxTrades = 1
  MaxClears = 0
  MaxCrashes = 0
  Recording = FALSE

PROPERTIES
  WritesSucceed

CHECK_DEADLOCK FALSE
