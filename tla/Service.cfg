SPECIFICATION ServiceSpec
CONSTANTS
  Engines = {e1, e2}
  Symbols = 1
  Batch = 2
  MaxRuns = 2
  MaxTrades = 1
  MaxClears = 1
  MaxCrashes = 1
  Recording = TRUE
  Callers = {c1, c2}
  MaxRequests = 4
  MaxBuilt = 3
  MaxTimeouts = 1
  Clients = {w1, w2}
  MaxSize = 2
  MaxSnapshots = 5
  Horizon = 1
  BarsToSend = 2
  CaptureCap = 2
  MaxBars = 3
  MaxPolls = 3
  MaxFaults = 1
  Limit = 3
  Attempts = 2
  Need = 4
  Histories = {0, 1, 2, 5}
  MaxClosed = 7
  MaxFailures = 2
  Totals = {12, 17}
  SplitCounts = {1, 3}
  Percents = {50, 70}
  Pools <- MCPools
  Lookahead = 2
  Warmup = 2
  CalPercent = 25
  MinFit = 3
  MinCal = 1
  Windows <- ShippedWindows
  MomentumWindows = {3, 5, 15}
  Optional = {"use_funding", "use_breadth", "use_recorded"}
  Sources = {"use_recorded"}
  Floor = 700
  Margin = 10
CONSTRAINTS
  BuiltInOrder
  OneDisturbance
INVARIANTS
  LossBounded
  ReturnedTradesStored
  OnlySamplesHoldTheLock
  OneRecorder
  NewestIsKept
  CaptureIsNewest
  EngineSeesEachBarOnce
  LiveRowsAreWhole
  TrainedOnThePast
PROPERTIES
  ClearSparesRunning
  ActsOnWhatItSaw
CHECK_DEADLOCK FALSE
