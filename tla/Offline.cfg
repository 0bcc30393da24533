SPECIFICATION OfflineSpec

CONSTANTS
  Prices = {100, 200, 300}
  Atrs = {50, 100}
  SlMult = 1
  TpMult = 1
  Horizon = 2
  CooldownBars = 1
  Unit = 100
  TakerFee = 1
  MakerFee = 0
  Slippage = 1
  LimitOffset = 50
  EntryTypes = {"market", "limit"}
  RiskPct = 20
  MaxLeverage = 1
  AllowShort = TRUE
  InitialEquity = 200000
  MaxBars = 5
  Operators = {o1}
  Scheduler = sched
  RetrainDays = 1
  MaxDays = 2
  MaxProcs = 2
  MaxAsked = 2
  MaxRestarts = 1

INVARIANTS
  PendingFits
  EquityExplained
  ReportExplained
  HorizonRespected
  PairsMatch
  OneJobPerKey

PROPERTIES
  StopBounded
  ImplementsLifecycle
  RetrainCadence

\* The run of a backtest ends, and so do days, requests and processes.
CHECK_DEADLOCK FALSE
