SPECIFICATION Spec

CONSTANTS
  BarTask = bar
  Killers = {k1}
  NoTask = none
  RealOrders = TRUE
  Adoption = TRUE
  UseRecorded = FALSE
  CooldownBars = 1
  Horizon = 2
  Attempts = 2
  Size = 1
  PartialFills = FALSE
  LostAcks = FALSE
  LostReads = FALSE
  NativeTriggers = FALSE
  OrderIds = {1, 2, 3, 4}
  MaxBars = 3
  MaxFaults = 0
  MaxStarts = 1

INVARIANTS
  NoDoubleExit

\* The bars run out and an ended process does nothing more.
CHECK_DEADLOCK FALSE
