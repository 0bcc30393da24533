SPECIFICATION FairSpec

CONSTANTS
  BarTask = bar
  Killers = {k1}
  NoTask = none
  RealOrders = TRUE
  Adoption = TRUE
  UseRecorded = FALSE
  CooldownBars = 1
  Horizon = 2
  Attempts = 2
  Size = 1
  PartialFills = FALSE
  LostAcks = FALSE
  LostReads = TRUE
  NativeTriggers = FALSE
  OrderIds = {1, 2, 3, 4}
  MaxBars = 2
  MaxFaults = 1
  MaxStarts = 2

PROPERTIES
  FlattenEnds
  BarEnds
  StopEnds

\* The bars run out and an ended process does nothing more.
CHECK_DEADLOCK FALSE
