SPECIFICATION Spec

CONSTANTS
  BarTask = bar
  Killers = {k1}
  NoTask = none
  RealOrders = TRUE
  Adoption = TRUE
  UseRecorded = FALSE
  CooldownBars = 1
  Horizon = 2
  Attempts = 2
  Size = 2
  PartialFills = TRUE
  LostAcks = TRUE
  LostReads = FALSE
  NativeTriggers = TRUE
  OrderIds = {1, 2, 3, 4}
  MaxBars = 3
  MaxFaults = 2
  MaxStarts = 1

INVARIANTS
  EntryOnlyWhenFlat
  TradesReachTheStore
  HorizonRespected
  FlattenCloses

PROPERTIES
  ImplementsLifecycle

\* The bars run out and an ended process does nothing more.
CHECK_DEADLOCK FALSE
