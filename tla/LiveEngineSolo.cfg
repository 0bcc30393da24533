SPECIFICATION Spec

CONSTANTS
  BarTask = bar
  Killers = {}
  NoTask = none
  RealOrders = TRUE
  Adoption = TRUE
  UseRecorded = TRUE
  CooldownBars = 2
  Horizon = 2
  Attempts = 2
  Size = 1
  PartialFills = FALSE
  LostAcks = FALSE
  LostReads = FALSE
  NativeTriggers = FALSE
  OrderIds = {1, 2, 3, 4}
  MaxBars = 5
  MaxFaults = 1
  MaxStarts = 3

INVARIANTS
  BooksAgree
  ProtectionMatches

PROPERTIES
  CooldownRespected

\* The bars run out and an ended process does nothing more.
CHECK_DEADLOCK FALSE
