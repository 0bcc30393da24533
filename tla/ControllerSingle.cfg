SPECIFICATION Spec

CONSTANTS
  N = 1
  Calls = {c1, c2}
  Operator = TRUE
  Resumes = TRUE
  Each = 3
  MaxEquity = 4
  MaxDailyLoss = 0
  MaxDrawdown = 30
  MaxSessions = 2
  MaxDays = 2
  MaxFaults = 1

SYMMETRY Symmetry

PROPERTIES
  TripIsALoss
  FreshDay

\* Everything may have ended, with no start left.
CHECK_DEADLOCK FALSE
