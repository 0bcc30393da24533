SPECIFICATION Spec

CONSTANTS
  N = 2
  Calls = {c1, c2}
  Operator = TRUE
  Resumes = TRUE
  Each = 2
  MaxEquity = 3
  MaxDailyLoss = 0
  MaxDrawdown = 0
  MaxSessions = 1
  MaxDays = 1
  MaxFaults = 0

SYMMETRY Symmetry

INVARIANTS
  KillCoversEngines

\* Everything may have ended, with no start left.
CHECK_DEADLOCK FALSE
