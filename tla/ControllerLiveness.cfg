SPECIFICATION FairSpec

CONSTANTS
  N = 2
  Calls = {c1}
  Operator = TRUE
  Resumes = TRUE
  Each = 1
  MaxEquity = 1
  MaxDailyLoss = 0
  MaxDrawdown = 50
  MaxSessions = 2
  MaxDays = 1
  MaxFaults = 1

PROPERTIES
  FlattenAllEnds
  TripHalts
  LockReturns

\* Everything may have ended, with no start left.
CHECK_DEADLOCK FALSE
