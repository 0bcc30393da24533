SPECIFICATION Spec

CONSTANTS
  N = 2
  Calls = {c1, c2}
  Operator = TRUE
  Resumes = TRUE
  Each = 1
  MaxEquity = 1
  MaxDailyLoss = 0
  MaxDrawdown = 0
  MaxSessions = 3
  MaxDays = 1
  MaxFaults = 2

SYMMETRY Symmetry

INVARIANTS
  NothingUntracked
  SweepCloses
  ResumeClears

PROPERTIES
  OneSession

\* Everything may have ended, with no start left.
CHECK_DEADLOCK FALSE
