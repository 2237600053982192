SPECIFICATION Spec
CONSTANTS
  Callers = {c1, c2}
  Versions = {1, 2}
  Bodies = {a, b}
  Absent = absent
  Unknown = unknown
  Ids = {3}
  OldJobs <- MCOldJobs
  Limit = 1
  MaxRetries = 1
  MaxCalls = 3
  MaxClock = 1
  MaxCrashes = 1
INVARIANTS
  TypeOK
  LatestIsGreatest
  PromiseKept
PROPERTY ListingComplete
SYMMETRY Symmetry
CHECK_DEADLOCK FALSE
