SPECIFICATION Spec
CONSTANTS
  Clients = {c1, c2}
  Creator = creator
  Nobody = nobody
  Tokens = {t1}
  NoToken = noToken
  MaxRetries = 1
  PastRetries = {0, 1}
  RetryDelays = {FALSE}
  ChanCap = 2
  MaxLocks = 1
  Births = {"spawn", "wake", "retry"}
  Calls = {"checkpoint", "kill", "exit", "getState", "takeLock", "releaseLock", "waitForResult"}
  Faults = {}
CHECK_DEADLOCK FALSE
SYMMETRY Symmetry
INVARIANTS
  TypeOK
  RetryOnce
  ExitIsCurrent
  UnreachableBranches
  ProcessMatchesState
  RowTracksJob
  ResultMatchesState
PROPERTIES
  CheckpointPerToken
  LifecycleSpec
