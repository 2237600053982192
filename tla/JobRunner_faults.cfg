SPECIFICATION Spec
CONSTANTS
  Clients = {c1}
  Creator = creator
  Nobody = nobody
  Tokens = {t1}
  NoToken = noToken
  MaxRetries = 1
  PastRetries = {0, 1}
  RetryDelays = {TRUE, FALSE}
  ChanCap = 2
  MaxLocks = 0
  Births = {"spawn", "interrupted", "wake", "retry"}
  Calls = {"checkpoint", "kill", "exit", "waitForResult"}
  Faults = {"db", "start", "restore", "checkpoint", "kill", "wait", "cleanup", "timeout"}
CHECK_DEADLOCK FALSE
INVARIANTS
  RetryBudget
  RowTracksJob
  ParkedRowsResumable
PROPERTIES
  CheckpointPerToken
