SPECIFICATION Spec
CONSTANTS
  JobIds = {j1}
  Clients = {c1}
  Poller = poller
  Recovery = recovery
  None = none
  Tokens = {t1}
  MaxRetries = 1
  Commands = {"snapshot"}
  MaxCalls = 2
  MaxCrashes = 0
  Faults = {"retry"}
INVARIANT RetryBudgetOverLives
CHECK_DEADLOCK FALSE
