SPECIFICATION Spec
CONSTANTS
  JobIds = {j1}
  Clients = {c1}
  Poller = poller
  Recovery = recovery
  None = none
  Tokens = {t1}
  MaxRetries = 1
  Commands = {"suspend"}
  MaxCalls = 2
  MaxCrashes = 0
  Faults = {}
INVARIANT TokenOnce
CHECK_DEADLOCK FALSE
