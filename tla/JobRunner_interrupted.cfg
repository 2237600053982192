SPECIFICATION Spec
CONSTANTS
  Clients = {c1}
  Creator = creator
  Nobody = nobody
  Tokens = {t1}
  NoToken = noToken
  MaxRetries = 1
  PastRetries = {0, 1}
  RetryDelays = {FALSE}
  ChanCap = 1
  MaxLocks = 0
  Births = {"interrupted"}
  Calls = {"getState"}
  Faults = {}
CHECK_DEADLOCK FALSE
INVARIANT InterruptedJobStarts
