SPECIFICATION FairSpec
CONSTANTS
  JobIds = {j1}
  Clients = {c1, c2}
  Poller = poller
  Recovery = recovery
  None = none
  Tokens = {t1}
  MaxRetries = 1
  Commands = {"suspend", "snapshot", "kill", "exit"}
  MaxCalls = 2
  MaxCrashes = 1
  Faults = {"wake"}
INVARIANTS
  TypeOK
  OneRunning
  NoJobForgotten
  SuspendedIsStopped
PROPERTIES
  TerminalIsFinal
  WaitingJobGetsOn
CHECK_DEADLOCK FALSE
