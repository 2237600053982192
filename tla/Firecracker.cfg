SPECIFICATION Spec
CONSTANTS
  Executions = {e1, e2}
  None = none
  MaxSuffix = 2
  MaxVMs = 3
  MaxCrashes = 1
INVARIANTS
  TypeOK
  DeviceIntact
  GuestOnItsDevice
  OnlyKnownLeaks
  NoOrphanMachine
  PausedOnlyWhenCut
CHECK_DEADLOCK FALSE
SYMMETRY Symmetry
