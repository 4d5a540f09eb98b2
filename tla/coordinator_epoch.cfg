SPECIFICATION Spec
CONSTANTS
  N = 2
  Lease = 1
  Outlive = 1
  NoState = NoState
  MaxTime = 0
  ChangeUntil = 0
  Faults = {}
  MaxFaults = 0
INVARIANTS OneCoordinatorPerEpoch
CHECK_DEADLOCK FALSE
