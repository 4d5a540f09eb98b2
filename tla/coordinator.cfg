SPECIFICATION FairSpec
CONSTANTS
  N = 2
  Lease = 1
  Outlive = 1
  NoState = NoState
  MaxTime = 2
  ChangeUntil = 0
  Faults = {"unsubscribe", "disconnect", "crash", "call"}
  MaxFaults = 1
INVARIANTS TypeOK PluginFollowsService
PROPERTIES Settles
CHECK_DEADLOCK FALSE
