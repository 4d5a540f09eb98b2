SPECIFICATION FairSpec
CONSTANTS
  Tasks = {t1, t2, t3}
  Callers = {c1}
  Modes = {"rich", "light", "bare"}
  Limits = {1, 2}
  MaxLimit = 2
  Retries = 1
  SkipThreshold = 2
CHECK_DEADLOCK FALSE
INVARIANTS TypeOK SlotsExact WorkConserving PausedIsQuiet BodiesBounded
PROPERTIES PoolKeepsPromise TasksSettle DrainEnds
