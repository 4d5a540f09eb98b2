SPECIFICATION Spec
CONSTANTS
  w1 = w1
  w2 = w2
  w3 = w3
  p1 = p1
  p2 = p2
  Worker = {w1, w2, w3}
  Token = {t1, t2, t3, t4}
  NoToken = NoToken
  NoEntry = NoEntry
  Ttl = 1
  Reclaimers = {w1}
  Timely = TRUE
  ReadFaults = FALSE
  MaxFaults = 1
  ProcessOf <- MCProcessOf
  Fast = {p1}
  Start = 1
  Increment = 1
  BatchSize = 2
  NoValue = NoValue
  NoBatch = NoBatch
  MaxCalls = 4
SYMMETRY TokenSymmetry
INVARIANTS TypeOK UniqueIds LockInv MutualExclusion
PROPERTIES CounterNeverMovesBack GrantsOneAtATime
