SPECIFICATION FairLockSpec
CONSTANTS
  Worker = {w1, w2}
  Token = {t1, t2, t3}
  NoToken = NoToken
  NoEntry = NoEntry
  Ttl = 0
  Reclaimers = {w1, w2}
  Timely = FALSE
  ReadFaults = TRUE
  MaxFaults = 2
INVARIANT LockTypeOK
PROPERTY AbandonedLockReclaimed
