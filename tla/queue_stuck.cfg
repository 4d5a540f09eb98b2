CONSTANTS
  Workers = {w1, w2}
  Messages = {m1}
  Tickets = {t1}
  NoMessage = NoMessage
  NoTicket = NoTicket
  NoEntry = NoEntry
  Free = Free
  Abandoned = Abandoned
  Modes = {"tickets"}
  Strategies = {"retry"}
  MaxAttempts = 2
  Visibility = 2
  MarkerTTL = 2
  Backoff = 1
  MaxWait = 3
  Faults = {"crash"}
  MaxFaults = 1
SPECIFICATION FairSpec
CHECK_DEADLOCK FALSE
PROPERTY EveryMessageSettles
