SPECIFICATION FairSpec
CONSTANTS
  N = 3
  Sets = {2}
  w1 = w1  w2 = w2
  Worker = {w1, w2}
  Ticket = {k1, k2}
  NoTicket = NoTicket
  Nobody = Nobody
  Dead = Dead
  Scenarios <- OneEntryPoint
  MaxRetries = 1
  MaxFaults = 1
INVARIANTS TypeOK CountedOnce NothingLost Converges
PROPERTY TransactionsApplied
CHECK_DEADLOCK FALSE
