CONSTANTS
  Workers = {w1, w2}
  Messages = {m1}
  Tickets = {t1}
  NoMessage = NoMessage
  NoTicket = NoTicket
  NoEntry = NoEntry
  Free = Free
  Abandoned = Abandoned
  Modes = {"tickets", "direct"}
  Strategies = {"hybrid", "dead-letter"}
  MaxAttempts = 2
  Visibility = 2
  MarkerTTL = 1
  Backoff = 1
  MaxWait = 3
  Faults = {"crash", "call", "hasty"}
  MaxFaults = 1
SPECIFICATION FairSpec
CHECK_DEADLOCK FALSE
INVARIANTS TypeOK OneHandlerAtATime AttemptsBounded DeadHasLetter
PROPERTIES FinalIsFinal MessagesSettle
