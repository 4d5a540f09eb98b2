SPECIFICATION Spec
CONSTANTS
  c1 = c1  c2 = c2  a = a  b = b
  Caller = {c1}
  Part = {a, b}
  NoPart = NoPart
  Optional = TRUE
  Note = {note}
  NoRecord = NoRecord
  Methods = {"insert", "replace"}
  Modes = {"sync"}
  BodyHoldsData = TRUE
  MaxWrites = 3
  MaxFaults = 0
INVARIANTS IndexFollowsRecord
CHECK_DEADLOCK FALSE
