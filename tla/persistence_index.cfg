SPECIFICATION Spec
CONSTANTS
  c1 = c1  c2 = c2  a = a  b = b
  Caller = {c1, c2}
  Part = {a, b}
  NoPart = NoPart
  Optional = FALSE
  Note = {note}
  NoRecord = NoRecord
  Methods = {"insert", "upsert", "update", "updateConditional", "replace", "delete"}
  Modes = {"async", "sync", "atomic"}
  BodyHoldsData = TRUE
  MaxWrites = 3
  MaxFaults = 1
SYMMETRY MCSymmetry
INVARIANTS TypeOK SerialCallsKeepIndexExact
PROPERTIES ConditionalUndoesNothing
CHECK_DEADLOCK FALSE
