SPECIFICATION ProcessesSpec
CONSTANTS
  Callers = {c1, c2}
  Balances = {bal}
  Codes = {}
  Slots = {slot}
  Values = {0, 1}
  MaxUserTxs = 1
CHECK_DEADLOCK FALSE
INVARIANTS
  CarriesOnlyItsWrite
  ProcessesInOrder
PROPERTIES
  NothingOverwritten
  SuiteTells
  EverythingReturns
