SPECIFICATION EvmSpec
CONSTANTS
  a1 = a1
  a2 = a2
  DestroyedAgain = TRUE
  Addrs = {a1, a2}
  Store <- EvmStore
  MaxJournal = 7
  MaxRevisions = 3
  MaxLogs = 1
  Nil = Nil
  Code = Code
CHECK_DEADLOCK FALSE
INVARIANT
  DestructionsAgree
