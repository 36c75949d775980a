SPECIFICATION ClientsSpec
CONSTANTS
  NoConn = none
  Conns = {k1, k2}
  MaxSubscriptionsPerConn = 1
  MaxSubscriptionsGlobal = 2
  HeadsBuffer = 1
  MaxBlocks = 2
  MaxSubs = 3
  None = None
CHECK_DEADLOCK FALSE
INVARIANTS
  HeadsSound
  StoredIsTheLedger
  ClientsSeeTheChain
PROPERTIES
  HeadsInOrder
  NothingIsRevised
  DueIsDone
