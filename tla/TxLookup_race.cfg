SPECIFICATION LookupSpec
CONSTANTS
  s1 = s1
  v1 = v1
  Senders = {s1}
  Variants = {v1}
  Clients = {c1}
  MaxNonce = 2
  MaxParked = 1
  MaxSenders = 0
  MaxPerBlock = 1
CHECK_DEADLOCK FALSE
INVARIANTS
  PendingIsFound
