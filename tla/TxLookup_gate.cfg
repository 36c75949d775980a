SPECIFICATION LookupSpec
CONSTANTS
  s1 = s1
  v1 = v1
  Senders = {s1, s2}
  Variants = {v1, v2}
  Clients = {c1, c2}
  MaxNonce = 3
  MaxParked = 1
  MaxSenders = 0
  MaxPerBlock = 2
SYMMETRY CallSymmetry
CHECK_DEADLOCK FALSE
INVARIANTS
  CacheCoherent
  ParkedInFuture
  IndexMatches
  PinnedStays
  QueuedIsFound
PROPERTIES
  NextNeverFalls
  ParkedLeaveForAReason
