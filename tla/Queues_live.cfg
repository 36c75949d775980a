SPECIFICATION QueuesFairSpec
CONSTANTS
  a = a
  b = b
  t1 = t1
  t2 = t2
  t3 = t3
  t4 = t4
  x = x
  y = y
  None = None
  Hashes = {t1, t2, t3}
  Addresses <- MCAddresses
  Participants <- MCParticipants
  Workers = {w1}
  MaxEntries = 3
  MaxBlockTxs = 1
  Configured = {"v2", "lone_pipeline", "open_graph"}
CHECK_DEADLOCK FALSE
PROPERTIES
  Drains
  StopReturns
