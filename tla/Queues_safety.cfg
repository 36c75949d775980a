SPECIFICATION QueuesSpec
CONSTANTS
  a = a
  b = b
  t1 = t1
  t2 = t2
  t3 = t3
  t4 = t4
  x = x
  y = y
  None = None
  Hashes = {t1, t2, t3, t4}
  Addresses <- MCAddresses
  Participants <- MCParticipants
  Workers = {w1, w2}
  MaxEntries = 3
  MaxBlockTxs = 2
  Configured = {"v2", "v2_disjoint", "pipeline", "graph"}
SYMMETRY WorkerSymmetry
CHECK_DEADLOCK FALSE
INVARIANTS
  ConflictsSerial
  LinksMatch
  NoCircularWait
  NoLostWakeup
  PipelineKeepsTrack
  GraphServesSafely
