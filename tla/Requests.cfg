SPECIFICATION RequestsSpec
CONSTANTS
  Senders = {s1, s2}
  MaxSends = 4
  Stream = TRUE
  Absent = Absent
  NoRecord = NoRecord
CHECK_DEADLOCK FALSE
INVARIANTS
  HandledIsForgotten
  EndorsedAsAsked
  ReportedIsTrue
PROPERTIES
  RequestsEnd
