SPECIFICATION FairSpec
CHECK_DEADLOCK FALSE
CONSTANTS
  NumHandlers = 3
  Reader = 2
  MaxBlock = 3
  MaxCrashes = 1
  MaxStreamFails = 1
  DeliveryMayFail = TRUE
INVARIANTS
  NeverOverlap
  CancelNeverAbortsDispatch
  ProtocolNeverPanics
  HolesOnlyFromStreamLoss
PROPERTIES
  ImplementsFeed
  EveryBlockArrives
