SPECIFICATION Spec
CHECK_DEADLOCK FALSE
CONSTANTS
  NumHandlers = 2
  Reader = 2
  MaxBlock = 3
  MaxCrashes = 1
  MaxStreamFails = 1
  DeliveryMayFail = TRUE
INVARIANTS
  EveryBlockDispatched
