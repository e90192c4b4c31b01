SPECIFICATION FairSpec
CONSTANTS
  MaxAttempts = 2
  MaxCalls = 4
  MaxFaults = 2
INVARIANTS TypeOK HandlerClean
PROPERTIES DetachSafe CallReturns
CHECK_DEADLOCK FALSE
