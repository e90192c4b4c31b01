SPECIFICATION FairSpec
CONSTANTS
  Volume = {v1, v2}
  MaxCalls = 5
INVARIANTS TypeOK TableWithinUse
 
CHECK_DEADLOCK FALSE
