SPECIFICATION FairSpec
CONSTANTS
  Order <- MCOrder
  BatchSize = 1
  FailAt <- MCAnywhere
  MaxFaults = 3
  None = None
  n1 = n1
  n2 = n2
  n3 = n3
INVARIANTS TypeOK MembersAgree
PROPERTIES Completes
CHECK_DEADLOCK FALSE
