SPECIFICATION Spec
CONSTANTS
  MaxOps = 5
  MaxFaults = 2
INVARIANTS TypeOK GuestSafe
PROPERTY NothingLost
CHECK_DEADLOCK FALSE
