SPECIFICATION FairSpec
CONSTANTS
  MaxRequests = 2
  MaxMigrations = 2
  MaxFaults = 1
INVARIANTS TypeOK EndsClean
PROPERTIES PlacementHolds MigrationEnds
CHECK_DEADLOCK FALSE
