\* Two headnodes, every fault but the loss of the Consul servers; two faults
\* are a first fault and one that meets what the first has left.
SPECIFICATION FairSpec
CONSTANTS
  Node = {n1, n2}
  Faults <- MCFaultsAll
  MaxFaults = 2
  OutputVaries = TRUE
  None = None
  DeadSession = DeadSession
INVARIANTS TypeOK HolderServes
PROPERTIES FailedIsDemoted Converges
