\* Two headnodes with their services up or down; three changes suffice to make
\* n1 the leader and to move the leadership to n2.
SPECIFICATION FairSpec
CONSTANTS
  Node = {n1, n2}
  MaxChanges = 3
  None = None
INVARIANT TypeOK
PROPERTY AddressSettles
\* With a failing resolver nothing is published any more.
CHECK_DEADLOCK FALSE
