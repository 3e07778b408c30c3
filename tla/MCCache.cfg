SPECIFICATION MCFairSpec
CONSTANTS
  Node = {n1, n2}
  Key = {k1, k2}
  Capacity = 1
  MaxWrites = 3
  MaxFaults = 1
INVARIANTS TypeOK TwoDirtyIsPassing
PROPERTY OperationsEnd
CHECK_DEADLOCK FALSE
