SPECIFICATION CacheSpec
CONSTANTS
  Node = {n1, n2}
  Key = {k1}
  Capacity = 1
  MaxWrites = 3
  MaxFaults = 0
INVARIANTS
  Coherent
CHECK_DEADLOCK FALSE
