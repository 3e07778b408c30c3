SPECIFICATION MCSpec
CONSTANTS
  Client = {a, b, c}
  MaxDepth = 3
  RingNode = {n1, n2, n3}
  VirtualNodes = 2
  MaxHash = 5
  MaxRing = 8
  NoNode = NoNode
  Buckets = 4
  MaxObservations = 5
  Writer = {w1}
  Request = {q1, q2}
  MaxEntries = 4
  MaxFaults = 3
INVARIANTS
  SearchReports
  OwnerIsSuccessor
  P99IsALowerBound
  ChainHolds
  AnsweredIsRecorded
  LossIsSeen
PROPERTIES
  SearchEnds
\* the search is over, the bounds are reached
CHECK_DEADLOCK FALSE
