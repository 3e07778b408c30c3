SPECIFICATION MCFairSpec
CONSTANTS
  Node = {n1, n2}
  Handler = {h1, h2}
  Message = {m1}
  Forwarded = {m1}
  Lapsing = {}
  MaxRetries = 1
  MaxDeliveries = 3
  MaxFaults = 0
INVARIANT NotLost
PROPERTIES
  InFlightEnds
  GetsThrough
CHECK_DEADLOCK FALSE
