SPECIFICATION QueueSpec
CONSTANTS
  Node = {n1, n2}
  Handler = {h1, h2}
  Message = {m1, m2}
  Forwarded = {}
  Lapsing = {m2}
  MaxRetries = 2
  MaxDeliveries = 1
  MaxFaults = 1
SYMMETRY MCSymmetry
INVARIANTS
  TypeOK
  LossesAreFaults
  GivenUpLate
CHECK_DEADLOCK FALSE
