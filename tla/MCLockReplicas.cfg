SPECIFICATION MCPoliteSpec
CONSTANTS
  Client = {a, b}
  Lock = {l1, l2}
  Replica = {r1, r2}
  Nil = Nil
  MaxCommands = 5
SYMMETRY Symmetry
INVARIANT ReplicasAgree
