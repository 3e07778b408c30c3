SPECIFICATION MCFairSpec
CONSTANTS
  Server = {n1, n2, n3}
  Electable = {n1, n2}
  Crashing = {n3}
  Command = {c1}
  Nil = Nil
  MaxTerm = 2
  MaxLog = 1
  MaxLate = 0
  MaxRestarts = 1
PROPERTY LeaderPrevails
