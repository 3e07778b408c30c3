SPECIFICATION MCSpec
CONSTANTS
  Server = {n1, n2, n3}
  Odd = n1
  Even = n1
  Command = {c1}
  Nil = Nil
  MaxTerm = 1
  MaxLog = 2
  MaxLate = 0
VIEW MCView
INVARIANT AppliesAll
