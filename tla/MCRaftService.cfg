SPECIFICATION MCSpec
CONSTANTS
  Server = {n1, n2, n3}
  Odd = n1
  Even = n2
  Command = {c1}
  Nil = Nil
  MaxTerm = 4
  MaxLog = 1
  MaxLate = 0
VIEW MCView
INVARIANTS AnswersDurable StateMachineSafety LeaderCompleteness
PROPERTY ImplementsCommandFeed
