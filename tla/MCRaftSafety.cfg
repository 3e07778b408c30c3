SPECIFICATION MCSpec
CONSTANTS
  Server = {n1, n2, n3}
  Command = {c1}
  Electable = {n1, n2}
  Nil = Nil
  MaxTerm = 2
  MaxLog = 2
  MaxLate = 1
VIEW MCView
SYMMETRY Symmetry
INVARIANTS TypeOK RepliesAreOfThisTerm MatchIndexSound ElectionSafety LogMatching
PROPERTIES VotesStand ImplementsReplicatedLog
