SPECIFICATION MCSpec
CONSTANTS
  Client = {a, b, c}
  Lock = {l1, l2}
  Replica = {r1}
  Nil = Nil
  MaxCommands = 4
SYMMETRY Symmetry
INVARIANTS TypeOK HoldersExclude ReadersWaitForWriters HoldersAsked
PROPERTIES CommandsKeepBooks DropsAreBehindWriters
