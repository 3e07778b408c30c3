SPECIFICATION MCFairSpec
CONSTANTS
  Peer = {p1, p2}
  SuspectThreshold = 2
  DeadThreshold = 3
INVARIANTS
  NodeTypeOK
  SuspectsAreSilent
  CallsAlternate
  PingsHaveSession
PROPERTIES
  DeathsAreSeen
  RecoveriesAreSeen
