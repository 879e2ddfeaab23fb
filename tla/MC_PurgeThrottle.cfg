SPECIFICATION FairSpec
CONSTANTS
  Calls = {c1, c2}
  Slots = {s1, s2}
  RefreshTokenTTL = 2
  PurgeInterval = 2
  MaxAge = 1
  MaxBack = 2
  Nil = Nil
INVARIANTS PurgeNotPutOff Backlog
PROPERTY EndedLeaves
