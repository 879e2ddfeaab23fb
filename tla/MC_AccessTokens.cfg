SPECIFICATION Spec
CONSTANTS
  Calls = {c1}
  Users = {u1}
  Second = 2
  AccessTokenTTL = 3
  MaxCallTime = 1
  MaxTime = 9
  MaxTokens = 1
  Nil = Nil
INVARIANTS Lifetime ActLag
