SPECIFICATION Spec
CONSTANTS
  Calls = {c1, c2}
  Users = {u1}
  Tokens = {t1, t2, t3}
  Nil = Nil
  RefreshTokenTTL = 1
  PurgeInterval = 1
  MaxTime = 0
SYMMETRY Symmetry
INVARIANTS SingleUse RotationNotLost EnabledDuringCall LogoutFinal ReplyCodes
PROPERTY ImplementsSingleUseTokens
