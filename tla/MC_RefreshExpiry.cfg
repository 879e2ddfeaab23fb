SPECIFICATION FairSpec
CONSTANTS
  Calls = {c1, c2}
  Users = {u1}
  Tokens = {t1, t2}
  Nil = Nil
  RefreshTokenTTL = 1
  PurgeInterval = 2
  MaxTime = 2
INVARIANTS IInv FixedLifetime RefreshNeverShortens
PROPERTIES RedeemedIsReplaced ExpiredNeverRedeemed EndsOnlyWhenDue
