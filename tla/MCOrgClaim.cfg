CONSTANTS
  Claim = {c1, c2}
  Token = {scoped, twin, admin}
  Slug = {home, s1, s2}
  Malformed = Malformed
  Scope <- MCScope
  LockKey = {scoped, admin}
  LockOf <- MCLockOf
  MaxOrgs = 1
  Operator = Operator
  None = None
  scoped = scoped  twin = twin
  admin = admin  home = home
SPECIFICATION MCSpec
INVARIANTS QuotaRespected AnswersAreTrue TrailNamesOwner 
PROPERTIES OwnerForGood EveryClaimAnswered
