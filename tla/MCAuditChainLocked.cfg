SPECIFICATION FairSpec
CONSTANTS
  None = None
  o1 = o1 o2 = o2 w1 = w1 w2 = w2 w3 = w3 e1 = e1 e2 = e2 e3 = e3 e4 = e4 old = old
  Org = {o1, o2}
  Writer = {w1, w2, w3}
  Entry = {e1, e2, e3}
  Legacy <- MCLegacy
  LegacyBody = old
  AdvisoryLock = TRUE
  APPEND_ATTEMPTS = 4
INVARIANTS LockMakesReadsCurrent 
PROPERTY RecordReturns
CHECK_DEADLOCK FALSE
