SPECIFICATION Spec
CONSTANTS
  t1 = t1
  t2 = t2
  t3 = t3
  d1 = d1
  d2 = d2
  Parent = Parent
  Titles = {t1, t2, t3}
  Identity <- MCIdentity
  Pages <- MCPages
  None = None
  MaxAttempts = 3
CHECK_DEADLOCK FALSE
INVARIANTS
  ExactlyOnce
  NothingUnintended
  MissingIsNoted
