SPECIFICATION Spec
CONSTANTS
  s1 = s1
  Sessions = {s1}
  Tokens = {t1, t2}
  SessionOf <- MCSessionOf
  Workers = {w1, w2}
  RedisMayFail = FALSE
  MaxChanges = 1
SYMMETRY Sym
CHECK_DEADLOCK FALSE
INVARIANTS
  NullIsDead
  SignedOutIsRefused
PROPERTIES
  RevokedForGood
  ForgottenForGood
