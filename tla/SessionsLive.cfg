SPECIFICATION LiveSpec
CONSTANTS
  s1 = s1
  Sessions = {s1}
  Tokens = {t1}
  SessionOf <- MCSessionOf
  Workers = {w1, w2}
  RedisMayFail = TRUE
  MaxChanges = 0
CHECK_DEADLOCK FALSE
PROPERTIES
  RevocationHolds
