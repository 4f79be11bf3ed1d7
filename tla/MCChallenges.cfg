SPECIFICATION Spec
CONSTANTS
  Challenges = {c1}
  NoChallenge = NoChallenge
  Mails = {m1, m2}
  NoMail = NoMail
  Workers = {w1, w2}
  MaxAttempts = 2
  MaxResends = 1
  MaxFails <- MCMaxFails
  RedisMayFail = TRUE
  MaxBlind = 1
SYMMETRY Sym
CONSTRAINT FewLate
CHECK_DEADLOCK FALSE
INVARIANTS
  LinkOnce
  CodeOnce
  LimitsHold
PROPERTIES
  EndedForGood
  ImplementsOneTimeLinks
