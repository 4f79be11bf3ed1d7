SPECIFICATION SignupSpec
CONSTANTS
  Emails = {e1}
  NoEmail = NoEmail
  Users = {u1, u2}
  Mails = {m1, m2}
  NoMail = NoMail
  Workers = {w1, w2}
  MaxOtpAttempts = 1
  MaxSends = 1
  RedisMayFail = TRUE
SYMMETRY Sym
CONSTRAINT Apart
CHECK_DEADLOCK FALSE
INVARIANTS
  OneAccountPerEmail
  GuessesCounted
  GoogleIdMatches
PROPERTIES
  SignupOver
