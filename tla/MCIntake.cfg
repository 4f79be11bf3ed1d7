SPECIFICATION Spec
CONSTANTS
  b1 = b1
  s1 = s1
  s2 = s2
  Bodies = {b1, b2}
  Spots = {s1, s2}
  Spot <- MCSpot
  MaxFiled = 2
  Workers = {w1, w2}
  None = None
SYMMETRY Sym
INVARIANTS
  Numbered
  ReplayMatches
  NoDoubleSubmit
PROPERTIES
  AnswerKept
