SPECIFICATION Spec
CONSTANTS
  Departments = {d1, d2}
  Categories = {c1}
  Processes = {n1, n2}
  MaxCached = 2
  Workers = {w1, w2}
  None = None
SYMMETRY Sym
INVARIANTS
  OwnListFresh
  NoOrphans
