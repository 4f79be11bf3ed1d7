SPECIFICATION Spec
CONSTANTS
  a1 = a1
  a2 = a2
  Users = {a1, a2, u1, u2}
  SeedRole <- MCSeedRole
  SuperAdmins <- MCSuperAdmins
  Workers = {w1, w2}
  Nobody = Nobody
SYMMETRY Sym
CHECK_DEADLOCK FALSE
INVARIANTS
  WayBackIn
PROPERTIES
  SuperAdminDecides
