SPECIFICATION LiveSpec
CONSTANTS
  rAdmin = rAdmin
  rOfficer = rOfficer
  p1 = p1
  Users = {u1}
  Perms = {p1, p2}
  Roles = {rAdmin, rOfficer, r1}
  Types = {"OFFICER", "ADMIN"}
  Catalogue = {p1}
  Mirrors <- MCMirrors
  Defaults <- MCDefaults
  Payloads = {{}, {p1, p2}}
  Picks = {{}, {r1}}
  Workers = {w1, w2}
  None = None
INVARIANTS
  Referential
  StaleExplained
PROPERTIES
  SettlesFresh
