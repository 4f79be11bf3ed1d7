SPECIFICATION Spec
CONSTANTS
  s1 = s1
  Requests = {s1}
  Payments = {p1, p2}
  RequestOf <- MCRequestOf
  Amount <- MCAmount
  Admins = {clerk, chief}
  SuperAdmins = {chief}
  Nobody = Nobody
  Workers = {w1, w2}
  MaxPaybacks = 2
SYMMETRY Sym
INVARIANTS
  OneSuccessPerRequest
  ConfirmedOnce
  SuccessIsFunded
  ServiceNeedsPayment
  RefundFollowsRequest
PROPERTIES
  NeverUndone
  ImplementsSettlement
