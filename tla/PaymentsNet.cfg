SPECIFICATION Spec
CONSTANTS
  s1 = s1
  Requests = {s1}
  Payments = {p1}
  RequestOf <- MCRequestOf
  Amount <- MCAmount
  Admins = {clerk, chief}
  SuperAdmins = {chief}
  Nobody = Nobody
  Workers = {w1}
  MaxPaybacks = 1
INVARIANT NetIsWhatTheCityHolds
