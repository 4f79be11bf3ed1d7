SPECIFICATION LiveSpec
CONSTANTS
  Complaints = {c1}
  Officers = {o1, o2}
  Nobody = Nobody
  Workers = {w1, w2}
  REOPEN_LIMIT = 1
  MAX_ATTACHMENTS = 1
  MaxReopens = 2
INVARIANTS
  ResolvedIsProven
  OfficerMatchesAssignment
  AttachmentsBounded
PROPERTIES
  SingleDoor
  AutoClosed
