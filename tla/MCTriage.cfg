SPECIFICATION TriageLiveSpec
CONSTANTS
  Complaints = {c1}
  Voters = {v1, v2, v3}
  UPVOTES_FOR_PRIORITY_BUMP = 2
  BATCH = 1
  MaxFailures = 1
  Workers = {w1, w2}
  Runs = {cron, http}
  None = None
INVARIANTS
  VotesAgree
  EscalatedOnce
PROPERTIES
  TopLevelReached
