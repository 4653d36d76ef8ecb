SPECIFICATION FairSpec
CONSTANTS
  Uploads = {u1, u2}
  Files = {f1}
  People = {p1}
  Workers = {w1}
  MaxAttempts = 2
  TimeLimit = 0
  LeaseSeconds = 1
  MaxMessages = 1
  None = None
PROPERTY
  JobsSettle
