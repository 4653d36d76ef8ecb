SPECIFICATION FairPullSpec
CONSTANTS
  a = a
  b = b
  e = e
  r1 = r1
  r2 = r2
  Unknown = Unknown
  None = None
  Items = {a, b, e}
  Contents = {}
  Pulls = {r1, r2}
  Replays = {}
  Overlap = 0
  Lookback = 1
  Skew = 0
  MaxItems = 2
  MaxAttempts = 1
  MaxTime = 2
  MaxEdits = 3
PROPERTIES CandidatesSeen
