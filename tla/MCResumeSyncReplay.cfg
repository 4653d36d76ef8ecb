SPECIFICATION FairReplaySpec
CONSTANTS
  a = a
  c = c
  d = d
  r1 = r1
  p1 = p1
  Unknown = Unknown
  None = None
  Items = {a}
  Contents = {c, d}
  Pulls = {r1}
  Replays = {p1}
  Overlap = 1
  Lookback = 1
  Skew = 1
  MaxItems = 1
  MaxAttempts = 2
  MaxTime = 1
  MaxEdits = 2
PROPERTIES RowsSettle
