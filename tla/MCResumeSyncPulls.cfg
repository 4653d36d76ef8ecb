SPECIFICATION InertSpec
CONSTANTS
  a = a
  b = b
  c = c
  d = d
  r1 = r1
  r2 = r2
  p1 = p1
  Unknown = Unknown
  None = None
  Items = {a, b}
  Contents = {c, d}
  Pulls = {r1, r2}
  Replays = {p1}
  Overlap = 0
  Lookback = 1
  Skew = 0
  MaxItems = 2
  MaxAttempts = 1
  MaxTime = 2
  MaxEdits = 2
SYMMETRY Symmetry
INVARIANTS NoVersionLost
