SPECIFICATION Spec
CONSTANTS
  a = a
  b = b
  e = e
  c = c
  r1 = r1
  Unknown = Unknown
  None = None
  Items = {a, b, e}
  Contents = {c}
  Pulls = {r1}
  Replays = {}
  Overlap = 1
  Lookback = 1
  Skew = 1
  MaxItems = 2
  MaxAttempts = 1
  MaxTime = 4
  MaxEdits = 3
SYMMETRY Symmetry
INVARIANTS NoCandidateLost
