SPECIFICATION Spec
CONSTANTS
  Configs = {c1, c2}
  Clients = {t1, t2}
  Workers = {w1, w2}
  MaxAttempts = 2
  MaxIds = 2
  MaxMessages = 1
  CanLose = TRUE
  None = None
SYMMETRY Symmetry
INVARIANTS
  NewestNotContradicted
  QueuedIsClaimable
  OneLeaseHolder
PROPERTIES
  ChecksFollowLifecycle
  SettledIsFinal
