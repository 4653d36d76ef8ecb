SPECIFICATION FairSpec
CONSTANTS
  Configs = {c1}
  Clients = {t1}
  Workers = {w1, w2}
  MaxAttempts = 3
  MaxIds = 2
  MaxMessages = 2
  CanLose = FALSE
  None = None
PROPERTY
  ChecksSettle
