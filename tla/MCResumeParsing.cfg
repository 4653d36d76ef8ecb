SPECIFICATION FairSpec
CONSTANTS
  Attempts = {1, 2, 3}
  Costs = {1}
  MaxDay = 1
  FinalizeRetries = 2
  PollTime = 2
  MaxRuns = 1
  None = None
  NoError = NoError
INVARIANTS
  LedgerIsTrue
  RepeatJustified
  TransientIsRetried
  FilesRemoved
PROPERTIES
  RowsRecordRequests
  TaskEnds
  RowsSettle
CHECK_DEADLOCK FALSE
