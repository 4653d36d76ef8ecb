SPECIFICATION Spec
CONSTANTS
  Uploads = {u1, u2}
  Files = {f1, f2}
  People = {p1}
  Workers = {w1, w2}
  MaxAttempts = 2
  TimeLimit = 1
  LeaseSeconds = 2
  MaxMessages = 1
  None = None
SYMMETRY Symmetry
INVARIANTS
  InMemoryStateCurrent
  CandidateFileIntact
  LeaseIffProcessing
  ResultsBehindJobs
  OneActiveJobPerFile
PROPERTY
  JobsFollowLifecycle
