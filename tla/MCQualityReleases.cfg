SPECIFICATION Spec
CONSTANTS
  JDs = {j1}
  Labels = {v1, v2}
  Candidates = {c1}
  Editors = {e1, e2}
  Texts = {t1, t2}
  MaxRequests = 2
  MaxGoldenImports = 1
  GoldenLabels = {advance, reject}
  Releasers = {r1, r2}
  MaxAttempts = 2
  MaxFailures = 1
  None = None
INVARIANTS
  PublishedIsActive
  ReleaseIsWhatWasPreviewed
  SnapshotPerContent
PROPERTIES
  StatusForward
  ReleaseCoherent
SYMMETRY Symmetry
CHECK_DEADLOCK FALSE
