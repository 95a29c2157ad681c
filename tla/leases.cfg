SPECIFICATION FairSpec
CONSTANTS
  Workers = {w1, w2}
  Jobs = {j1, j2}
  Models = {m1}
  Vectors = TRUE
  Entry = "copied_dirty"
  Shared = FALSE
  MaxCrashes = 1
  none = none
  SourceClass <- MCSourceClass
  Document <- MCDocument
INVARIANT LeasesWithinLimit
INVARIANT OneWriterPerDocument
PROPERTY LeasesGivenBack
CHECK_DEADLOCK FALSE
