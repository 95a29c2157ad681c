SPECIFICATION FairSpec
CONSTANTS
  Workers = {w1}
  Operators = {o1}
  LegacyAuto = FALSE
  Vectors = TRUE
  Faults = {"skipped", "processing_error", "transient_io"}
  Events = {"edit"}
  MaxVersion = 2
  AttemptCap = 3
  MaxInterruptions = 1
INVARIANT SnapshotsAreCurrent
INVARIANT CompletedHasOutput
PROPERTY CancelOrReview
PROPERTY ApprovedCompletes
CHECK_DEADLOCK FALSE
