SPECIFICATION Spec
CONSTANTS
  Workers = {w1}
  Operators = {}
  LegacyAuto = TRUE
  Vectors = TRUE
  Faults = {"transient_io", "processing_error", "skipped", "corrupt_content", "index_error", "vectors_unavailable", "quarantine_error", "invalid_model_output", "job_store_busy", "discard_error"}
  Events = {"wait", "edit"}
  MaxVersion = 2
  AttemptCap = 3
  MaxInterruptions = 1
INVARIANT LeftoversAreNamed
PROPERTY KeepsPromise
CHECK_DEADLOCK FALSE
