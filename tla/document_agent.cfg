SPECIFICATION FairSpec
CONSTANTS
  Notes = {n}
  Answering = {"caudal_job_cancel"}
  Publishing = {"note_update", "note_theme_update", "note_processed_approve", "note_share", "note_manual_create"}
  Conflicts = {c}
  MaxRevision = 2
  MaxCalls = 1
  MaxRuns = 1
  MaxTurns = 2
  Batch = 2
  none = none
INVARIANT AuditKept
INVARIANT WorkKept
INVARIANT SyncHeals
PROPERTY EverythingArrives
CHECK_DEADLOCK FALSE
