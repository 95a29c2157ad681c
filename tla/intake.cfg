SPECIFICATION FairSpec
CONSTANTS
  Names = {a}
  Contents = {x}
  Pollers = {p}
  Consoles = {c}
  Faults = {"job_store_busy", "disk_full", "processing_error"}
  Modes = {TRUE, FALSE}
  Replaces = FALSE
  AttemptCap = 0
  JobsPerContent = 2
  MaxDrops = 1
  Budgets <- OneAtATime
  none = none
INVARIANT NothingLost
INVARIANT RecordsAreTrue
INVARIANT OneJobPerContent
PROPERTY EveryFileIsTaken
CHECK_DEADLOCK FALSE
