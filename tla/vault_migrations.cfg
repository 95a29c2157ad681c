SPECIFICATION MigrationSpec
CONSTANTS
  Notes = {1, 2, 3}
  Owner = 3
  Bodies = {a, b}
  Tools = {"v3", "sumarios", "taxonomy", "schema", "identity"}
  MaxTouched = 1
  MaxRevision = 2
  missing = missing
SYMMETRY Symmetry
INVARIANT NothingWrittenIsLost
INVARIANT JournalIsTrue
INVARIANT ApprovalFollows
CHECK_DEADLOCK FALSE
