SPECIFICATION Spec
CONSTANTS
  Notes = {n}
  Threads = {t, u}
  Parts = {p, q}
  Limit = 1
  MaxRevision = 3
  Modes = {"hybrid", "bm25_vault"}
  Failing = {"lancedb", "sqlite", "crash"}
SYMMETRY Symmetry
INVARIANT ServedWasApproved
INVARIANT IndexMatches
INVARIANT CacheFollowsIndex
CHECK_DEADLOCK FALSE
