SPECIFICATION Spec
CONSTANTS
  Places = {"3_capturado", "4_procesado"}
  People = {p, q}
  Bodies = {x, y}
  Seals = {"4_procesado"}
  Outside = TRUE
  Ttl = 1
  MaxTime = 1
  MaxRevision = 2
  none = none
SYMMETRY Symmetry
INVARIANT ProjectionsAgree
INVARIANT RevisionNamesText
INVARIANT SharedWasApproved
PROPERTY ApprovedUnderClaim
PROPERTY NoLostUpdate
CHECK_DEADLOCK FALSE
