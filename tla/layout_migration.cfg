SPECIFICATION Spec
CONSTANTS
  Files = {f1, f2}
  Inodes = {i1, i2, i3}
  Texts = {a, b}
  Plans = {p1}
  BothSides = FALSE
  none = none
SYMMETRY Symmetry
INVARIANT NothingLost
PROPERTY RecordedAfterMove
