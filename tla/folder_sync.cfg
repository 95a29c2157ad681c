SPECIFICATION SyncSpec
CONSTANTS
  Sources = {1, 2}
  Versions = {a, b}
  Places = {"volcado", "comun"}
  Syncers = {y1}
  nothing = nothing
SYMMETRY Symmetry
PROPERTY QuietPassSettles
