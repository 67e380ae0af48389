CONSTANTS
  Handlers = {h1, h2}
  NoHandler = NoHandler
  NoFold = NoFold
  Orders = {x}
  ForceAllowed = FALSE
  MaxSequence = 3
  MaxDisruptions = 0
SYMMETRY Symmetry
SPECIFICATION Spec
INVARIANTS
  TableMirrorsStore
CHECK_DEADLOCK FALSE
