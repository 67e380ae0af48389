CONSTANTS
  Handlers = {h1, h2}
  NoHandler = NoHandler
  NoFold = NoFold
  Orders = {x}
  ForceAllowed = TRUE
  MaxSequence = 3
  MaxDisruptions = 1
SYMMETRY Symmetry
SPECIFICATION Spec
INVARIANTS
  TypeOK
  SequencesAreUnique
  SequencesAreContiguous
  UnforcedEventsFollow
  StoreOnlyKnowsPublished
  GoneOnlyWithTombstone
CHECK_DEADLOCK FALSE
