CONSTANTS
  Members = {m1, m2}
  NoMember = NoMember
  NoFold = NoFold
  x = x
  y = y
  Orders = {x, y}
  EventLog <- RetriedLog
  SnapshotLog <- YGone
  state_write_order = "state_first"
  CoAssigned = TRUE
  HandlerMayFail = TRUE
  LiveEvictions = FALSE
  DeliveryMayFail = FALSE
  MaxDisruptions = 2
SYMMETRY Symmetry
SPECIFICATION Spec
INVARIANTS
  TypeOK
  CommittedIsDone
  ChangelogCoversCommitted
  EveryDeliveryCounted
  StoreMirrorsChangelog
  ViolationsAreReal
PROPERTIES
  ImplementsAtLeastOnce
  ChangelogNeverRegresses
CHECK_DEADLOCK FALSE
