CONSTANTS
  Members = {m1, m2}
  NoMember = NoMember
  NoFold = NoFold
  x = x
  y = y
  Orders = {x, y}
  EventLog <- PoisonLog
  SnapshotLog <- JustGone
  state_write_order = "offset_first"
  CoAssigned = FALSE
  HandlerMayFail = TRUE
  LiveEvictions = TRUE
  DeliveryMayFail = TRUE
  MaxDisruptions = 1
SPECIFICATION FairSpec
INVARIANTS
  TypeOK
  CommittedIsDone
PROPERTIES
  ImplementsAtLeastOnce
  EveryMessageHandled
CHECK_DEADLOCK FALSE
