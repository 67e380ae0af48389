CONSTANTS
  Members = {m1, m2}
  NoMember = NoMember
  NoFold = NoFold
  x = x
  y = y
  Orders = {x, y}
  EventLog <- ShortLog
  SnapshotLog <- JustGone
  state_write_order = "state_first"
  CoAssigned = TRUE
  HandlerMayFail = FALSE
  LiveEvictions = FALSE
  DeliveryMayFail = FALSE
  MaxDisruptions = 1
SPECIFICATION Spec
INVARIANTS
  DeletedStaysDeleted
CHECK_DEADLOCK FALSE
