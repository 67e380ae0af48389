CONSTANTS
  NoMember = NoMember
  x = x
  y = y
  m1 = m1
  m2 = m2
  Members = {m1, m2}
  Numbers <- OneNumber
  Orders = {x, y}
  Home <- HomeOne
  Log <- MixedLog
  Id <- OwnId
  Interval = 4
  Incremental = FALSE
  LiveEvictions = TRUE
  HandlerMayFail = TRUE
  MaxDisruptions = 2
SPECIFICATION FairSpec
INVARIANTS
  TypeOK
PROPERTIES
  ImplementsExactlyOnce
  TransactionsEnd
CHECK_DEADLOCK FALSE
