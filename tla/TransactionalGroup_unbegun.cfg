CONSTANTS
  NoMember = NoMember
  x = x
  y = y
  m1 = m1
  m2 = m2
  Members = {m1, m2}
  Numbers <- OneNumber
  Orders = {x, y}
  Home <- HomeOne
  Log <- EventFirst
  Id <- OwnId
  Interval = 2
  Incremental = FALSE
  LiveEvictions = FALSE
  HandlerMayFail = FALSE
  MaxDisruptions = 0
SPECIFICATION KeptSpec
PROPERTIES
  EveryMessageSettles
CHECK_DEADLOCK FALSE
