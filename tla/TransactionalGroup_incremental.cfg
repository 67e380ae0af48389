CONSTANTS
  NoMember = NoMember
  x = x
  y = y
  m1 = m1
  m2 = m2
  Members = {m1, m2}
  Numbers <- TwoNumbers
  Orders = {x, y}
  Home <- HomeTwo
  Log <- RetryAfter
  Id <- OwnId
  Interval = 3
  Incremental = TRUE
  LiveEvictions = FALSE
  HandlerMayFail = FALSE
  MaxDisruptions = 1
SPECIFICATION Spec
PROPERTIES
  ImplementsExactlyOnce
CHECK_DEADLOCK FALSE
