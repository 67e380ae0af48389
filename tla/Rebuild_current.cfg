CONSTANTS
  NoMember = NoMember
  None = None
  a = a
  b = b
  Members = {a, b}
  Orders = {x, y}
  Modes <- OneOfEach
  MaxWrites = 3
  MaxDisruptions = 2
  MaxEvents = 4
SPECIFICATION Spec
INVARIANTS
  TypeOK
  RebuildIsCurrent
  FullRebuildIsExact
SYMMETRY OrderSymmetry
CHECK_DEADLOCK FALSE
