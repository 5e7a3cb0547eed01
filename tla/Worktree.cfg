SPECIFICATION Spec
CONSTANTS
  c1 = c1
  c2 = c2
  p1 = p1
  p2 = p2
  b1 = b1
  b2 = b2
  Command = {c1, c2}
  Pid = {p1, p2}
  Block = {b1, b2}
  Foreign = Foreign
  Torn = Torn
  NoBlock = NoBlock
  MaxStarts = 2
SYMMETRY Symmetry
INVARIANTS
  WorktreeTypeOK
  RecordIsComplete
  DownLeavesNothing
  PortsPersist
PROPERTIES
  NothingForeignIsSignalled
  IdleWhenRemoved
CHECK_DEADLOCK FALSE
