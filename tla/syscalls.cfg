CONSTANTS
  Proc = {p1, p2}
  Size = 2

SPECIFICATION FairSpec
CHECK_DEADLOCK FALSE

INVARIANTS
  OneInside
  UsesFile

PROPERTIES
  FdKept
  CallReturns
