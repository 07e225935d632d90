CONSTANTS
  Writer = {w1, w2}
  Reader = {r1, r2}
  Teams = {{w1, w2, r1}, {w1, r1, r2}}
  NULL = NULL
  Length = 2
  INTQ_BUFSIZE = 2
  MaxNotes = 1
  MaxKeys = 2
SPECIFICATION FairSpec
CHECK_DEADLOCK FALSE
INVARIANTS InOrder NotMixed
PROPERTIES PrintEnds
