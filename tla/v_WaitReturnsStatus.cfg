CONSTANTS
  MaxTid = 4
  Code = {0}
SPECIFICATION Spec
CHECK_DEADLOCK FALSE
INVARIANT WaitReturnsStatus
