CONSTANTS
  MaxTid = 4
  Code = {0}
SPECIFICATION FairSpec
CHECK_DEADLOCK FALSE
INVARIANTS ExecSeesItsOwnLoad WaitAccounting
PROPERTIES CallsReturn
