CONSTANTS
  MaxTid = 3
  Code = {0}
SPECIFICATION FairSpec
CHECK_DEADLOCK FALSE
PROPERTY ExecReturns
