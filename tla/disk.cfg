CONSTANTS
  Thread = {t1, t2}
  main = main
  NULL = NULL
  v1 = v1
  v2 = v2
  Value = {v1, v2}
  Capacity <- MCCapacity
  Images <- MCImages
  Limit = 5
  M = 8
  MaxOps = 2
  MaxFrames = 3
SPECIFICATION FairSpec
CHECK_DEADLOCK FALSE
INVARIANTS PartitionsInside TransferExact
PROPERTIES IoReturns
