SPECIFICATION FairSpec
CONSTANTS
  NULL = NULL
  Nodes = {0, 1, 2}
  FirstNode = 0
  MaxCount = 2
PROPERTIES
  FailedNodeRestarts
CHECK_DEADLOCK FALSE
