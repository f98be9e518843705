SPECIFICATION Spec
CONSTANTS
  NULL = NULL
  Nodes = {0, 1, 2}
  FirstNode = 0
  MaxCount = 2
INVARIANTS
  TokensMatchFailures
CHECK_DEADLOCK FALSE
