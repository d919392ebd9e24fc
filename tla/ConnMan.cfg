SPECIFICATION FairSpec
CONSTANTS
  n1 = n1
  n2 = n2
  Node <- MCNode
  LinkSize = 1
  SendMax = 1
  Flood = 0
  Batch = 2
  Requests = 1
  MaxSelectErrors <- MCMaxSelectErrors
INVARIANT RefsProtect
INVARIANT QueuesBounded
CHECK_DEADLOCK FALSE
PROPERTY ServedOrEnded
