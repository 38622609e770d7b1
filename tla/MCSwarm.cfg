SPECIFICATION FairSpec
CONSTANTS
  root = root
  a = a
  b = b
  c = c
  Root = root
  Members <- MCChain
  Parent <- MCChainParent
  MaxConcurrent = 2
  MaxPending = 1
  MaxSends = 2
INVARIANTS
  CapacityKept
  QueueHasOneOwner
  StopReachesSubtree
PROPERTIES
  MessagesSettle
  ClosedSettles
CHECK_DEADLOCK FALSE
