SPECIFICATION FairSpec
CONSTANTS
  t1 = t1
  t2 = t2
  p1 = p1
  p2 = p2
  p3 = p3
  w1 = w1
  a1 = a1
  a2 = a2
  series = series
  expr = expr
  None = None
  Threads <- MCThreads
  Pointers <- MCTwoPointers
  Wrappers <- MCWrappers
  Addresses <- MCAddresses
  Kinds <- MCKinds
  SharedDrops = FALSE
INVARIANT NoMemoryFault
PROPERTY NothingLeaks
CHECK_DEADLOCK FALSE
