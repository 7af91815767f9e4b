SPECIFICATION FairSpec
CONSTANTS
  n1 = n1
  n2 = n2
  Nodes = {n1, n2}
  Keys = {k1}
  Memory <- MCMemory
  MaxCrashes = 1
  None = None
INVARIANTS
  SmallestIsServed
PROPERTIES
  EveryNodeTeaches
  RetriesEnd
CHECK_DEADLOCK FALSE
