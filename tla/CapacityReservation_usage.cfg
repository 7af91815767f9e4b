SPECIFICATION FairSpec
CONSTANTS
  Resolvers = {r1, r2}
  Launches = {l1}
  Usages = {u1}
  Total = 1
  Paths = {"ocid", "filter"}
  None = None
INVARIANTS
  MarkedUsageCountedUnlessRaced
PROPERTY SelfHeals
