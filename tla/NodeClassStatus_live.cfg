SPECIFICATION FairSpec
CONSTANTS
  Kinds = {"Image"}
  Optional = {}
  Order <- MCOneOrder
  Claims = {c1}
  MaxGen = 2
  MaxCrashes = 0
  None = None
INVARIANT ClassOutlivesItsInstances
PROPERTIES
  BecomesReady
  ClassDeletionCompletes
