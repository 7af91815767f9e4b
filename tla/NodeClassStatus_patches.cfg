SPECIFICATION Spec
CONSTANTS
  Kinds = {"Image", "KmsKey"}
  Optional = {"KmsKey"}
  Order <- MCOrder
  Claims = {}
  MaxGen = 2
  MaxCrashes = 1
  None = None
INVARIANTS
  ReadyMeansHashed
  ReadyMeansResolved
  HashOnlyOfReadySpec
