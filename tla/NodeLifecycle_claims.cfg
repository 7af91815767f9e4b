SPECIFICATION FairSpec
CONSTANTS
  Claims = {c1}
  Instances = {i1, i2}
  MaxAttempts = 2
  MaxCrashes = 1
  FailOver = TRUE
  SlowLaunch = FALSE
  None = None
INVARIANTS
  TypeOK
  AtMostOneInstance
  GracefulDeleteLeavesNothing
  KnownClaimsKeepTheirInstance
PROPERTIES
  ImplementsContract
  OrphansReclaimed
  DeletionCompletes
