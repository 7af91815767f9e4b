SPECIFICATION Spec
CONSTANTS
  Claims = {c1}
  Instances = {i1}
  MaxAttempts = 1
  MaxCrashes = 0
  FailOver = TRUE
  SlowLaunch = FALSE
  None = None
INVARIANT ReclaimsOnlyOrphans
