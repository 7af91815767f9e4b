SPECIFICATION FairSpec
CONSTANTS
  Claims = {c1}
  MaxGen = 2
  MaxCrashes = 1
  None = None
INVARIANTS
  NpnMatchesInstance
  ServedClaimsKept
PROPERTY RecoveredOrReplaced
