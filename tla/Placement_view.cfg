SPECIFICATION Spec
CONSTANTS
  Claims = {c1, c2}
  Instances = {i1, i2}
  adA = adA
  adB = adB
  pA = pA
  pB = pB
  Ads = {adA, adB}
  Proposals = {pA, pB}
  AdOf <- MCAdOf
  MaxCrashes = 1
  None = None
SYMMETRY Symmetry
INVARIANTS
  ViewCoversLiveInstances
  StandInsAreInFlight
  SpreadEvenly
  ForgottenForGood
