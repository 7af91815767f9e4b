CONSTANTS
  None = None
  c1 = c1
  c2 = c2
  Claims <- MCClaims
  Shapes <- MCShapes
  Ads <- MCAds
  Scenarios <- FdScenarios
  GlobalConfigs <- MCGlobalConfigs
  Families <- MCFamilies
SPECIFICATION Spec
INVARIANT NeverPanics
