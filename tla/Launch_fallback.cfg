CONSTANTS
  None = None
  c1 = c1
  c2 = c2
  Claims <- MCClaims
  Shapes <- MCShapes
  Ads <- MCAds
  Scenarios <- MCScenarios
  GlobalConfigs <- MCGlobalConfigs
  Families <- MCFamilies
SPECIFICATION Spec
INVARIANTS SuppressedOnlyWhereItFailed RoutedAround NothingSkipped LaunchedAsOffered SizesSound
PROPERTIES CatalogMatchesOci FallbackReached
