CONSTANTS
  None = None
  OciDefault = OciDefault
  Home = "home"
  VcnHome = "vcn"
  PreBaked = "oke"
  Platform = "platform"
  IpFamilies <- MCFamilies
  NpnCluster = TRUE
  Subnets <- MCSubnets
  Groups <- MCGroups
  Clusters <- MCClusters
  KmsKeys = {"k1"}
  Compartments = {"home", "other"}
  Reservations = {"r1"}
  Specs <- MCSpecs
  InitialSpecs <- MCInitialSpecs
  Edits <- MCEdits
  TypeInfo <- MCTypeInfo
  Nsgs <- MCNsgs
  Images <- MCImages
  Published = {"oke", "own"}
  Version = 30
  Primary = "v0"
  Secondaries <- MCSecondaries
  MaxEvents = 1
  MaxFaults = 1
SPECIFICATION FairSpec
INVARIANTS DriftMeansReplacementDiffers NoDriftMeansRequestHolds ChildrenBelong CachedNamesLaunchImage
PROPERTIES GoneForgotten
CHECK_DEADLOCK FALSE
