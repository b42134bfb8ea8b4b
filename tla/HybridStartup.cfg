SPECIFICATION FairSpec
CONSTANTS
  sim = sim
  phy = phy
  MinLockSamples = 2
  RecoverLockSamples = 1
  LostAfterFailures = 2
  StartupLockTimeout = 1
  MaxSampleAge = 1
  EstimatorWindow = 2
  Affine = TRUE
  EpochStart = 1
  CounterMax = 2
  RunMode = "hybrid"
  Routes <- MCRoutes
  Domain <- MCDomain
  MaxAuthorityAge = 1
  MaxSkew = 1
  MaxWallError = 1
  MaxWallStep = 1
  MinRate = 1
  MaxRate = 3
  RateUnit = 2
  WallAnchor = 1
  MaxSteady = 4
  GazeboStamps <- MCGazeboStamps
  RawStamps <- MCRawStamps
  Violations <- MCViolations
  WallErrors <- MCWallErrors
INVARIANTS
  AuthorityLossReachesRoutes
  HealthIsCurrent
PROPERTIES
  StartupResolves
