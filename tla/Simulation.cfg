SPECIFICATION FairSpec
CONSTANTS
  MinLockSamples = 2
  RecoverLockSamples = 1
  LostAfterFailures = 2
  StartupLockTimeout = 2
  MaxSampleAge = 1
  EstimatorWindow = 2
  Affine = FALSE
  EpochStart = 1
  CounterMax = 2
  RunMode = "simulation"
  Routes = {r1}
  Domain <- MCDomain
  MaxAuthorityAge = 1
  MaxSkew = 1
  MaxWallError = 2
  MaxWallStep = 1
  MinRate = 1
  MaxRate = 3
  RateUnit = 2
  WallAnchor = 1
  MaxSteady = 4
  GazeboStamps <- MCGazeboStamps
  RawStamps <- MCStamps
  Violations <- MCViolations
  WallErrors <- MCWallErrors
INVARIANTS
  TypeOK
  AuthorityLossReachesRoutes
  EventTracksAggregate
PROPERTIES
  PollClosesSilence
  SilenceCloses
  StartupResolves
