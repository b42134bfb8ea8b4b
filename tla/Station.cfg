SPECIFICATION Spec
CONSTANTS
  MinLockSamples = 2
  RecoverLockSamples = 1
  LostAfterFailures = 2
  StartupLockTimeout = 2
  MaxSampleAge = 1
  EstimatorWindow = 3
  Affine = TRUE
  EpochStart = 1
  CounterMax = 2
  RunMode = "physical"
  Routes = {}
  Domain <- MCDomain
  MaxAuthorityAge = 1
  MaxSkew = 1
  MaxWallError = 2
  MaxWallStep = 1
  MinRate = 1
  MaxRate = 3
  RateUnit = 2
  WallAnchor = 1
  MaxSteady = 5
  GazeboStamps <- MCNone
  RawStamps <- MCNone
  Violations <- MCNone
  WallErrors <- MCWallErrors
INVARIANTS
  EventTracksAggregate
  OpenIsAdmissible
PROPERTIES
  ImplementsGate
