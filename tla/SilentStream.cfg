SPECIFICATION FitSpec
CONSTANTS
  MaxOffsetStep = 1
  MaxDrift = 1
  DriftUnit = 1
  MaxJitter = 1
  MaxUncertainty = 2
  SourceUncertainty = 1
  MinLockSamples = 2
  RecoverLockSamples = 1
  LostAfterFailures = 2
  StartupLockTimeout = 2
  MaxSampleAge = 1
  EstimatorWindow = 3
  Affine = TRUE
  EpochStart = 1
  CounterMax = 2
  RunMode = "physical"
  Routes = {r1}
  Domain <- MCDomain
  MaxAuthorityAge = 1
  MaxSkew = 1
  MaxWallError = 1
  MaxWallStep = 1
  MinRate = 1
  MaxRate = 3
  RateUnit = 2
  WallAnchor = 1
  MaxSteady = 5
  GazeboStamps <- MCNone
  RawStamps <- MCStamps
  Violations <- MCViolations
  WallErrors <- MCWallErrors
PROPERTIES
  SilentStreamStaysClosed
