SPECIFICATION StreamSpec
CONSTANTS
  NoCode = "none"
  Conditions <- MCConditions
  Precursor = "bearing_precursor"
  RiseTolerance = 5
  GradeSpan = 20
  MinSamples = 2
  Plausible <- MCPlausible
  RequiredStable = 3
  Bundles <- MCBundles
  DriftTolerance = 2
  LateTolerance = 3
  ExpectedUnit <- MCExpectedUnit
  NormalContext <- MCNormalContext
  MonitoredFault = "F27"
  MaxRepeats = 1
  MaxGarbled = 1
  NoTime = NoTime
  NoOutcome = "unpublished"
INVARIANTS
  NothingIsDropped
  ReportIgnoresArrivalOrder
PROPERTIES
  LatenessIsFlagged
  FailedStaysFailed
CHECK_DEADLOCK FALSE
