SPECIFICATION Spec
CONSTANTS
  vibration = vibration
  scrap = scrap
  f27 = f27
  e12 = e12
  none = none
  forever = forever
  ScalarKeys <- MCScalarKeys
  Deadline <- MCDeadline
  TrendDeadline = 3
  Faults <- MCFaults
  ContractFault = f27
  Required = 2
  NoFault = none
  NoDeadline = forever
  MaxCycles = 3
  Earlier <- MCEarlier
INVARIANTS
  StreakIsLongestStableSuffix
  RelapseIsNeverMasked
  ReplayTellsWhatHappened
PROPERTIES
  VerifiedIffRecovered
