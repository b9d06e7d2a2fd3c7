SPECIFICATION Spec
CONSTANTS
  vibration = vibration
  f27 = f27
  e12 = e12
  none = none
  forever = forever
  measurement = measurement
  firstpiece = firstpiece
  ScalarKeys <- MCScalarKeys
  Deadline <- MCDeadline
  TrendDeadline = 3
  Faults <- MCFaults
  ContractFault = f27
  Required = 2
  NoFault = none
  NoDeadline = forever
  Readings <- MCReadings
  MonitoringEvidence <- MCEvidence
  FirstPiece = firstpiece
  IncidentFault = f27
  EscalateAfter = 2
  MaxCycles = 3
  MaxAnnounced = 1
  MaxDrafted = 1
INVARIANTS
  TypeOK
  MonitoringHasItsWindow
  ReopeningLeavesOneTrail
  ClosureIsAllOrNothing
  FailuresAreBounded
PROPERTIES
  ClosureIsEarned
  HistoryIsPreserved
  ImplementsVerifiedClosure
