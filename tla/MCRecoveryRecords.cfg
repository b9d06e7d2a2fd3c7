SPECIFICATION RecordsSpec
CONSTANTS
  vibration = vibration
  f27 = f27
  none = none
  forever = forever
  measurement = measurement
  firstpiece = firstpiece
  ScalarKeys <- MCScalarKeys
  ProductionKeys <- MCProductionKeys
  SafetyBearing <- MCSafety
  Deadline <- MCDeadline
  TrendDeadline = 3
  Faults <- MCFaults
  ContractFault = f27
  Required = 1
  NoFault = none
  NoDeadline = forever
  Readings <- MCReadings
  MonitoringEvidence <- MCEvidence
  FirstPiece = firstpiece
  IncidentFault = f27
  EscalateAfter = 1
  MaxCycles = 2
  MaxAnnounced = 0
  MaxDrafted = 1
  MaxDebts = 1
  MaxHandoffs = 1
  Waivers <- MCWaivers
INVARIANTS
  LessonsMatchTheRows
  LeftOutMeansFinished
  ReopenToolHasNothingToDo
  InboxTellsTheStage
