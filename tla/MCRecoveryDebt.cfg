SPECIFICATION DebtSpec
CONSTANTS
  vibration = vibration
  interlock = interlock
  f27 = f27
  none = none
  forever = forever
  measurement = measurement
  firstpiece = firstpiece
  ScalarKeys <- MCScalarKeys
  ProductionKeys <- MCProductionKeys
  SafetyBearing <- MCSafety
  Deadline <- MCDeadline
  TrendDeadline = 3
  Faults <- MCFaults
  ContractFault = f27
  Required = 2
  NoFault = none
  NoDeadline = forever
  Readings <- MCReadings
  MonitoringEvidence <- MCEvidence
  FirstPiece = firstpiece
  IncidentFault = f27
  EscalateAfter = 1
  MaxCycles = 3
  MaxAnnounced = 0
  MaxDrafted = 0
  MaxDebts = 2
  Waivers <- MCWaivers
INVARIANTS
  CanCloseMeansEveryGate
  ServicesAgree
  BreachEndsTheIncident
PROPERTIES
  DebtsAreSettledHonestly
