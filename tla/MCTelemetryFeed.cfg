SPECIFICATION FeedSpec
CONSTANTS
  vibration = vibration
  forever = forever
  ScalarKeys <- MCScalarKeys
  Deadline <- MCDeadline
  TrendDeadline = 9
  Faults <- MCFaults
  ContractFault <- MCFault
  NoFault <- MCNoFault
  Required = 2
  NoDeadline = forever
  Likeness <- MCLikeness
  CodeColumns <- MCCodeColumns
  CycleColumns <- MCCycleColumns
  Synonyms <- MCSynonyms
  SeriesCap = 4
  first = first
  second = second
  Mission <- MCMission
  Tables <- MCTables
  Batches <- MCBatches
  RelapseCycle = 3
  MaxBatches = 1
  MaxObserved = 5
INVARIANTS
  NoReadingIsLost
  ReadingsKeepTheirOrder
  IntakeAndEvaluatorAgree
SYMMETRY MCSymmetry
CHECK_DEADLOCK FALSE
