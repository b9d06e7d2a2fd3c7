SPECIFICATION Spec
CONSTANTS
  N <- mc_N
  Poison <- mc_Poison
  Limit = 2
  MaxAttempts = 2
  MaxCrashes = 2
INVARIANTS
  OutboxTellsTheTruth
  DuplicatesCostACrash
PROPERTIES
  HealthyEventsGetOut
CHECK_DEADLOCK FALSE
