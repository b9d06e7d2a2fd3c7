SPECIFICATION Spec
CONSTANTS
  call = call
  retry = retry
  other = other
  stray = stray
  k1 = k1
  incident = incident
  adhoc = adhoc
  Requests <- MCRequests
  Keys <- MCKeys
  KeyOf <- MCKeyOf
  Correlations <- MCCorrelations
  CorrelationOf <- MCCorrelationOf
  None = None
CHECK_DEADLOCK FALSE
INVARIANTS
  OnceOnlyEffect
  AuditChainVerifies
  NothingHalfDone
PROPERTIES
  EveryRequestEnds
