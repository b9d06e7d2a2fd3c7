SPECIFICATION TriageSpec
CONSTANTS
  a1 = a1
  a2 = a2
  a3 = a3
  s1 = s1
  s2 = s2
  Alert <- MCAlert
  Suffix <- MCSuffix
  SuffixOf <- MCSuffixOf
  r1 = r1
  r2 = r2
  Request <- MCRequest
  Answers <- MCAnswers
  Safe <- MCSafe
  Corpora <- MCCorpora
  Model = "CDX-220"
  Components = {"motor", "coupling", "bearing"}
  K = 1
  RequiredStable = 1
  MaxTraces = 13
  MaxDay = 1
  NoAlert = NoAlert
  NoContract = NoContract
  NoConfidence = NoConfidence
SYMMETRY MCSymmetry
INVARIANTS
  OneIncidentPerAlert
  ProposalStaysSafe
  TracesTellTheStory
  NoVictoryWhileOpen
  ConflictsAreShown
CHECK_DEADLOCK FALSE
