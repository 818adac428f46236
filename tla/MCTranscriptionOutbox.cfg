SPECIFICATION Spec
CONSTANTS
  NoAttempt = NoAttempt
  NoToken = NoToken
  Nothing = Nothing
  Operator = Operator
  Events = {e1, e2}
  Workers = {w1, w2}
  BeatCap = 1
  ReapAfter = 0
  JobTimeout = 0
  LeaseAge = 0
  StaleAge = 0
  MaxAttempts = 1
  RetryMax = 1
  MaxEntries = 1
  MaxRevision = 1
  MaxFaults = 1
SYMMETRY Symmetric
INVARIANTS
  ReviewHasEvidence
  SeparationStaysBehind
PROPERTIES
  ImplementsTranscripts
  RetryIsSpared
  LateFailureSparesRender
