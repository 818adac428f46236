SPECIFICATION Spec
CONSTANTS
  NoAttempt = NoAttempt
  NoToken = NoToken
  Events = {e1, e2}
  Workers = {w1, w2}
  Users = {u1}
  BeatCap = 2
  ReapAfter = 1
  JobTimeout = 1
  LeaseAge = 1
  StaleAge = 1
  MaxAttempts = 3
  RetryMax = 1
  MaxEntries = 1
  RequireReview = FALSE
  MaxFaults = 1
SYMMETRY Symmetry
INVARIANTS
  ExclusiveExecution
  SuccessIsCurrentAttempt
  ConsumedMeansSettled
  OperatorTextSurvives
PROPERTIES
  SupersededIsSilent
  ImplementsAttempts
