SPECIFICATION FairSpec
CONSTANTS
  NoAttempt = NoAttempt
  NoToken = NoToken
  Transcriber = Transcriber
  Workers = {w1}
  Dispatchers = {d1}
  StaleAfter = 0
  LeaseAge = 0
  StaleAge = 0
  MaxAttempts = 2
  RetryMax = 1
  MaxEntries = 2
  MaxChanges = 1
  MaxFaults = 1
INVARIANTS
  VerdictIsCurrent
  PendingCanLand
PROPERTIES
  ImplementsAnalyses
  HookSparesVerdict
  ApprovalSurvivesAnalysis
  PendingSettles
CHECK_DEADLOCK FALSE
