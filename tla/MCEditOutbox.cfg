SPECIFICATION FairSpec
CONSTANTS
  NoAttempt = NoAttempt
  NoToken = NoToken
  NoRequest = NoRequest
  Requests = {l1, b1}
  LyricsEdits = {l1}
  BackgroundEdits = {b1}
  EditType <- MCEditType
  Animated = {}
  Workers = {w1, w2}
  Reviewers = {u1}
  Admins = {u1}
  MaxEdits = 0
  MaxCount = 1
  MaxRevision = 1
  BeatCap = 0
  JobTimeout = 1
  AbandonAfter = 0
  LeaseAge = 1
  StaleAge = 1
  MaxAttempts = 1
  RetryMax = 1
  MaxEntries = 1
  MaxFaults = 1
INVARIANTS
  SuccessIsTickedOff
  ConsumedMeansSettled
PROPERTIES
  ImplementsDeliveries
  LateFailureIsIgnored
  EditSettles
