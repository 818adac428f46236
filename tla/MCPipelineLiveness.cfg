SPECIFICATION FairSpec
CONSTANTS
  NoAttempt = NoAttempt
  NoToken = NoToken
  Events = {e1}
  Workers = {w1, w2}
  Users = {}
  BeatCap = 2
  ReapAfter = 1
  JobTimeout = 1
  LeaseAge = 1
  StaleAge = 1
  MaxAttempts = 2
  RetryMax = 2
  MaxEntries = 1
  RequireReview = FALSE
  MaxFaults = 2
PROPERTIES
  IntentSettles
  JobSettles
