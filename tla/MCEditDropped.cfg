SPECIFICATION Spec
CONSTANTS
  NoAttempt = NoAttempt
  NoToken = NoToken
  NoRequest = NoRequest
  Requests = {m1, m2}
  LyricsEdits = {}
  BackgroundEdits = {}
  EditType <- MCEditType
  Animated = {}
  Workers = {w1, w2}
  Reviewers = {u1}
  Admins = {}
  MaxEdits = 1
  MaxCount = 1
  MaxRevision = 1
  BeatCap = 0
  JobTimeout = 1
  AbandonAfter = 0
  LeaseAge = 1
  StaleAge = 1
  MaxAttempts = 2
  RetryMax = 1
  MaxEntries = 1
  MaxFaults = 1
INVARIANTS
  AcceptedEditIsPublished
