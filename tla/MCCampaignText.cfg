SPECIFICATION Spec
CONSTANTS
  t0 = t0
  a1 = a1
  a2 = a2
  b1 = b1
  Texts <- MCTexts
  LyricOf <- MCLyricOf
  Empty = t0
  Edits = {a1, a2, b1}
  Unreviewed = {b1}
  Clients = {c1, c2}
  KeptDrafts = 1
  MaxRevision = 2
  MaxRequests = 2
  NoDocument = NoDocument
  NoView = NoView
  NoRequest = NoRequest
  NoApproval = NoApproval

INVARIANTS
  CampaignRendersApprovedText
