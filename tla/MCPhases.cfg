CONSTANTS
  MaxCollectionRounds = 3
  BatchSize = 2
  MaxUnreviewed = 4
  NoSnapshot = NoSnapshot
  MaxProtocolAttempts = 4
  QuotaLimit = 2
  MaxRecorded = 3
  MaxQCRounds = 3
  ResearchOnly = TRUE
  MaxIssues = 4
  MaxCompletionCalls = 5
  None = None
  a1 = a1
  a2 = a2
  c1 = c1
  c2 = c2
  n1 = n1
  s1 = s1
  v1 = v1
  v2 = v2
  Call = {c1, c2}
  Value = {v1, v2}
CHECK_DEADLOCK FALSE
SPECIFICATION PartsSpec
INVARIANTS
  RestorableOnceBegun
  QuotaCountsAccepted
  PassLeavesOnlyLateIssues
  VerdictFollowsCompletions
  PublishedIsConfirmed
PROPERTIES
  NeverReopensCollection
  CompletionIsOfThisTurn
  BlockTerminates
