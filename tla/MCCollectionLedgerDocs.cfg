CONSTANTS
  MaxCollectionRounds = 4
  BatchSize = 1
  MaxProtocolAttempts = 1
  MaxLostHooks = 0
  None = None
  a1 = a1
  c1 = c1
  n1 = n1
  n2 = n2
  s1 = s1
  s2 = s2
  Need = {n1, n2}
  Condition = {s1, s2}
  Artifact = {a1}
  Call = {c1}
SPECIFICATION HistorySpec
INVARIANT
  TwoIdleReviewsStall
