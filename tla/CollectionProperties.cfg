CONSTANTS
  MaxCollectionRounds = 2
  BatchSize = 2
  MaxProtocolAttempts = 2
  MaxLostHooks = 1
  None = None
  Need = {n1}
  Condition = {s1}
  Artifact = {a1, a2, a3}
  Call = {c1, c2}
SPECIFICATION FairSpec
INVARIANTS
  UnreviewedMatchesEvidence
  QuietAfterCheckpoint
  AcceptedIsRecorded
  LeasesAreAccounted
  ResearchSeesReviewedEvidence
PROPERTIES
  Termination
  LostLeaseEndsTheBlock
