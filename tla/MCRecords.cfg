CONSTANTS
  MaxCollectionRounds = 4
  BatchSize = 1
  MaxProtocolAttempts = 1
  MaxLostHooks = 0
  a1 = a1
  n1 = n1
  n2 = n2
  s1 = s1
  s2 = s2
  Need = {n1, n2}
  Condition = {s1, s2}
  Artifact = {a1}
  a = a
  b = b
  c1 = c1
  d = d
  f1 = f1
  f2 = f2
  i1 = i1
  i2 = i2
  t1 = t1
  t2 = t2
  v1 = v1
  v2 = v2
  None = None
  NoResult = NoResult
  Call = {c1}
  MaxCommits = 4
  MaxLostFiles = 0
  File = {f1, f2}
  Value = {v1, v2}
  Listed = {f1}
  Retained = {t1}
  Item = {i1, i2}
  MaxIds = 9
  MaxBody = 2
  MaxQuotes = 2
  MaxCrashes = 1
  Source <- MCSource
  Shape <- MCSource
  ShapeOf <- MCShapeOf
  MaxInits = 3
  MaxRuns = 2
  MaxApplies = 2
  MaxFaults = 2
  Block = {b, d}
  Dynamic = d
  Task = {t1, t2}
  ModelCall = {c1}
  Capacity = 3
  MaxEvents = 3
CHECK_DEADLOCK FALSE
SPECIFICATION PartsSpec
INVARIANTS
  VerdictAlwaysApplies
  ResearchSeesDecidedNeeds
  BudgetIsUsedUp
  StallIsEarned
  StartedHoldsPreUnit
  PublishedIsDurable
  OneIdPerFile
  CompletedIdsKeep
  CitationsAreGenuine
  OpenReadsOneInit
  CheckpointsFitThePlan
  ConsumerIsCurrent
PROPERTIES
  LedgerOnlyAdvances
  UnitKeepsContract
  ImplementsContract
