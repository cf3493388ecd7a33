CONSTANTS
  Root = Root
  None = None
  dyn = dyn
  m = m
  r = r
  ser = ser
  up = up
  t1 = t1
  t2 = t2
  Node <- MCNode
  Home <- MCHome
  Kind <- MCKind
  Dependencies <- MCDependencies
  Base <- MCBase
  Width <- MCWidth
  TaskSpec = {t1, t2}
  MaxTasks = 2
  TaskLists <- MCTaskLists
  Serial = {ser}
  MaxRestarts = 1
  k1 = k1
  k2 = k2
  k3 = k3
  Files <- MCFiles
  Large = {k2}
  Parts = 2
  Prior = {k1, k2}
  MaxRetries = 1
  MaxFailures = 4
CHECK_DEADLOCK FALSE
SPECIFICATION PartsSpec
INVARIANTS
  ResearchWithinLimits
  RootCauseReported
  SuccessIsComplete
  ResultsMatchTasks
  RollbackIsExact
PROPERTIES
  ApplyEnds
