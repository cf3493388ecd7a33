CONSTANTS
  MaxCommits = 3
  MaxLostFiles = 1
  NoResult = NoResult
  f1 = f1
  f2 = f2
  v1 = v1
  v2 = v2
  File <- MCFile
  Value <- MCValue
SYMMETRY Symmetry
SPECIFICATION Spec
INVARIANT
  StartedHoldsPreUnit
