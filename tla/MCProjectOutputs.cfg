CONSTANTS
  a = a
  b = b
  Source <- MCSource
  Shape <- MCSource
  ShapeOf <- MCShapeOf
  MaxInits = 2
  MaxRuns = 2
  MaxApplies = 2
  MaxFaults = 0
CHECK_DEADLOCK FALSE
SPECIFICATION Spec
INVARIANTS
  OutputsAreOfConfiguration
