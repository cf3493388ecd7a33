CONSTANTS
  b = b
  d = d
  t1 = t1
  t2 = t2
  c1 = c1
  Block = {b, d}
  Dynamic = d
  Task = {t1, t2}
  ModelCall = {c1}
  Capacity = 3
  MaxEvents = 3
CHECK_DEADLOCK FALSE
SPECIFICATION Spec
INVARIANTS
  PriorityIsNeverDropped
