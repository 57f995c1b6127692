SPECIFICATION Spec
CONSTANTS
  Threads = {t1, t2}
  TVars = {x, y}
  Values = {0, 1}
  Initial = 0
  Ops = {}
  Plain = {t1, t2}
  ThroughOrElse = FALSE
  MaxSteps = 2
  MaxDepth = 0
  MaxCommits = 1
SYMMETRY Symmetry
INVARIANTS Serializable
CHECK_DEADLOCK FALSE
