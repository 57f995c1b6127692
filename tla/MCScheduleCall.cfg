SPECIFICATION Spec
CONSTANTS
  w1=w1 w2=w2 w3=w3 w4=w4 w5=w5 b1=b1 b2=b2 u1=u1
  NCaps = 2
  Callers = {b1}
  Workers = {w1, w2, w3, w4, w5}
  Unbound = {u1}
  MaxSpare = 2
  Spurious = FALSE
  NoTask = NoTask
  Locked = {}
  CallKinds = {"eval"}
  ThreadKinds = {"call", "fork"}
CHECK_DEADLOCK FALSE
SYMMETRY Symmetry
INVARIANTS FewWorkers RunsAtHome
