SPECIFICATION Spec
CONSTANTS
  w1=w1 w2=w2 w3=w3 w4=w4 w5=w5 b1=b1 b2=b2 u1=u1
  NCaps = 2
  Callers = {b1}
  Workers = {w1, w2, w3}
  Unbound = {u1}
  MaxSpare = 2
  Spurious = TRUE
  NoTask = NoTask
  Locked = {u1}
  CallKinds = {"eval"}
  ThreadKinds = {"again", "yield", "block", "fork"}
CHECK_DEADLOCK FALSE
SYMMETRY Symmetry
INVARIANTS EveryThreadOnce NoLostWakeup
