SPECIFICATION FairSpec
CONSTANTS
  w1=w1 w2=w2 w3=w3 w4=w4 w5=w5 b1=b1 b2=b2 u1=u1
  NCaps = 2
  Callers = {b1, b2}
  Workers = {w1, w2, w3}
  Unbound = {}
  MaxSpare = 2
  Spurious = FALSE
  NoTask = NoTask
  Locked = {}
  CallKinds = {"gc"}
  ThreadKinds = {}
CHECK_DEADLOCK FALSE
PROPERTY CollectionReturns
