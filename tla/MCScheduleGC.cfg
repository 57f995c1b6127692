SPECIFICATION CollectSpec
CONSTANTS
  w1=w1 w2=w2 w3=w3 w4=w4 w5=w5 b1=b1 b2=b2 u1=u1
  NCaps = 2
  Callers = {b1}
  Workers = {w1, w2, w3}
  Unbound = {u1}
  MaxSpare = 1
  Spurious = FALSE
  NoTask = NoTask
  Locked = {}
  CallKinds = {"eval", "fork"}
  ThreadKinds = {"yield", "gc", "fork"}
  heap1=heap1 caf1=caf1
  SparkCaps = {0, 1}
  Sparkable = {heap1, caf1}
  Statics = {caf1}
  PoolSize = 4
  Sparkers = {1}
  MaxSparks = 4
  MaxPrunes = 1
  Starts = {3}
  NoSpark = NoSpark
CHECK_DEADLOCK FALSE
SYMMETRY Symmetry
INVARIANTS WorldStopped SparksCounted PrunedRight
