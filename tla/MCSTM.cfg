SPECIFICATION Spec
CONSTANTS
  Threads = {t1, t2}
  TVars = {x, y}
  Values = {0, 1}
  Initial = 0
  Ops = {"orElse", "catchSTM", "retry", "throwSTM", "preempt", "kill"}
  Plain = {t2}
  ThroughOrElse = FALSE
  MaxSteps = 2
  MaxDepth = 2
  MaxCommits = 1
SYMMETRY Symmetry
INVARIANTS Snapshot ReadsKept SleepersWatch NoLockLeft UpdatesSerial FramesMatch
CHECK_DEADLOCK FALSE
