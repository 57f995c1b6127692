SPECIFICATION MemorySpec
CONSTANTS
  PAGE = 2
  ENTRIES = 4
  Multiboots <- MCMultiboots
  None = None
  GcCaps = {0, 1, 2}
  Scenarios <- DisabledTwice
  MaxEvacuated = 0
  MaxWeakRounds = 0
  Megablocks = 3
  BlocksPer = 4
  BlockSpan = 5
  Requests = {1}
  MaxHeld = 1
  TimerCaps = {0, 1}
  IdleGC = TRUE
  Delay = 1
  Tick = Tick
INVARIANT NeverBarfs
