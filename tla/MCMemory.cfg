SPECIFICATION MemorySpec
CONSTANTS
  PAGE = 2
  ENTRIES = 4
  Multiboots <- MCMultiboots
  None = None
  GcCaps = {0, 1, 2}
  Scenarios <- Collections
  MaxEvacuated = 2
  MaxWeakRounds = 1
  Megablocks = 3
  BlocksPer = 4
  BlockSpan = 5
  Requests = {1, 2, 4, 6}
  MaxHeld = 3
  TimerCaps = {0, 1}
  IdleGC = TRUE
  Delay = 1
  Tick = Tick
INVARIANTS PageTablesFit ReservedIsFree TranslationCorrect FullyScavenged Rendezvous HeapTiled PreemptionOn
PROPERTIES BootEnds DeadlockFound
