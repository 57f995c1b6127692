SPECIFICATION WaitSpec
CONSTANTS
  c1=c1 c2=c2 t1=t1 t2=t2 t3=t3 mvar1=mvar1 MaxOps=4
  Capabilities = {c1, c2}
  Threads = {t1, t2, t3}
  MVars = {mvar1}
  None = None
  Programs <- Scripted
  Catches = {"unmasked"}
  MaxMessages = 2
  Caps = {c1, c2}
  Tsos = {t1, t2, t3}
  NThunks = 2
  MaxClosures = 4
  MaxMsgs = 3
  Budgets <- SomeBudgets
  Nobody = Nobody
CHECK_DEADLOCK FALSE
SYMMETRY Symmetry
INVARIANTS ValuesKept BlockedAreFound ThrowIsPending ThrowToHonest LocksGivenBack NoSpinningRing BlackHolesOwned NobodyWaitsInVain
PROPERTY MaskRespected
