SPECIFICATION MCSpec
CONSTANTS
    MaxLocalSparks = 3
    MaxDiscards = 1
    DiscardAfter = 3
    Size <- MCSize
    Thieves = {t1, t2}
    Items = {1, 2, 3, 4, 5}
    NoItem = NoItem
INVARIANTS
    HandedOnce
    OwnerAssertions
    ThiefHoldsFront
PROPERTIES
    ImplementsWorkPool
    StealEnds
