SPECIFICATION MCSpec
CONSTANTS
    c0 = c0
    c1 = c1
    t1 = t1
    t2 = t2
    cv = cv
    Null = Null
    Bsp = c0
    Core <- MCCore
    Thread <- MCThread
    Cond <- MCCond
    N = 1
    MaxEpoch = 5
    MaxActive = 2
    Cpu <- MCCore
    Cycles = {1, 2}
INVARIANTS
    LockExcludes
    InterruptsRestored
    MaximumIsMaximum
PROPERTIES
    PrimitivesEnd
    SomebodyGetsIn
