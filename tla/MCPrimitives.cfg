SPECIFICATION MCSpec
CONSTANTS
    c0 = c0
    c1 = c1
    t1 = t1
    t2 = t2
    t3 = t3
    cv = cv
    Null = Null
    Bsp = c0
    Core <- MCCore
    Thread <- MCThread
    Cond <- MCCond
    N = 0
    MaxEpoch = 6
    MaxActive = 3
    ClientEpochs = 1
SYMMETRY MCSymmetry
INVARIANTS
    ExactlyOnePlace
    KernelStack
    AssertionsHold
    ShutdownSound
    MutualExclusion
    NoLostWakeup
    EnoughAwake
    NobodyPassesEarly
    NobodyLeftParked
