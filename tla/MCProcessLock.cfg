SPECIFICATION PLSpec
CONSTANTS
    c0 = c0
    c1 = c1
    t1 = t1
    t2 = t2
    t3 = t3
    r1 = r1
    not_locked = not_locked
    Null = Null
    Bsp = c0
    Core <- MCCore
    Thread <- MCThread
    Cond <- MCCond
    Rsp <- MCRsp
    MaxEpoch = 2
    MaxActive = 1
    MaxProcesses = 4
    MaxForks = 2
SYMMETRY ThreadSymmetry
INVARIANTS
    HolderGetsCore
