SPECIFICATION ProcSpec
CONSTANTS
    c0 = c0
    c1 = c1
    t1 = t1
    t2 = t2
    t3 = t3
    r1 = r1
    r2 = r2
    Null = Null
    Bsp = c0
    Core <- OneCore
    Thread <- MCThread
    Cond = {}
    Rsp <- TwoRsp
    MaxEpoch = 0
    MaxActive = 1
    MaxProcesses = 4
    MaxForks = 1
PROPERTIES
    UserStackKept
