CONSTANTS
    t1 = t1
    t2 = t2
    o1 = o1
    o2 = o2
    Tx = {t1, t2}
    Once = {t2}
    Offset = {o1, o2}
    Desc = Desc
    Null = Null
    Old = Old
    Reader = {}
    MaxStaged = 2
    FaultKinds = {"update", "smPut"}
    MaxFaults = 1
    Evictable = {}
    MaxEvictions = 0
SPECIFICATION Spec
INVARIANT AckedPutsCommitted
CHECK_DEADLOCK FALSE
