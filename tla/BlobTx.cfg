CONSTANTS
    t1 = t1
    t2 = t2
    o1 = o1
    r1 = r1
    r2 = r2
    Tx = {t1, t2}
    Once = {t2}
    Offset = {o1}
    Desc = Desc
    Null = Null
    Old = Old
    Reader = {r1, r2}
    MaxStaged = 1
    FaultKinds = {"commit", "smPut", "query"}
    MaxFaults = 1
    Evictable = {o1}
    MaxEvictions = 1
SYMMETRY Symmetry
SPECIFICATION Spec
INVARIANTS TypeOK FreshReads ReadCommitted FailedPutNeverCommits NothingForgotten
CHECK_DEADLOCK FALSE
