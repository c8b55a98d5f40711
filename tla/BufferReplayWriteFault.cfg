SPECIFICATION FairSpec
CONSTANTS
    MaxOps = 2
    MaxReplayCnt = 2
    Snapshot = 0
    UseAffinity = TRUE
    Faults = {"write"}
CHECK_DEADLOCK FALSE
PROPERTIES
    ReplayConcludes
