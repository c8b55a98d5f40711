SPECIFICATION Spec
CONSTANTS
    DM = {d1, d2}
    InitDM = {d1}
    AM = {a1}
    SM = {s1}
    FaultKinds = {"close"}
    MaxEpoch = 1
    MaxFaults = 1
    MaxRestarts = 0
    MaxFailures = 4
INVARIANT RolledBack
CHECK_DEADLOCK FALSE
