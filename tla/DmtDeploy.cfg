SPECIFICATION Spec
CONSTANTS
    DM = {d1, d2}
    InitDM = {d1}
    AM = {a1}
    SM = {}
    FaultKinds = {"vol", "pull", "dmt", "close"}
    MaxEpoch = 2
    MaxFaults = 2
    MaxRestarts = 1
    MaxFailures = 4
INVARIANTS TypeOK CommitAfterSync ClientsNeverAhead NoPanic NeverStuck
CHECK_DEADLOCK FALSE
