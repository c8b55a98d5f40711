SPECIFICATION Spec
CONSTANTS
    r1 = r1
    r2 = r2
    r3 = r3
    Replicas <- MCReplicas
    QuorumCnt = 2
    Asserts = FALSE
    MetaWrites = {2}
    MaxWrites = 2
    MaxOpens = 2
    MaxVersion = 4
    MaxFaults = 1
SYMMETRY Symmetry
CHECK_DEADLOCK FALSE
INVARIANTS
    AckedHeld OpenKeepsAcked VerifyHolds VersionsReached 
