SPECIFICATION Spec
CONSTANTS
    r1 = r1
    r2 = r2
    r3 = r3
    Replicas <- MCReplicas
    QuorumCnt = 2
    Asserts = TRUE
    MetaWrites = {2}
    MaxWrites = 1
    MaxOpens = 2
    MaxVersion = 4
    MaxFaults = 1
SYMMETRY Symmetry
CHECK_DEADLOCK FALSE
INVARIANTS
    ReplicatedToAll
