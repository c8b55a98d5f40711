SPECIFICATION Spec
CONSTANTS
    r1 = r1
    r2 = r2
    r3 = r3
    Replicas <- MCReplicas
    QuorumCnt = 2
    Asserts = TRUE
    MetaWrites = {2}
    MaxWrites = 2
    MaxOpens = 1
    MaxVersion = 4
    MaxFaults = 1
SYMMETRY Symmetry
CHECK_DEADLOCK FALSE
INVARIANTS
    TypeOK FunctionalCurrent Agreement
