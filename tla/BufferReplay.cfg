SPECIFICATION FairSpec
CONSTANTS
    MaxOps = 5
    MaxReplayCnt = 2
    Snapshot = 1
    UseAffinity = TRUE
    Faults = {"write", "read"}
CHECK_DEADLOCK FALSE
INVARIANTS
    TypeOK QosOrder SingleReplayWork SafeToDelete CompleteMeansReplayed
PROPERTIES
    AbortIsFinal ReplayTakenConcludes
