SPECIFICATION FairSpec
CONSTANTS
    NumEps = 3
    AppCodes = {"BENIGN", "APP"}
    Tolerated = {"BENIGN"}
CHECK_DEADLOCK FALSE
INVARIANTS
    TypeOK TriedInOrder VerdictSound
PROPERTIES
    HonoursContract
