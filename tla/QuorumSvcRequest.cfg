SPECIFICATION FairSpec
CONSTANTS
    NumEps = 3
    AppCodes = {"BENIGN"}
    Tolerated = {"BENIGN"}
CHECK_DEADLOCK FALSE
INVARIANTS
    TypeOK VerdictSound VerdictPrompt RetiredIsQuiet
PROPERTIES
    HonoursContract
